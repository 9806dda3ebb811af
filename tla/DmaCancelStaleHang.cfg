CONSTANTS
  r1 = r1
  r2 = r2
  r3 = r3
  NoReq = NoReq
  Requests <- MCRequests2
  Dir = "H2C"
  Poll = FALSE
  CanCancel = TRUE
SPECIFICATION FairSpec
PROPERTY AllComplete
