CONSTANTS
  r1 = r1
  r2 = r2
  r3 = r3
  NoReq = NoReq
  Requests <- MCRequests3
  Dir = "H2C"
  Poll = TRUE
  CanCancel = FALSE
SPECIFICATION FairSpec
INVARIANT HwRunsLiveTxn
PROPERTY AllComplete
