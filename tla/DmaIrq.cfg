CONSTANTS
  r1 = r1
  r2 = r2
  r3 = r3
  NoReq = NoReq
  Requests <- MCRequests3
  Dir = "H2C"
  Poll = FALSE
  CanCancel = FALSE
SPECIFICATION FairSpec
INVARIANT CompletedAtMostOnce SuccessOnlyIfTransferred
PROPERTY AllComplete ImplementsDmaRequests
