CONSTANTS
  e1 = e1
  e2 = e2
  e3 = e3
  Readers <- MCReaders
  Lengths <- MCLengths
SPECIFICATION FairSpec
INVARIANT NoStaleSignal
PROPERTY ReadsComplete
