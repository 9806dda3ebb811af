CONSTANTS
  f1 = f1
  f2 = f2
  q1 = q1
  q2 = q2
  Files <- MCFiles
  Reqs <- MCReqs
  FileNameLUT <- MCFileNameLUT
  UnknownName = "xdma_unknown"
  UserBarExists = TRUE
  EngineEnabled <- MCEngineEnabled
  BarLength <- MCBarLength
  Offsets <- MCOffsets
  Lengths <- MCLengths
  ModeValues <- MCModeValues
SPECIFICATION Spec
INVARIANT RoutedOnce
