CONSTANTS
  Files = 1
  PipeSize = 2
  MaxOutputBytes = 1
  Marker = 1
  Descendants = FALSE
  MaxRuns = 1
  MaxWritten = 3
  MaxFaults = 0
  MaxCrashes = 0
SPECIFICATION Spec
INVARIANTS
  OverLimitFails
CHECK_DEADLOCK FALSE
