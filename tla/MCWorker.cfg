CONSTANTS
  b = b
  x = x
  NoJob = NoJob
  Bundles = {b}
  Others = {x}
  Queues <- MCQueues
  Files = 1
  PipeSize = 2
  MaxOutputBytes = 1
  Marker = 1
  Descendants = TRUE
  MaxRuns = 2
  MaxWritten = 3
  MaxFaults = 1
  MaxCrashes = 1
SPECIFICATION FairWorkerSpec
INVARIANTS
  TypeOK
  OkIsComplete
  OutputBounded
  RunsInItsDirectory
  CleanedUp
  OnlyWholeArtifactsUsed
PROPERTIES
  WaitEnds
  JobsServed
CHECK_DEADLOCK FALSE
