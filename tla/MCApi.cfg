CONSTANTS
  q1 = q1
  q2 = q2
  q3 = q3
  q4 = q4
  c1 = c1
  Requests <- MCRequests
  Bodies <- MCBodies
  Contents = {c1}
  Pieces = 2
  Names = {"a", "b"}
  Queued = TRUE
  MaxFaults = 1
  MaxCrashes = 1
  None = None
SPECIFICATION Spec
INVARIANTS
  TypeOK
  ObjectsComplete
  RowsFollowObjects
  LineageInModule
  QueueMatchesRuns
CHECK_DEADLOCK FALSE
