CONSTANTS
  m = m
  n = n
  f = f
  r = r
  i1 = i1
  i2 = i2
  None = None
  Ids <- MCIds
  NameOf <- MCNameOf
  Instances = {i1}
  Chains <- WsChains
  MaxSlot = 4
  StartHeads = {0}
  Resumed = FALSE
  Window = 5
  BackWindow = 5
  TxCap = 3
  MaxFaults = 1
  MaxCrashes = 1
SPECIFICATION WsSpec
INVARIANTS
  HeardIsStored
  LogsCheckpointBacked
  ConvergedWhenCalm
  ReferencesIntact
CHECK_DEADLOCK FALSE
