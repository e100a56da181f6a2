CONSTANTS
  m = m
  n = n
  f = f
  r = r
  i1 = i1
  i2 = i2
  None = None
  Ids <- MCIds
  NameOf <- MCNameOf
  Instances = {i1, i2}
  Chains <- OverlapChains
  MaxSlot = 4
  StartHeads = {3}
  Resumed = TRUE
  Window = 2
  BackWindow = 2
  TxCap = 3
  MaxFaults = 1
  MaxCrashes = 1
SPECIFICATION Spec
INVARIANTS
  NoLostTransaction
  ReferencesIntact
CHECK_DEADLOCK FALSE
