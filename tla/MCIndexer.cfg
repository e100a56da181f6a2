CONSTANTS
  m = m
  n = n
  f = f
  r = r
  i1 = i1
  i2 = i2
  None = None
  Ids <- MCIds
  NameOf <- MCNameOf
  Instances = {i1}
  Chains <- MCChains
  MaxSlot = 8
  StartHeads = {6}
  Resumed = FALSE
  Window = 2
  BackWindow = 5
  TxCap = 3
  MaxFaults = 0
  MaxCrashes = 2
SPECIFICATION FairSpec
INVARIANTS
  TypeOK
  Converged
PROPERTIES
  CaughtUp
CHECK_DEADLOCK FALSE
