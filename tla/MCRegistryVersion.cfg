CONSTANTS
  k1 = k1
  k2 = k2
  Keys <- MCKeys
  ModuleIds = {m1}
  ForkIds = {f1}
  RunIds = {r1, r2}
  Shas = {h1}
  Sizes = {1, 2}
  Metas <- MCMetas
  NoteLens = {0, 7}
  Policies <- MCPolicies
  MaxCount = 3
  MaxTime = 0
SPECIFICATION Spec
PROPERTIES
  VersionImmutable
CHECK_DEADLOCK FALSE
