CONSTANTS
  k1 = k1
  k2 = k2
  Keys = {k1}
  ModuleIds = {m1, m2}
  ForkIds = {f1}
  RunIds = {r1, r2}
  Shas = {h1}
  Sizes = {1}
  Metas <- MCMetas
  NoteLens = {7}
  Policies <- MCTinyPolicies
  MaxCount = 1
  MaxTime = 2
SPECIFICATION Spec
INVARIANTS
  TypeOK
  CountersMatchAccounts
  Timestamps
CHECK_DEADLOCK FALSE
