CONSTANTS
  a = a
  b = b
  Names = {a, b}
  MaxModules = 2
  MaxForks = 3
  MaxSummaries = 2
  Plans <- MCPlans
  Suggestions <- MCSuggestions
  Configs <- MCConfigs
  MaxTicks = 4
  MaxCrashes = 1
SPECIFICATION FairSpec
INVARIANTS
  RemembersCompletedTicks
PROPERTIES
  TicksEnd
CHECK_DEADLOCK FALSE
