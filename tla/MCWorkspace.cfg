CONSTANTS
  Files = {".env", ".env.production"}
  Overrides <- MCOverrides
  ProcessEnvs <- MCProcessEnvs
  Edits <- MCEdits
  Terminals = {1, 2}
  MaxWallets = 2
  Programs = {"registry", "other"}
  MaxBuilds = 3
  Subjects <- MCSubjects
  Targets = {"api"}
  MaxCommits = 2
  MaxCommands <- MCCommands
SPECIFICATION Spec
INVARIANTS
  ProductionEnvValid
  ReportsWhatItMade
  IndexMatchesFiles
  StrictVersionsTellCommits
  NotesListTheRange
PROPERTIES
  SecretsKept
CHECK_DEADLOCK FALSE
