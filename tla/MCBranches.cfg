CONSTANTS
  none = none
  invalid = invalid
  p1 = p1
  p2 = p2
  ModelOrder <- Keys
  ColumnOrder <- Names
  Invalid = invalid
  Processes = {p1, p2}
  Backends <- BothBackends
  Registered <- BranchStates
  Written = {}
  HandColumns = {}
  Targets <- NoTarget
  MaxMigrations = 3
  MaxEdits = 0
  MaxDrift = 0
  MaxRuns = 2
  MaxAborts = 0
  NoProcess = none
SPECIFICATION Spec
INVARIANT CatalogIsReplay
CHECK_DEADLOCK FALSE
SYMMETRY SameProcesses
