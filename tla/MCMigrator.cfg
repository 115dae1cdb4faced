CONSTANTS
  none = none
  invalid = invalid
  p1 = p1
  p2 = p2
  ModelOrder <- Keys
  ColumnOrder <- Names
  Invalid = invalid
  Processes = {p1, p2}
  Backends <- BothBackends
  Registered <- RegisteredStates
  Written <- WrittenOps
  HandColumns <- HandColumnsOfTwo
  Targets <- AnyTarget
  MaxMigrations = 2
  MaxEdits = 1
  MaxDrift = 1
  MaxRuns = 2
  MaxAborts = 1
  NoProcess = none
SPECIFICATION Spec
INVARIANTS TypeOK DependenciesFirst CatalogIsReplayInOrder FailuresExplained DiffReplays ObjectsClear
PROPERTY HandmadeKept
CHECK_DEADLOCK FALSE
SYMMETRY SameProcesses
