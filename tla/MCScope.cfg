SPECIFICATION SystemSpec
CONSTANTS
  A = A
  B = B
  p = p
  q = q
  c = c
  None = None
  Parents = {p, q}
  Children = {c}
  Values = {1}
  Forbidden = {}
  OnDelete <- MCCascade
  Clients = {A, B}
  Feeds = {"scope"}
  MaxMutations = 2
  Protocol = 1
  MaxOperations = 3
  Keys <- MCKeys
  Rows <- MCRows
  Requests <- MCNoRequests
  MaxRevision = 9
  MaxWrites = 1
  MaxPrunes = 0
  Seed <- MCFamily
  Loaded = {A, B}
  PageSize = 1
  MaxEdits = 3
SYMMETRY Replicas
INVARIANTS
  SystemTypeOK
  ShadowFrozen
  DivergenceTracked
  Converged
PROPERTIES
  SyncKeepsEdits
CHECK_DEADLOCK FALSE
