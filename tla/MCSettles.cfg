SPECIFICATION FairSpec
CONSTANTS
  A = A
  B = B
  p = p
  q = q
  c = c
  None = None
  Parents = {p}
  Children = {c}
  Values = {1, 2}
  Forbidden = {}
  OnDelete <- MCSetNull
  Clients = {A}
  Feeds = {"scope"}
  MaxMutations = 1
  Protocol = 1
  MaxOperations = 4
  Keys <- MCKeys
  Rows <- MCRows
  Requests <- MCNoRequests
  MaxRevision = 9
  MaxWrites = 2
  MaxPrunes = 1
  Seed <- MCFamily
  Loaded = {}
  PageSize = 1
  MaxEdits = 1
INVARIANTS
  EditsKept
  WritersAgree
  PatchCarriesRow
  CursorCovered
  Converged
PROPERTY
  Settles
CHECK_DEADLOCK FALSE
