SPECIFICATION SystemSpec
CONSTANTS
  A = A
  B = B
  p = p
  q = q
  c = c
  None = None
  Parents = {p}
  Children = {c}
  Values = {1}
  Forbidden = {}
  OnDelete <- MCSetNull
  Clients = {A}
  Feeds = {"parents", "children"}
  MaxMutations = 2
  Protocol = 1
  MaxOperations = 4
  Keys <- MCKeys
  Rows <- MCRows
  Requests <- MCNoRequests
  MaxRevision = 9
  MaxWrites = 3
  MaxPrunes = 0
  Seed <- MCParent
  Loaded = {A}
  PageSize = 2
  MaxEdits = 3
PROPERTIES
  DeletionsStay
CHECK_DEADLOCK FALSE
