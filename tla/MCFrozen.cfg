SPECIFICATION SystemSpec
CONSTANTS
  A = A
  B = B
  p = p
  q = q
  c = c
  None = None
  Parents = {p}
  Children = {c}
  Values = {1, 2}
  Forbidden = {}
  OnDelete <- MCCascade
  Clients = {A}
  Feeds = {"parents", "children"}
  MaxMutations = 2
  Protocol = 1
  MaxOperations = 4
  Keys <- MCKeys
  Rows <- MCRows
  Requests <- MCNoRequests
  MaxRevision = 9
  MaxWrites = 2
  MaxPrunes = 0
  Seed <- MCApart
  Loaded = {A}
  PageSize = 2
  MaxEdits = 2
INVARIANT
  ShadowFrozen
CHECK_DEADLOCK FALSE
