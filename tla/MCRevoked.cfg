SPECIFICATION ObjectSpec
CONSTANTS
  A = A
  p = p
  q = q
  None = None
  Parents = {p, q}
  Children = {}
  Values = {1, 2}
  Forbidden = {}
  OnDelete <- MCNoChildren
  Clients = {A}
  Feeds = {"scope"}
  MaxMutations = 1
  Protocol = 3
  MaxOperations = 4
  Keys <- MCKeys
  Requests <- MCNoRequests
  MaxRevision = 9
  MaxWrites = 0
  MaxPrunes = 0
  Seed <- MCSeed
  Loaded = {}
  PageSize = 1
  MaxEdits = 1
  Grants <- MCGrants
  MaxGrants = 1
INVARIANTS
  RevokedHidden
CHECK_DEADLOCK FALSE
