SPECIFICATION ObjectSpec
CONSTANTS
  A = A
  p = p
  q = q
  None = None
  Parents = {p}
  Children = {}
  Values = {1, 2}
  Forbidden = {}
  OnDelete <- MCNoChildren
  Clients = {A}
  Feeds = {"scope"}
  MaxMutations = 1
  Protocol = 3
  MaxOperations = 4
  Keys <- MCKeys
  Requests <- MCNoRequests
  MaxRevision = 9
  MaxWrites = 2
  MaxPrunes = 0
  Seed <- MCSeed
  Loaded = {}
  PageSize = 1
  MaxEdits = 2
  Grants <- MCGrants
  MaxGrants = 2
INVARIANTS
  ObjectsConverge
  DeliveriesFit
PROPERTIES
  ObjectsKeepEdits
  DraftsReviewed
CHECK_DEADLOCK FALSE
