SPECIFICATION LogSpec
CONSTANTS
  A = A
  p = p
  c = c
  None = None
  Parents = {p}
  Children = {c}
  Values = {1, 2}
  Forbidden = {}
  OnDelete <- MCCascade
  Clients = {A}
  Feeds = {"parents", "children"}
  MaxMutations = 1
  Protocol = 2
  MaxOperations = 4
  Keys <- MCKeys
  Requests <- MCNoRequests
  MaxRevision = 9
  MaxWrites = 3
  MaxPrunes = 0
  Seed <- MCFamily
  Loaded = {}
  PageSize = 2
  MaxEdits = 1
  rest = rest
  local = local
  Adapters = {rest, local}
SYMMETRY Formats
INVARIANTS
  NoPageRefused
  LogCovered
  NothingWaits
  LogsConverge
  OneEncoding
PROPERTIES
  LogsKeepEdits
CHECK_DEADLOCK FALSE
