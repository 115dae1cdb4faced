SPECIFICATION PreparedSpec
CONSTANTS
  p1 = p1
  c1 = c1
  c2 = c2
  c3 = c3
  v1 = v1
  bad = bad
  h1 = h1
  None = None
  Parents <- MCParents
  Children <- MCChildren
  Values <- MCValues
  Forbidden <- MCForbidden
  OnDelete <- MCOnDelete
  Keys <- MCKeys
  Requests <- MCRequests
  MaxRevision = 3
  MaxWrites = 1
  MaxPrunes = 0
  Handlers <- MCHandlers
  Prepared <- MCPrepared
  Watched <- MCWatched
  Saves <- MCSaves
  OwnKeys <- MCOwnKeys
  MaxCalls = 1
INVARIANTS
  TypeOK
  JournalIsHistory
  References
  OneOutcome
  FirstWriterWins
  EffectsTellTruth
  EffectsOnce
PROPERTIES
  DeletedForGood
  ImplementsStore
CHECK_DEADLOCK FALSE
