SPECIFICATION FairSpec
CONSTANTS
  Parties = 2
  MaxDeaths = 2
  Cells <- FiveStrategies
INVARIANTS
  AsDeclared
  NobodyGoesAhead
  ClearedStaysCleared
PROPERTIES
  EveryRunEnds
CHECK_DEADLOCK FALSE
