SPECIFICATION FairSpec
CONSTANTS
  Parties = 2
  MaxDeaths = 0
  Cells <- FiveStrategies
INVARIANT
  AnsweredOnce
CHECK_DEADLOCK FALSE
