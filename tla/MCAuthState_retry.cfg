SPECIFICATION FairSpec
CONSTANTS
  Parties = 2
  MaxDeaths = 0
  Cells <- PerTest
INVARIANT
  InheritedAsRead
CHECK_DEADLOCK FALSE
