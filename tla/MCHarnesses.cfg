SPECIFICATION Spec
CONSTANTS
  t0 = t0
  t1 = t1
  t2 = t2
  Contents = {t0, t1, t2}
  Seeded = t0
  MaxSent = 6
  DbCells <- AllDbCells
  Columns <- AllColumns
  PactCells <- AllPactCells
  Searches <- AllSearches
  Plans <- AllPlans
  FixtureStores <- AllPlans
  FixtureSuites = {s1, s2, s3}
  RedisDatabases = 2
  MaxRuns = 3
  Horizon = 6
  Questions <- AllQuestions
  adaTest = adaTest
  bobTest = bobTest
  rates = rates
  index = index
  indexDir = indexDir
  setup = setup
  data = data
  Files <- ImpactFiles
  Suites = {adaTest, bobTest}
  Candidates <- ImpactCandidates
  Edges <- ImpactEdges
  Triggers = {setup}
  Changes <- AllChanges
  Draws = {0, 639}
  Windows = {100, 600}
  Drifts <- AllDrifts
  MaxSessions = 3
  MaxElapsed = 700
INVARIANTS
  WrapperHolds
  RewritingNests
  MeasuredAsPublished
  CellsAsPublished
  SignalBoundsTheCall
  PactCellsAsPublished
  ReportIsMinimal
  ResidueAsPublished
  SuiteSeesOnlyItsOwn
  AnswersAreSets
  SelectionIsSafe
  RefreshedInTime
PROPERTIES
  OpenBreakerIsSilent
CHECK_DEADLOCK FALSE
