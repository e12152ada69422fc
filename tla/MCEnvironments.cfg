SPECIFICATION FairSpec
CHECK_DEADLOCK FALSE
CONSTANTS
  p = p
  q = q
  base = base
  migrated = migrated
  None = None
  PRs <- MCPRs
  Shas <- MCShas
  BaseSchema = base
  Schemas <- MCSchemas
  TTL = 1
  MaxRuns <- MCMaxRuns
  MayFork = {p}
  MaxTraffic <- MCMaxTraffic
  Wirings <- AllWirings
INVARIANTS
  TornDownForGood
  NewestRunDecides
  OwnData
PROPERTY
  NothingLeaksForEver
