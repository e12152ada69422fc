SPECIFICATION FairSpec
CONSTANTS
  d1 = d1
  d2 = d2
  d3 = d3
  r1 = r1
  ann = ann
  bob = bob
  key1 = key1
  key2 = key2
  ord1 = ord1
  ord2 = ord2
  Deliveries = {d1, d2, d3}
  Reconcilers = {r1}
  Principals = {ann, bob}
  Keys = {key1}
  Orders = {ord1, ord2}
  Amounts = {0, 1, 2}
  NoKey = NoKey
  NoOne = NoOne
  NoRow = NoRow
  NoDedup = NoDedup
  Joined <- Text
  Cells <- Matrix
  LeaseTTL = 1
  KeyTTL = 2
  MaxTime <- Clock
  MayDecline = {d1}
INVARIANTS
  MoneyMovedOnce
  ChargeBackedByMoney
  ToldTheTruth
  OneWorkerPerKey
  OneChargeEach
  NothingLeavesUncommitted
PROPERTIES
  RecordedAnswerStable
  EveryDeliveryEnds
  EveryIntentIsSent
  ImplementsOnce
CHECK_DEADLOCK FALSE
