SPECIFICATION Spec
CONSTANTS
  t1 = t1
  t2 = t2
  t3 = t3
  t4 = t4
  k = k
  o = o
  Txns = {t1, t2, t3}
  Values = {k, o}
  NoTxn = NoTxn
  NoValue = NoValue
  Plan <- CrossedPlan
  KillsInFlight = TRUE
PROPERTY ImplementsIndex
CHECK_DEADLOCK FALSE
