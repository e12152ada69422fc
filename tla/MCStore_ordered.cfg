SPECIFICATION FairSpec
CONSTANTS
  t1 = t1
  t2 = t2
  t3 = t3
  t4 = t4
  k = k
  o = o
  Txns = {t1, t2, t3, t4}
  Values = {k, o}
  NoTxn = NoTxn
  NoValue = NoValue
  Plan <- OrderedPlan
  KillsInFlight = FALSE
INVARIANTS
  NoLockOutlivesItsTransaction
  NeverDeadlocked
PROPERTY InsertReturns
CHECK_DEADLOCK FALSE
