SPECIFICATION FairSpec
CONSTANTS
  t1 = t1
  t2 = t2
  t3 = t3
  t4 = t4
  k = k
  o = o
  Txns = {t1, t2, t3}
  Values = {k}
  NoTxn = NoTxn
  NoValue = NoValue
  Plan <- OneKey
  KillsInFlight = TRUE
PROPERTY InsertReturns
CHECK_DEADLOCK FALSE
