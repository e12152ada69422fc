SPECIFICATION FairSpec
CONSTANTS
  t1 = t1
  t2 = t2
  t3 = t3
  main = main
  other = other
  fresh = fresh
  Tasks = {t1, t2, t3}
  Accounts = {main, other, fresh}
  Amounts = {0, 1, 2, 4}
  Scenarios <- Wire
  Opening <- OpeningBalances
  Unwritten = Unwritten
  NoAccount = NoAccount
  NoTask = NoTask
  MaxFailures = 2
INVARIANTS
  NoLostUpdate
  NoStaleBalance
PROPERTIES
  NobodyOvertakes
  ImplementsAtomic
  EveryTaskSettles
CHECK_DEADLOCK FALSE
