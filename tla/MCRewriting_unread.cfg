SPECIFICATION RewriteSpec
CONSTANTS
  t0 = t0
  t1 = t1
  Contents = {t0, t1}
  Seeded = t0
  MaxSent = 2
INVARIANT
  TransactionIsOurs
CHECK_DEADLOCK FALSE
