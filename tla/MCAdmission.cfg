SPECIFICATION Spec
CONSTANTS
  w1 = w1
  w2 = w2
  t1 = t1
  t2 = t2
  Wallets = {w1, w2}
  Threads = {t1, t2}
  Worlds <- AllWorlds
  Window = 3
  Life = 2
  AckLife = 2
  Backoff = 1
  MaxTime = 6
  MaxSessions = 4
INVARIANTS RollingQuota ConcurrencyBound RetryHintIsHonest
CHECK_DEADLOCK FALSE
