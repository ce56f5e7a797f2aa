SPECIFICATION SafetySpec
CONSTANTS
  o1 = o1  o2 = o2  o3 = o3  t1 = t1  t2 = t2  t3 = t3
  Ops = {o1, o2, o3}
  Sensitive = {o2}
  Remote = {o2, o3}
  Threads = {t1, t2, t3}
  Worlds <- FaultyWorlds
  MaxBinds = 1
  MaxDeadlines = 2
INVARIANT UnreachableIsSettled
PROPERTY PromiseKept
CHECK_DEADLOCK FALSE
SYMMETRY Symmetry
