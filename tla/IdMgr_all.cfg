SPECIFICATION FairSpec
CONSTANTS
  p1 = p1
  p2 = p2
  t1 = t1
  t2 = t2
  Procs = {p1, p2}
  Threads = {t1, t2}
  ProcOf <- MCProcOf
  NUMTOFLUSH = 0
  MaxCalls = 4
  MaxCrashes = 1
INVARIANTS LockExact UniqueIds
PROPERTY NobodyStuck
CHECK_DEADLOCK FALSE
