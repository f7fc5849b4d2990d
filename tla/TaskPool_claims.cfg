SPECIFICATION FairSpec
CONSTANTS
  t1 = t1
  t2 = t2
  p1 = p1
  p2 = p2
  w1 = w1
  w2 = w2
  Tasks = {t1, t2}
  Recurring = {}
  Producers = {p1, p2}
  Workers = {w1, w2}
  MaxThreads = 1
  ListMax = 1
  Delays = {0}
  MaxTime = 1
  CreateMayFail = FALSE
  Far = 99
  NoTask = NoTask
  NoWorker = NoWorker
PROPERTY PoolClaims
