SPECIFICATION FairSpec
CONSTANTS
  t1 = t1
  t2 = t2
  p1 = p1
  p2 = p2
  w1 = w1
  w2 = w2
  w3 = w3
  w4 = w4
  Tasks = {t1, t2}
  Recurring = {}
  Producers = {p1}
  Workers = {w1, w2}
  MaxThreads = 2
  ListMax = 1
  Delays = {0, 1}
  MaxTime = 2
  CreateMayFail = TRUE
  Far = 99
  NoTask = NoTask
  NoWorker = NoWorker
PROPERTIES QueuedRuns ExitEnds
