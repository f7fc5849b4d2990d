SPECIFICATION FairSpec
CONSTANTS
  p1 = p1
  p2 = p2
  p3 = p3
  Pids = {p1, p2, p3}
  s_process_max = 3
  MaxTerms = 2
  MaxDeaths = 2
INVARIANTS CountExact NoZombieForgotten SharedIndex
PROPERTIES NoneLeftBehind KeepsFull GroupStop
CHECK_DEADLOCK FALSE
