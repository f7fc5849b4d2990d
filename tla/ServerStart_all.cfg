SPECIFICATION FairSpec
CONSTANTS
  ThreadLimit = 4
  MaxTerms = 2
INVARIANTS ReleasedLast Reliable
PROPERTY ChildLifeSpec
CHECK_DEADLOCK FALSE
