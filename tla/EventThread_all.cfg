SPECIFICATION FairSpec
CONSTANTS
  d1 = d1
  d2 = d2
  d3 = d3
  Deals = {d1, d2, d3}
  MutexOutcomes = {"locks", "einval"}
  CreateMayFail = TRUE
  PipeRead = 2
  NoDeal = NoDeal
INVARIANTS ResumeCovered ListsDisjoint AnsweredOnce NoneLost ResumeInDealing Dies
PROPERTIES RequestLifeSpec Answered ShutdownEnds Reclaimed
