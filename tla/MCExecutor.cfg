SPECIFICATION LiveSpec
CONSTANTS
  Ids = {t1}
  Limit = 1
  MaxCrashes = 2
  t1 = t1
  None = None
INVARIANTS
  TypeOK
  DataKept
PROPERTIES
  NotExecutedAgain
  EveryTaskEnds
  StopEnds
  Released
  PostsAnswered
