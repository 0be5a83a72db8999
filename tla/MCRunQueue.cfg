SPECIFICATION LiveSpec
CONSTANTS
  branch_1 = branch_1
  branch01 = branch01
  s1 = s1
  s2 = s2
  None = None
  Groups = {branch_1, branch01}
  Covers <- Patterns
  Schedulers = {s1, s2}
  PageSize = 1
  MaxRuns = 3
  MaxFaults = 1
INVARIANTS
  TypeOK
PROPERTIES
  IsGroupQueue
  QueuedRunLeaves
