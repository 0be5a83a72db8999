SPECIFICATION Spec
CONSTANTS
  a = a
  b = b
  c = c
  d = d
  e1 = e1
  e2 = e2
  w1 = w1
  w2 = w2
  None = None
  Tasks = {a, b}
  Depends <- ChainDepends
  Skip = {}
  NeedsApproval = {}
  IgnoreFailure = {}
  WorkspaceTasks = {}
  Executors = {e1}
  Dynamic = {}
  Removable = {}
  CanRun <- AnyExecutor
  ActiveTasksLimit <- Limit1
  Workers = {w1, w2}
  LateMessages = FALSE
SYMMETRY WorkerSymmetry
INVARIANTS
  AtMostOnce
