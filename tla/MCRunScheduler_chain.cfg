SPECIFICATION Spec
CONSTANTS
  a = a
  b = b
  c = c
  d = d
  e1 = e1
  e2 = e2
  w1 = w1
  w2 = w2
  None = None
  Tasks = {a, b}
  Depends <- ChainDepends
  Skip = {}
  NeedsApproval = {b}
  IgnoreFailure = {a}
  WorkspaceTasks = {a}
  Executors = {e1}
  Dynamic = {}
  Removable = {}
  CanRun <- AnyExecutor
  ActiveTasksLimit <- NoLimit
  Workers = {w1, w2}
  LateMessages = TRUE
CONSTRAINT EarlyStop
SYMMETRY WorkerSymmetry
INVARIANTS
  TypeOK
  DependenciesRespected
  EventsMatchRun
  SubmittedOncePerWorker
  ArchivedComplete
  ResultConsistent
PROPERTIES
  KeptUntilFetched
  NothingTakenBack
