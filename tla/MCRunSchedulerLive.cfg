SPECIFICATION LiveSpec
CONSTANTS
  a = a
  b = b
  e1 = e1
  e2 = e2
  w1 = w1
  w2 = w2
  None = None
  Tasks = {a, b}
  Depends <- ChainDepends
  Skip = {}
  NeedsApproval = {b}
  IgnoreFailure = {}
  WorkspaceTasks = {a}
  Executors = {e1, e2}
  Dynamic = {e2}
  Removable = {}
  CanRun <- AnyExecutor
  ActiveTasksLimit <- Limit1
  Workers = {w1}
  LateMessages = FALSE
  Endless = {a}
  MaxFaults = 1
  MaxRequests = 3
PROPERTIES
  RunFinishes
  FinishedRunArchived
  StoppedRunFinishes
CHECK_DEADLOCK FALSE
