SPECIFICATION Spec
CONSTANTS
  a = a
  b = b
  c = c
  d = d
  e1 = e1
  e2 = e2
  w1 = w1
  w2 = w2
  None = None
  Tasks = {a, b, c, d}
  Depends <- HandlerDepends
  Skip = {d}
  NeedsApproval = {}
  IgnoreFailure = {a}
  WorkspaceTasks = {a}
  Executors = {e1, e2}
  Dynamic = {e1}
  Removable = {e1}
  CanRun <- OnlyE1
  ActiveTasksLimit <- Limit2
  Workers = {w1}
  LateMessages = TRUE
CONSTRAINTS EarlyStop SiblingUsable
INVARIANTS
  WorkspaceComplete
