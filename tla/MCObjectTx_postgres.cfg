SPECIFICATION Spec
CONSTANTS
  run = run
  et = et
  seq = seq
  schedule = schedule
  report = report
  handle = handle
  event = event
  Rows = {run, et, seq}
  Ops = {schedule, report, handle, event}
  Writes <- RunWrites
  Held <- ScheduleHeld
  DBType = "postgres"
  MaxTxRetries = 1
INVARIANTS
  TypeOK
  NothingOfFailed
  NoLostUpdate
PROPERTIES
  OverwritesNothing
CHECK_DEADLOCK FALSE
