------------------------------- MODULE RunAPI -------------------------------
(***************************************************************************)
(* The runservice's operations on runs (internal/services/runservice/      *)
(* action) and the handlers of its HTTP API (internal/services/runservice/ *)
(* api).  An operation that changes the database is a function from the    *)
(* database its transaction starts with to the one it commits, or Refused; *)
(* one that reads returns the set of its answers, empty for an error.      *)
(*                                                                         *)
(* A run is [id, seq, counter, group, name, rc, sha, phase, result, stop,  *)
(* archived, tasks], a task of it [status, wait, appr, approvers, setup,   *)
(* step, arch]: the annotation with the approvers, and what is fetched of  *)
(* its setup log, its steps' logs and its workspace archives.              *)
(***************************************************************************)
EXTENDS RunDB, RunConfig

CONSTANTS
    DefaultRunsLimit,    \* the length of a page of runs nobody asked for
    MaxRunsLimit,        \* the longest page of runs
    MaxRunEventsLimit    \* events read at a time

FinishedPhases == {"setuperror", "cancelled", "finished"}
NoTasks == <<>>

(***************************************************************************)
(* Change groups.  A token is a set of rows [id, value].                   *)
(***************************************************************************)
genChangeGroupsUpdateTokens(groups) == groups
tokenOf(d, names) == genChangeGroupsUpdateTokens(GetChangeGroupsByNames(d, names))

(* The groups that do not exist are inserted. *)
GetChangeGroupsUpdateTokens(d, names) ==
    LET missing == {n \in names : ~HasID(d, "changegroup", n)}
    IN  IF missing = {} THEN d
        ELSE InsertOrUpdateChangeGroup(Fresh(d, 1), {[id |-> n, value |-> d.next] : n \in missing})

UpdateChangeGroups(d, token) ==
    IF token = {} THEN d
    ELSE IF token # tokenOf(d, {o.id : o \in token}) THEN Refused
    ELSE InsertOrUpdateChangeGroup(Fresh(d, 1), {[id |-> o.id, value |-> d.next] : o \in token})

(***************************************************************************)
(* Changes of a run.                                                       *)
(***************************************************************************)
NewRunEvent(d, run) == [id |-> NextSequence(d, "runevent").value, run |-> run.id,
                        phase |-> run.phase, result |-> run.result]
withEvent(d, run) ==
    InsertRunEvent(InsertOrUpdateSequence(d, NextSequence(d, "runevent")), NewRunEvent(d, run))

(* The transaction the operations share: read, check the token, check the  *)
(* run, save it as `new', with an event when its phase changes.            *)
changeRun(d, id, token, allowed, new) ==
    IF GetRun(d, id) = {} \/ ~allowed THEN Refused
    ELSE LET e == UpdateRun(UpdateChangeGroups(d, token), new)
         IN  IF new.phase = The(GetRun(d, id)).phase THEN e ELSE withEvent(e, new)

ChangePhase(run, phase) == [run EXCEPT !.phase = phase]
ChangeRunPhase(d, id, phase, token) ==
    LET r == The(GetRun(d, id))
    IN  changeRun(d, id, token, phase \in {"running", "cancelled"} /\ r.phase = "queued",
                  ChangePhase(r, phase))

TasksWaitingApproval(run) == {t \in DOMAIN run.tasks : run.tasks[t].wait}
StopRun(d, id, token) ==
    LET r == The(GetRun(d, id))
    IN  changeRun(d, id, token, r.phase = "running",
                  [r EXCEPT !.stop = TRUE,
                      !.tasks = [t \in DOMAIN @ |-> [@[t] EXCEPT !.wait = FALSE]]])

(* The annotations are replaced, whatever they were. *)
RunTaskSetAnnotations(d, id, t, approvers, token) ==
    LET r == The(GetRun(d, id))
    IN  changeRun(d, id, token, t \in DOMAIN r.tasks,
                  [r EXCEPT !.tasks[t].approvers = approvers])

ApproveRunTask(d, id, t, token) ==
    LET r == The(GetRun(d, id))
    IN  changeRun(d, id, token, t \in DOMAIN r.tasks /\ r.tasks[t].wait /\ ~r.tasks[t].appr,
                  [r EXCEPT !.tasks[t].wait = FALSE, !.tasks[t].appr = TRUE])

(***************************************************************************)
(* New runs.                                                               *)
(***************************************************************************)
genRunTask(rct) ==
    [status |-> IF rct.skip THEN "skipped" ELSE "notstarted", wait |-> FALSE, appr |-> FALSE,
     approvers |-> {}, setup |-> FALSE, step |-> FALSE, arch |-> ~rct.save]

genRun(rc, sha) ==
    [id |-> 0, seq |-> 0, counter |-> 0, group |-> rc.group, name |-> rc.name, rc |-> 0,
     sha |-> sha, phase |-> IF rc.errors THEN "setuperror" ELSE "queued",
     result |-> "unknown", stop |-> FALSE, archived |-> FALSE,
     tasks |-> IF rc.errors THEN NoTasks
               ELSE [t \in DOMAIN rc.tasks |-> genRunTask(rc.tasks[t])]]

(* Tasks that fail the checks make a run that cannot start. *)
newRun(rq) ==
    LET levels == GenTasksLevels(rq.tasks)
        rc == [id |-> 0, name |-> rq.name, group |-> rq.group, tasks |-> rq.tasks,
               levels |-> levels,
               errors |-> rq.errors \/ ~CheckRunConfigTasks(rq.tasks) \/ ~levelsOK(levels)]
    IN  IF rq.group = <<>> \/ (rq.tasks = NoTasks /\ ~rq.errors) THEN Refused
        ELSE [run |-> genRun(rc, rq.sha), rc |-> rc]

(* slip: only the setup log is waited for *)
LogsFetchFinished_slip(rt) == rt.setup
LogsFetchFinished(rt) == rt.setup /\ rt.step
ArchivesFetchFinished(rt) == rt.arch

CanRestartFromScratch(run) == run.phase # "setuperror" /\ run.phase \in FinishedPhases
CanRestartFromFailedTasks(run) ==
    /\ CanRestartFromScratch(run)
    /\ run.result # "success"
    /\ \A t \in DOMAIN run.tasks : run.tasks[t].status = "success" =>
          LogsFetchFinished(run.tasks[t]) /\ ArchivesFetchFinished(run.tasks[t])

(* The tasks that get a new id: those to reset, and all below them. *)
resetTasks(run, fromStart) ==
    {t \in DOMAIN run.tasks : fromStart \/ run.tasks[t].status # "success"}
(* slip: the tasks below a reset one are kept *)
recreatedTasks_slip(run, rc, fromStart) == resetTasks(run, fromStart)
recreatedTasks(run, rc, fromStart) ==
    resetTasks(run, fromStart) \cup
    {t \in DOMAIN rc.tasks : GetAllParents(rc.tasks, t) \cap resetTasks(run, fromStart) # {}}

(* The run and its config with the ids from `id' on for the tasks of new.  *)
withNewIDs(run, rc, new, id) ==
    LET newID(t) == IF t \in new THEN id + Cardinality({x \in new : x < t}) ELSE t
        oldID(n) == CHOOSE t \in DOMAIN rc.tasks : newID(t) = n
        ids == {newID(t) : t \in DOMAIN rc.tasks}
        depends(t) == [n \in {newID(p) : p \in DOMAIN rc.tasks[t].depends} |->
                          rc.tasks[t].depends[oldID(n)]]
    IN  [rc |-> [rc EXCEPT
                   !.tasks = [n \in ids |-> [@[oldID(n)] EXCEPT !.depends = depends(oldID(n))]],
                   !.levels = [n \in ids |-> @[oldID(n)]]],
         run |-> [run EXCEPT !.phase = "queued", !.result = "unknown", !.archived = FALSE,
                             !.stop = FALSE,
                   !.tasks = [n \in ids |-> IF n \in DOMAIN @ THEN @[n]
                                            ELSE genRunTask(rc.tasks[oldID(n)])]]]

(* Returns the bundle and the database with the ids taken. *)
recreateRun(d, id, fromStart) ==
    UNION {{LET new == recreatedTasks(r, c, fromStart)
            IN  [rb |-> withNewIDs(r, c, new, d.next), d |-> Fresh(d, Cardinality(new))] :
              c \in GetRunConfig(d, r.rc)} :
                r \in {x \in GetRun(d, id) : IF fromStart THEN CanRestartFromScratch(x)
                                             ELSE CanRestartFromFailedTasks(x)}}

(* The second name of the group: the id of the project or the user. *)
getRunCounterGroupID(g) == g[2]

saveRun(d, rb, token) ==
    LET seq == NextSequence(d, "run")
        counter == NextRunCounter(d, getRunCounterGroupID(rb.run.group))
        run == [rb.run EXCEPT !.id = d.next, !.rc = d.next, !.seq = seq.value,
                              !.counter = counter.value]
    IN  IF Len(rb.run.group) < 2 THEN Refused
        ELSE LET e == InsertOrUpdateRunCounter(InsertOrUpdateSequence(
                          UpdateChangeGroups(Fresh(d, 1), token), seq), counter)
             IN  withEvent(InsertRunConfig(InsertRun(e, run), [rb.rc EXCEPT !.id = d.next]), run)

(* A new run: its tasks took the ids from d.next on. *)
CreateRun(d, rq, token) ==
    IF newRun(rq) = Refused THEN Refused
    ELSE saveRun(Fresh(d, Cardinality(DOMAIN rq.tasks)), newRun(rq), token)

(***************************************************************************)
(* Handlers.                                                               *)
(***************************************************************************)
answer(d, runs, groups) ==
    LET e == GetChangeGroupsUpdateTokens(d, groups)
    IN  {[run |-> r, rc |-> The(GetRunConfig(d, r.rc)), d |-> e, token |-> tokenOf(e, groups)] :
            r \in {x \in runs : GetRunConfig(d, x.rc) # {}}}
RunHandler(d, id, groups) == answer(d, GetRun(d, id), groups)
(* Two runs with the number are an error. *)
RunByGroupHandler(d, g, n, groups) ==
    IF One(GetRunByGroup(d, g, n)) THEN answer(d, GetRunByGroup(d, g, n), groups) ELSE {}

NoLimit == -2
clampLimit(limit) == IF limit = NoLimit THEN DefaultRunsLimit
                     ELSE IF limit > MaxRunsLimit THEN MaxRunsLimit ELSE limit
RunsHandler(d, q) ==
    IF q.limit # NoLimit /\ q.limit < 0 THEN {}
    ELSE {[runs |-> GetRuns(d, q.groups, q.phases, q.results, q.start, clampLimit(q.limit), q.asc),
           d |-> e, token |-> tokenOf(e, q.cgroups)] :
             e \in {GetChangeGroupsUpdateTokens(d, q.cgroups)}}
RunsByGroupHandler(d, q) ==
    IF q.limit # NoLimit /\ q.limit < 0 THEN {}
    ELSE {[runs |-> GetGroupRuns(d, q.group, q.phases, q.results, q.start, clampLimit(q.limit),
                                 q.asc),
           d |-> e, token |-> tokenOf(e, q.cgroups)] :
             e \in {GetChangeGroupsUpdateTokens(d, q.cgroups)}}

RunCreateHandler(d, rq) == CreateRun(d, rq, rq.token)
RunActionsHandler(d, id, rq) ==
    CASE rq.action = "changephase" -> ChangeRunPhase(d, id, rq.phase, rq.token)
      [] rq.action = "stop" -> StopRun(d, id, rq.token)
      [] OTHER -> Refused
RunTaskActionsHandler(d, id, t, rq) ==
    CASE rq.action = "setannotations" -> RunTaskSetAnnotations(d, id, t, rq.approvers, rq.token)
      [] rq.action = "approve" -> ApproveRunTask(d, id, t, rq.token)
      [] OTHER -> Refused

(***************************************************************************)
(* Logs.  A task has two, that of its setup and that of its step.  Where a *)
(* log is looked for depends on the phase of the step's log, for the setup *)
(* log too (step 0 of the query).  The object store's names hold the       *)
(* task's id and no run.                                                   *)
(***************************************************************************)
LogParts == {"setup", "step"}
logPath(t, part) == [task |-> t, part |-> part]
(* The first transaction says where the log is: "executor" leaves it to a  *)
(* second one, with whatever happened in between.                          *)
readTaskLogs(d, objects, id, t, part) ==
    LET runs == {r \in GetRun(d, id) : t \in DOMAIN r.tasks /\ part \in LogParts}
    IN  IF runs = {} THEN "notexist"
        ELSE IF ~The(runs).tasks[t].step THEN "executor"
        ELSE IF logPath(t, part) \in objects THEN "store" ELSE "notexist"
(* The second one finds the executor, which is asked for the log; missing  *)
(* are the logs that it doesn't have, all of them when it is gone.         *)
readExecutorLog(d, missing, id, t, part) ==
    IF GetExecutorTaskByRunTask(d, id, t) # {} /\ logPath(t, part) \notin missing
    THEN "executor" ELSE "notexist"
LogsHandler(d, objects, rq) == readTaskLogs(d, objects, rq.run, rq.task, rq.part)

(* A log that is not in the object store yet is not deleted. *)
LogsDeleteHandler(d, objects, rq) ==
    IF \E r \in GetRun(d, rq.run) : rq.task \in DOMAIN r.tasks /\ r.tasks[rq.task].step
    THEN objects \ {logPath(rq.task, rq.part)} ELSE objects

(***************************************************************************)
(* The stream of events.  Without a sequence to start from it starts after *)
(* the last event.                                                         *)
(***************************************************************************)
startSequence(d, start) ==
    IF start = 0 /\ GetLastRunEvent(d) # {} THEN The(GetLastRunEvent(d)).id ELSE start
(* The rows in the order of their ids. *)
byID(rows) ==
    [i \in 1 .. Cardinality(rows) |->
        CHOOSE o \in rows : Cardinality({x \in rows : x.id <= o.id}) = i]
(* slip: the newest of the events are read, not the next ones *)
sendRunEvents_slip(d, cursor) ==
    byID(page({o \in fetchRunEvents(d) : o.id > cursor}, "id", 0, MaxRunEventsLimit, FALSE))
sendRunEvents(d, cursor) == byID(GetRunEventsFromSequence(d, cursor, MaxRunEventsLimit))
=============================================================================
