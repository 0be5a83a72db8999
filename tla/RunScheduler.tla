---------------------------- MODULE RunScheduler ----------------------------
(***************************************************************************)
(* The runservice's handling of one run: the scheduler goroutines that     *)
(* advance it and submit its tasks, the handler of the executors' status   *)
(* reports, the executor tasks cleaner, the fetcher of logs and archives,  *)
(* the archiver and the API calls that change the run.                     *)
(*                                                                         *)
(* The database (rows of the tables run, executortask, executor and        *)
(* runevent) is shared by all of them.  Every transaction is serializable, *)
(* hence one action.  scheduleRun uses several transactions and relies on  *)
(* the revision of the rows: an update whose row changed since it was read *)
(* fails.  A worker that holds a copy of the run in pc "read" therefore    *)
(* holds exactly the current row; when the row changes under it, its pc    *)
(* becomes "stale" and its update can only fail.  (That holds as long as   *)
(* the transaction isn't retried: see ObjectTx.)                           *)
(***************************************************************************)
EXTENDS Naturals, Sequences, FiniteSets

CONSTANTS Tasks,            \* the run tasks of the run (rc.Tasks)
          Depends,          \* Depends[t][p]: conditions under which t follows its parent p
          Skip,             \* tasks skipped by the run config
          NeedsApproval,    \* tasks that wait for an approval
          IgnoreFailure,    \* tasks whose failure doesn't fail the run
          WorkspaceTasks,   \* tasks with a save_to_workspace step
          Executors,        \* executor ids
          Dynamic,          \* executors that their siblings may remove
          Removable,        \* executors that somebody may remove
          CanRun,           \* CanRun[t]: executors with the arch and privileges of t
          ActiveTasksLimit, \* ActiveTasksLimit[e], 0 for no limit
          Workers,          \* concurrent invocations of scheduleRun
          LateMessages,      \* whether messages to and from executors may be late: reports out of
                            \* order or from removed executors, a submission after a cancel
          None              \* no executor task, executor or task

Conditions == {"on_success", "on_failure", "on_skipped"}
Phases == {"queued", "cancelled", "running", "finished"}
FinishedPhases == {"cancelled", "finished"}
Results == {"unknown", "stopped", "success", "failed"}
Statuses == {"notstarted", "skipped", "cancelled", "running", "stopped",
             "success", "failed"}
FinishedStatuses == {"cancelled", "skipped", "stopped", "success", "failed"}
EtPhases == {"notstarted", "cancelled", "running", "stopped", "success", "failed"}
FinishedEtPhases == {"cancelled", "stopped", "success", "failed"}

\* "actual" is the phase the task has reached on the executor, which the
\* runservice only knows through status reports
ExecutorTask == [phase : EtPhases, stop : BOOLEAN, executor : Executors,
                 actual : EtPhases]

ASSUME DependsAssumption ==
    /\ DOMAIN Depends = Tasks
    /\ \A t \in Tasks : /\ DOMAIN Depends[t] \subseteq Tasks
                        /\ \A p \in DOMAIN Depends[t] : Depends[t][p] \subseteq Conditions
ASSUME ConfigAssumption ==
    /\ Skip \subseteq Tasks /\ NeedsApproval \subseteq Tasks
    /\ IgnoreFailure \subseteq Tasks /\ WorkspaceTasks \subseteq Tasks
ASSUME ExecutorsAssumption ==
    /\ Dynamic \subseteq Executors /\ Removable \subseteq Executors
    /\ CanRun \in [Tasks -> SUBSET Executors]
    /\ ActiveTasksLimit \in [Executors -> Nat]
    /\ LateMessages \in BOOLEAN
ASSUME WorkersAssumption == IsFiniteSet(Workers)
ASSUME NoneAssumption ==
    None \notin Tasks /\ None \notin Executors /\ None \notin ExecutorTask

VARIABLES
    \* the run's row
    phase, result, stop, archived, status, waiting, approved, logs, archives,
    \* the other tables
    et,        \* et[t]: the executor task of t, or None
    registry,  \* registry[e]: whether e is registered and may be chosen
    events,    \* the run's events, <<phase, result>> each
    \* a worker's local state
    pc, ets, todo, cur, chosen,
    fetcher,   \* fetcher[t]: step of taskFetcher, which holds t's lock
    \* history
    submits    \* submits[t]: executor tasks inserted for t

run == <<phase, result, stop, archived, status, waiting, approved, logs, archives>>
local == <<ets, todo, cur, chosen>>
vars == <<run, et, registry, events, pc, local, fetcher, submits>>

Parents(t) == DOMAIN Depends[t]
Scheduled == {t \in Tasks : et[t] # None}

-----------------------------------------------------------------------------
(* Pure functions of scheduler.go; st is the status of every task, ar the  *)
(* tasks' ArchivesFetchFinished, S the tasks that have an executor task in *)
(* the worker's snapshot.                                                  *)

ConditionStatus(c) == CASE c = "on_success" -> "success"
                        [] c = "on_failure" -> "failed"
                        [] c = "on_skipped" -> "skipped"

taskMatchesParentDependCondition(t, st) ==
    \A p \in Parents(t) : \E c \in Depends[t][p] : st[p] = ConditionStatus(c)

AllParentsFinished(t, st, ar) ==
    \A p \in Parents(t) : st[p] \in FinishedStatuses /\ ar[p]

AllTasksFinished == \A t \in Tasks : status[t] \in FinishedStatuses

advanceRunResult ==
    IF result # "unknown" \/ phase # "running" THEN result
    ELSE IF \E t \in Tasks \ IgnoreFailure : status[t] = "failed" THEN "failed"
    ELSE IF AllTasksFinished THEN "success"
    ELSE IF stop THEN "stopped"
    ELSE "unknown"

\* slip: a run with a result finishes without waiting for its tasks
advanceRunPhase_unfinished(S) ==
    IF advanceRunResult # "unknown" /\ phase \notin FinishedPhases /\ S = {}
    THEN "finished" ELSE phase
\* a run that just became a success returns early and finishes the next time
advanceRunPhase(S) ==
    IF /\ advanceRunResult # "unknown"
       /\ result = "unknown" => advanceRunResult # "success"
       /\ AllTasksFinished
       /\ phase \notin FinishedPhases
       /\ S = {}
    THEN "finished" ELSE phase

\* slip: a task is skipped before the archives of its parents are fetched
advanceTaskStatus_unfetched(t, S) ==
    IF status[t] # "notstarted" THEN status[t]
    ELSE IF stop /\ t \notin S THEN "skipped"
    ELSE IF t \in Skip THEN "notstarted"
    ELSE IF Parents(t) = {} /\ advanceRunResult # "unknown" /\ t \notin S THEN "cancelled"
    ELSE IF /\ \A p \in Parents(t) : status[p] \in FinishedStatuses
            /\ ~taskMatchesParentDependCondition(t, status)
    THEN "skipped" ELSE "notstarted"
\* advanceRunTasks, for one task that isn't started, in the code's order:
\* skip on stop, cancel root tasks, skip when the parents don't match
advanceTaskStatus(t, S) ==
    IF status[t] # "notstarted" THEN status[t]
    ELSE IF stop /\ t \notin S THEN "skipped"
    ELSE IF t \in Skip THEN "notstarted"
    ELSE IF Parents(t) = {} /\ advanceRunResult # "unknown" /\ t \notin S THEN "cancelled"
    ELSE IF /\ AllParentsFinished(t, status, archives)
            /\ ~taskMatchesParentDependCondition(t, status)
    THEN "skipped" ELSE "notstarted"

advanceTaskWaiting(t, S) ==
    \/ waiting[t]
    \/ /\ t \notin Skip
       /\ advanceTaskStatus(t, S) = "notstarted"
       /\ AllParentsFinished(t, status, archives)
       /\ t \in NeedsApproval /\ ~approved[t]

\* slip: the approval isn't waited for
getTasksToRun_unapproved(st, ar) ==
    {t \in Tasks \ Skip : /\ st[t] = "notstarted"
                          /\ AllParentsFinished(t, st, ar)
                          /\ taskMatchesParentDependCondition(t, st)}
getTasksToRun(st, ar) ==
    {t \in Tasks \ Skip : /\ st[t] = "notstarted"
                          /\ AllParentsFinished(t, st, ar)
                          /\ taskMatchesParentDependCondition(t, st)
                          /\ t \in NeedsApproval => approved[t]}

\* slip: the last report counts
updateRunTaskStatus_last(s, p) == p
\* the status of a run task (s) after its executor task reported phase p:
\* finished statuses are kept, and a started task isn't unstarted or cancelled
updateRunTaskStatus(s, p) ==
    IF \/ s = "notstarted"
       \/ s = "running" /\ p \in {"stopped", "success", "failed"}
    THEN p ELSE s

TasksCount(e) == Cardinality({t \in Scheduled : et[t].executor = e})

\* slip: the limit is taken for the number of tasks already there
chooseExecutor_overLimit(t) ==
    {e \in CanRun[t] : /\ registry[e] = "usable"
                       /\ \/ ActiveTasksLimit[e] = 0
                          \/ TasksCount(e) <= ActiveTasksLimit[e]}
\* the executors the choice for t may return; the one the loop meets first
\* depends on the order of the rows
chooseExecutor(t) ==
    {e \in CanRun[t] : /\ registry[e] = "usable"
                       /\ \/ ActiveTasksLimit[e] = 0
                          \/ TasksCount(e) < ActiveTasksLimit[e]}

\* slip: the executor tasks of a run to stop are left alone
stopExecutorTasks_none(S) == et
\* the executor tasks of the snapshot, of a run to stop, are set to stop
stopExecutorTasks(S) ==
    [t \in Tasks |-> IF stop /\ t \in S THEN [et[t] EXCEPT !.stop = TRUE] ELSE et[t]]

\* pc after an update of the run's row: every copy read before is outdated
RunUpdated == [v \in Workers |-> IF pc[v] = "read" THEN "stale" ELSE pc[v]]

\* pc after an update or delete of t's executor task: scheduleRun updates the
\* executor tasks of its snapshot only when the run is set to stop
EtUpdated(t) == [v \in Workers |-> IF pc[v] = "read" /\ stop /\ t \in ets[v]
                                   THEN "stale" ELSE pc[v]]

-----------------------------------------------------------------------------
(* A new run (genRun, genRunTask), saved together with its first event.    *)

Init ==
    /\ phase = "queued" /\ result = "unknown" /\ stop = FALSE /\ archived = FALSE
    /\ status = [t \in Tasks |-> IF t \in Skip THEN "skipped" ELSE "notstarted"]
    /\ waiting = [t \in Tasks |-> FALSE] /\ approved = [t \in Tasks |-> FALSE]
    /\ logs = [t \in Tasks |-> FALSE]
    /\ archives = [t \in Tasks |-> t \notin WorkspaceTasks]
    /\ et = [t \in Tasks |-> None]
    /\ registry = [e \in Executors |-> "usable"]
    /\ events = <<<<"queued", "unknown">>>>
    /\ pc = [w \in Workers |-> "idle"] /\ ets = [w \in Workers |-> {}]
    /\ todo = [w \in Workers |-> {}] /\ cur = [w \in Workers |-> None]
    /\ chosen = [w \in Workers |-> None]
    /\ fetcher = [t \in Tasks |-> "idle"]
    /\ submits = [t \in Tasks |-> 0]

-----------------------------------------------------------------------------
(* API calls (action.go).                                                  *)

\* slip: the event of the change is forgotten
ChangeRunPhase_silent(p) ==
    /\ phase = "queued" /\ p \in {"running", "cancelled"}
    /\ phase' = p /\ pc' = RunUpdated
    /\ UNCHANGED <<result, stop, archived, status, waiting, approved, logs, archives,
                   et, registry, events, local, fetcher, submits>>
ChangeRunPhase(p) ==
    /\ phase = "queued" /\ p \in {"running", "cancelled"}
    /\ phase' = p
    /\ events' = Append(events, <<p, result>>)
    /\ pc' = RunUpdated
    /\ UNCHANGED <<result, stop, archived, status, waiting, approved, logs, archives,
                   et, registry, local, fetcher, submits>>

StopRun ==
    /\ phase = "running"
    /\ stop' = TRUE
    /\ waiting' = [t \in Tasks |-> FALSE]
    /\ pc' = RunUpdated
    /\ UNCHANGED <<phase, result, archived, status, approved, logs, archives,
                   et, registry, events, local, fetcher, submits>>

ApproveRunTask(t) ==
    /\ waiting[t] /\ ~approved[t]
    /\ waiting' = [waiting EXCEPT ![t] = FALSE]
    /\ approved' = [approved EXCEPT ![t] = TRUE]
    /\ pc' = RunUpdated
    /\ UNCHANGED <<phase, result, stop, archived, status, logs, archives,
                   et, registry, events, local, fetcher, submits>>

\* annotations are opaque to the runservice: only the row's revision changes
RunTaskSetAnnotations ==
    /\ pc' = RunUpdated
    /\ UNCHANGED <<run, et, registry, events, local, fetcher, submits>>

-----------------------------------------------------------------------------
(* scheduleRun                                                             *)

\* runsScheduler: list the unarchived runs, then schedule each
RunsScheduler(w) ==
    /\ pc[w] = "idle" /\ ~archived
    /\ pc' = [pc EXCEPT ![w] = "start"]
    /\ UNCHANGED <<run, et, registry, events, local, fetcher, submits>>

\* first transaction: the run and its executor tasks
ReadRun(w) ==
    /\ pc[w] = "start"
    /\ pc' = [pc EXCEPT ![w] = "read"]
    /\ ets' = [ets EXCEPT ![w] = Scheduled]
    /\ UNCHANGED <<run, et, registry, events, todo, cur, chosen, fetcher, submits>>

\* advanceRun on the copy, then the second transaction
AdvanceRun(w) ==
    /\ pc[w] = "read"
    /\ result' = advanceRunResult
    /\ phase' = advanceRunPhase(ets[w])
    /\ LET over == result' # "unknown" /\ phase' \in FinishedPhases
       IN  /\ logs' = [t \in Tasks |-> logs[t] \/ (over /\ status[t] = "notstarted")]
           /\ archives' = [t \in Tasks |-> archives[t] \/ (over /\ status[t] = "notstarted")]
    /\ et' = stopExecutorTasks(ets[w])
    /\ IF phase' = "running"
       THEN /\ status' = [t \in Tasks |-> advanceTaskStatus(t, ets[w])]
            /\ waiting' = [t \in Tasks |-> advanceTaskWaiting(t, ets[w])]
            /\ todo' = [todo EXCEPT ![w] = getTasksToRun(status', archives')]
            /\ pc' = [RunUpdated EXCEPT ![w] = "submit"]
       ELSE /\ pc' = [RunUpdated EXCEPT ![w] = "idle"]
            /\ UNCHANGED <<status, waiting, todo>>
    /\ events' = IF phase' # phase \/ result' # result
                 THEN Append(events, <<phase', result'>>) ELSE events
    /\ ets' = [ets EXCEPT ![w] = {}]
    /\ UNCHANGED <<stop, archived, approved, registry, cur, chosen, fetcher, submits>>

\* the optimistic update finds another revision
AdvanceConflict(w) ==
    /\ pc[w] = "stale"
    /\ pc' = [pc EXCEPT ![w] = "idle"]
    /\ ets' = [ets EXCEPT ![w] = {}]
    /\ UNCHANGED <<run, et, registry, events, todo, cur, chosen, fetcher, submits>>

\* an error of the database or of a call to an executor, or a crash, ends the
\* worker's scheduleRun after any of its transactions
WorkerAborts(w) ==
    /\ pc[w] # "idle"
    /\ pc' = [pc EXCEPT ![w] = "idle"]
    /\ ets' = [ets EXCEPT ![w] = {}] /\ todo' = [todo EXCEPT ![w] = {}]
    /\ cur' = [cur EXCEPT ![w] = None] /\ chosen' = [chosen EXCEPT ![w] = None]
    /\ UNCHANGED <<run, et, registry, events, fetcher, submits>>

\* submitRunTasks: the next task of the list, in the map's random order
NextTask(w, t) ==
    /\ pc[w] = "submit" /\ t \in todo[w]
    /\ todo' = [todo EXCEPT ![w] = @ \ {t}]
    /\ IF et[t] # None THEN UNCHANGED <<pc, cur>>
       ELSE /\ pc' = [pc EXCEPT ![w] = "choose"]
            /\ cur' = [cur EXCEPT ![w] = t]
    /\ UNCHANGED <<run, et, registry, events, ets, chosen, fetcher, submits>>

SubmitEnds(w) ==
    /\ pc[w] = "submit" /\ todo[w] = {}
    /\ pc' = [pc EXCEPT ![w] = "idle"]
    /\ UNCHANGED <<run, et, registry, events, local, fetcher, submits>>

\* slip: the choice isn't recorded
ChooseExecutor_lost(w, e) ==
    /\ pc[w] = "choose" /\ e \in chooseExecutor(cur[w])
    /\ pc' = [pc EXCEPT ![w] = "insert"]
    /\ UNCHANGED <<run, et, registry, events, local, fetcher, submits>>
ChooseExecutor(w, e) ==
    /\ pc[w] = "choose" /\ e \in chooseExecutor(cur[w])
    /\ pc' = [pc EXCEPT ![w] = "insert"]
    /\ chosen' = [chosen EXCEPT ![w] = e]
    /\ UNCHANGED <<run, et, registry, events, ets, todo, cur, fetcher, submits>>

\* without an executor the rest of the list is left for the next round
NoExecutor(w) ==
    /\ pc[w] = "choose" /\ chooseExecutor(cur[w]) = {}
    /\ pc' = [pc EXCEPT ![w] = "idle"]
    /\ todo' = [todo EXCEPT ![w] = {}] /\ cur' = [cur EXCEPT ![w] = None]
    /\ UNCHANGED <<run, et, registry, events, ets, chosen, fetcher, submits>>

\* slip: the executor task is inserted without the second check
InsertExecutorTask_unchecked(w) ==
    /\ pc[w] = "insert"
    /\ et' = [et EXCEPT ![cur[w]] = [phase |-> "notstarted", stop |-> FALSE,
                                     executor |-> chosen[w], actual |-> "notstarted"]]
    /\ submits' = [submits EXCEPT ![cur[w]] = @ + 1]
    /\ pc' = [pc EXCEPT ![w] = "submit"]
    /\ cur' = [cur EXCEPT ![w] = None] /\ chosen' = [chosen EXCEPT ![w] = None]
    /\ UNCHANGED <<run, registry, events, ets, todo, fetcher>>
\* check again that no executor task exists, and insert it; the executor
\* learns of it from the call that follows or from its periodic fetch
InsertExecutorTask(w) ==
    /\ pc[w] = "insert"
    /\ LET t == cur[w] IN
       IF et[t] # None THEN UNCHANGED <<et, submits>>
       ELSE /\ et' = [et EXCEPT ![t] = [phase |-> "notstarted", stop |-> FALSE,
                                        executor |-> chosen[w], actual |-> "notstarted"]]
            /\ submits' = [submits EXCEPT ![t] = @ + 1]
    /\ pc' = [pc EXCEPT ![w] = "submit"]
    /\ cur' = [cur EXCEPT ![w] = None] /\ chosen' = [chosen EXCEPT ![w] = None]
    /\ UNCHANGED <<run, registry, events, ets, todo, fetcher>>

-----------------------------------------------------------------------------
(* Executor tasks: what the executor does, the reports of it, the handler  *)
(* that carries a report over to the run, the cleaner.                     *)

\* the executor (see Executor.tla), as far as the runservice can tell
ExecutorProgress(t, p) ==
    /\ et[t] # None
    /\ \/ et[t].actual = "notstarted" /\ p = "running"
       \/ et[t].actual = "notstarted" /\ p = "cancelled" /\ et[t].stop
       \/ et[t].actual = "cancelled" /\ p = "running" /\ LateMessages
       \/ et[t].actual = "running" /\ p \in {"success", "failed"}
       \/ et[t].actual = "running" /\ p = "stopped" /\ et[t].stop
    /\ et' = [et EXCEPT ![t].actual = p]
    /\ UNCHANGED <<run, registry, events, pc, local, fetcher, submits>>

\* the phases an executor may have sent for t; the answer to a stop is sent
\* aside, and may cross the start of the task
Reported(t) ==
    LET actual == et[t].actual IN
    {actual} \cup (IF ~LateMessages THEN {}
              ELSE {"notstarted"}
                   \cup (IF actual \in {"stopped", "success", "failed"} THEN {"running"} ELSE {})
                   \cup (IF et[t].stop THEN {"cancelled"} ELSE {}))

\* ExecutorTaskStatusHandler stores the report as it comes, in any order
ExecutorTaskStatus(t, p) ==
    /\ et[t] # None /\ p \in Reported(t)
    /\ LateMessages \/ registry[et[t].executor] # "absent"
    /\ et' = [et EXCEPT ![t].phase = p]
    /\ pc' = EtUpdated(t)
    /\ UNCHANGED <<run, registry, events, local, fetcher, submits>>

\* handleExecutorTaskUpdate, after a report or from runTasksUpdater
HandleExecutorTaskUpdate(w, t) ==
    /\ pc[w] = "idle" /\ et[t] # None
    /\ status' = [status EXCEPT ![t] = updateRunTaskStatus(@, et[t].phase)]
    /\ pc' = [RunUpdated EXCEPT ![w] = "start"]
    /\ UNCHANGED <<phase, result, stop, archived, waiting, approved, logs, archives,
                   et, registry, events, local, fetcher, submits>>

\* slip: the executor tasks of removed executors are forgotten
ExecutorTaskCleaner_stopsOnly(t) ==
    /\ et[t] # None /\ et[t].phase \in FinishedEtPhases
    /\ phase \in FinishedPhases /\ ~et[t].stop
    /\ et' = [et EXCEPT ![t].stop = TRUE]
    /\ pc' = EtUpdated(t)
    /\ UNCHANGED <<run, registry, events, local, fetcher, submits>>
\* executorTaskCleaner: stop what is left of a finished run, fail what the
\* removed executors had
ExecutorTaskCleaner(t) ==
    /\ et[t] # None
    /\ \/ /\ et[t].phase \in FinishedEtPhases
          /\ phase \in FinishedPhases /\ ~et[t].stop
          /\ et' = [et EXCEPT ![t].stop = TRUE]
       \/ /\ et[t].phase \notin FinishedEtPhases
          /\ registry[et[t].executor] = "absent"
          /\ et' = [et EXCEPT ![t].phase = "failed"]
    /\ pc' = EtUpdated(t)
    /\ UNCHANGED <<run, registry, events, local, fetcher, submits>>

\* ExecutorStatusHandler; "unusable": no recent status, or at its limit
ExecutorStatus(e, s) ==
    /\ s \in {"usable", "unusable"} /\ s # registry[e]
    /\ registry' = [registry EXCEPT ![e] = s]
    /\ UNCHANGED <<run, et, events, pc, local, fetcher, submits>>

\* deleteStaleExecutors, on behalf of a registered sibling that doesn't list e
DeleteStaleExecutor(e) ==
    /\ e \in Dynamic /\ registry[e] # "absent"
    /\ \E s \in Executors \ {e} : registry[s] # "absent"
    /\ registry' = [registry EXCEPT ![e] = "absent"]
    /\ UNCHANGED <<run, et, events, pc, local, fetcher, submits>>

\* ExecutorDeleteHandler: somebody removes e
DeleteExecutor(e) ==
    /\ e \in Removable /\ registry[e] # "absent"
    /\ registry' = [registry EXCEPT ![e] = "absent"]
    /\ UNCHANGED <<run, et, events, pc, local, fetcher, submits>>

-----------------------------------------------------------------------------
(* Fetching and archiving                                                  *)

\* slips: an executor task is deleted once the log is fetched; tasks that
\* never ran aren't looked at
TaskFetcher_logOnly(t) ==
    /\ fetcher[t] = "idle" /\ ~archived /\ status[t] \in FinishedStatuses
    /\ fetcher' = [fetcher EXCEPT ![t] = IF ~logs[t] THEN "log" ELSE "delete"]
    /\ UNCHANGED <<run, et, registry, events, pc, local, submits>>
TaskFetcher_ranOnly(t) ==
    /\ fetcher[t] = "idle" /\ ~archived /\ status[t] \in FinishedStatuses \ {"skipped"}
    /\ fetcher' = [fetcher EXCEPT ![t] = IF ~logs[t] THEN "log"
                                         ELSE IF ~archives[t] THEN "archive"
                                         ELSE "delete"]
    /\ UNCHANGED <<run, et, registry, events, pc, local, submits>>
\* taskFetcher, under t's lock, works on the fetch phases of the listed run
TaskFetcher(t) ==
    /\ fetcher[t] = "idle" /\ ~archived /\ status[t] \in FinishedStatuses
    /\ fetcher' = [fetcher EXCEPT ![t] = IF ~logs[t] THEN "log"
                                         ELSE IF ~archives[t] THEN "archive"
                                         ELSE "delete"]
    /\ UNCHANGED <<run, et, registry, events, pc, local, submits>>

AfterLog(t) == IF archives[t] THEN "idle" ELSE "archive"

\* the log is stored, doesn't exist or has no executor: its phase is finished
FetchLog(t) ==
    /\ fetcher[t] = "log"
    /\ logs' = [logs EXCEPT ![t] = TRUE]
    /\ fetcher' = [fetcher EXCEPT ![t] = AfterLog(t)]
    /\ pc' = RunUpdated
    /\ UNCHANGED <<phase, result, stop, archived, status, waiting, approved, archives,
                   et, registry, events, local, submits>>

FetchArchive(t) ==
    /\ fetcher[t] = "archive"
    /\ archives' = [archives EXCEPT ![t] = TRUE]
    /\ fetcher' = [fetcher EXCEPT ![t] = "idle"]
    /\ pc' = RunUpdated
    /\ UNCHANGED <<phase, result, stop, archived, status, waiting, approved, logs,
                   et, registry, events, local, submits>>

\* an executor that doesn't answer, a database or a storage error: the phase
\* is retried in the next round
FetchFails(t) ==
    /\ \/ fetcher[t] = "log" /\ fetcher' = [fetcher EXCEPT ![t] = AfterLog(t)]
       \/ fetcher[t] = "archive" /\ fetcher' = [fetcher EXCEPT ![t] = "idle"]
    /\ UNCHANGED <<run, et, registry, events, pc, local, submits>>

DeleteExecutorTask(t) ==
    /\ fetcher[t] = "delete"
    /\ et' = [et EXCEPT ![t] = None]
    /\ fetcher' = [fetcher EXCEPT ![t] = "idle"]
    /\ pc' = EtUpdated(t)
    /\ UNCHANGED <<run, registry, events, local, submits>>

FetcherAborts(t) ==
    /\ fetcher[t] # "idle"
    /\ fetcher' = [fetcher EXCEPT ![t] = "idle"]
    /\ UNCHANGED <<run, et, registry, events, pc, local, submits>>

\* slip: only the logs are waited for
FinishedRunArchiver_logsOnly ==
    /\ ~archived /\ phase \in FinishedPhases
    /\ \A t \in Tasks : logs[t]
    /\ archived' = TRUE
    /\ pc' = RunUpdated
    /\ UNCHANGED <<phase, result, stop, status, waiting, approved, logs, archives,
                   et, registry, events, local, fetcher, submits>>
FinishedRunArchiver ==
    /\ ~archived /\ phase \in FinishedPhases
    /\ \A t \in Tasks : logs[t] /\ archives[t]
    /\ archived' = TRUE
    /\ pc' = RunUpdated
    /\ UNCHANGED <<phase, result, stop, status, waiting, approved, logs, archives,
                   et, registry, events, local, fetcher, submits>>

-----------------------------------------------------------------------------
\* one step of one of the loops and handlers of the services
Step ==
    \/ \E w \in Workers :
        \/ RunsScheduler(w) \/ ReadRun(w) \/ AdvanceRun(w) \/ AdvanceConflict(w)
        \/ SubmitEnds(w) \/ NoExecutor(w) \/ InsertExecutorTask(w)
        \/ \E t \in Tasks : NextTask(w, t) \/ HandleExecutorTaskUpdate(w, t)
        \/ \E e \in Executors : ChooseExecutor(w, e)
    \/ \E t \in Tasks :
        \/ ExecutorTaskCleaner(t)
        \/ \E p \in EtPhases : ExecutorProgress(t, p) \/ ExecutorTaskStatus(t, p)
        \/ TaskFetcher(t) \/ FetchLog(t) \/ FetchArchive(t) \/ DeleteExecutorTask(t)
    \/ FinishedRunArchiver

\* a call to the API
Request ==
    \/ \E p \in Phases : ChangeRunPhase(p)
    \/ StopRun
    \/ \E t \in Tasks : ApproveRunTask(t)
    \/ RunTaskSetAnnotations

\* a failure, or a change in the set of executors
Fault ==
    \/ \E w \in Workers : WorkerAborts(w)
    \/ \E t \in Tasks : FetchFails(t) \/ FetcherAborts(t)
    \/ \E e \in Executors :
        \/ DeleteStaleExecutor(e) \/ DeleteExecutor(e)
        \/ \E s \in {"usable", "unusable"} : ExecutorStatus(e, s)

Next == Step \/ Request \/ Fault

Spec == Init /\ [][Next]_vars
-----------------------------------------------------------------------------
(* Properties *)

\* Every variable has its type: the values the rows of the database and the
\* workers' local variables can hold.
TypeOK ==
    /\ phase \in Phases /\ result \in Results
    /\ stop \in BOOLEAN /\ archived \in BOOLEAN
    /\ status \in [Tasks -> Statuses]
    /\ waiting \in [Tasks -> BOOLEAN] /\ approved \in [Tasks -> BOOLEAN]
    /\ logs \in [Tasks -> BOOLEAN] /\ archives \in [Tasks -> BOOLEAN]
    /\ et \in [Tasks -> ExecutorTask \cup {None}]
    /\ registry \in [Executors -> {"usable", "unusable", "absent"}]
    /\ events \in Seq(Phases \X Results)
    /\ pc \in [Workers -> {"idle", "start", "read", "stale", "submit", "choose", "insert"}]
    /\ ets \in [Workers -> SUBSET Tasks] /\ todo \in [Workers -> SUBSET Tasks]
    /\ cur \in [Workers -> Tasks \cup {None}]
    /\ chosen \in [Workers -> Executors \cup {None}]
    /\ fetcher \in [Tasks -> {"idle", "log", "archive", "delete"}]
    /\ submits \in [Tasks -> Nat]

\* what getTasksToRun asks of a task it returns
MayRun(t) ==
    /\ t \notin Skip
    /\ AllParentsFinished(t, status, archives)
    /\ taskMatchesParentDependCondition(t, status)
    /\ t \in NeedsApproval => approved[t]

\* A task that was ever handed to an executor is one the run config allows to
\* run, and stays one: its parents are finished with the statuses it depends
\* on, their archives are fetched, and it is approved.  submitRunTasks works
\* on a copy of the run that other workers, the fetcher and the API may have
\* changed since.
DependenciesRespected == \A t \in Tasks : submits[t] > 0 => MayRun(t)

\* the ancestors of t: the least set that has its parents and, for those of
\* its members that the run config doesn't skip, their parents
Ancestors ==
    [t \in Tasks |-> {p \in Tasks : \A S \in SUBSET Tasks :
                        Parents(t) \subseteq S /\ (\A q \in S \ Skip : Parents(q) \subseteq S)
                        => p \in S}]
\* The same for all the ancestors: the archives that GenExecutorTaskSpecData
\* lists as workspace operations of a task are fetched when it is submitted.
\* advanceRunTasks and getTasksToRun only look at the direct parents.  (A task
\* that the run config skips is skipped from the start: what follows its
\* skipping doesn't wait for what comes before it.)
WorkspaceComplete ==
    \A t \in Tasks : submits[t] > 0 =>
        \A p \in Ancestors[t] : status[p] \in FinishedStatuses /\ archives[p]

\* The result set by advanceRun agrees with the tasks, whatever was reported
\* after it was set, and the run finishes only with all of its tasks.
ResultConsistent ==
    /\ result = "success" => AllTasksFinished /\
                             \A t \in Tasks \ IgnoreFailure : status[t] # "failed"
    /\ result = "failed" => \E t \in Tasks \ IgnoreFailure : status[t] = "failed"
    /\ result = "stopped" => stop
    /\ phase = "finished" => result # "unknown" /\ AllTasksFinished
    /\ phase \in {"queued", "cancelled"} => /\ result = "unknown" /\ ~stop
                                            /\ \A t \in Tasks : submits[t] = 0

\* An observer of the run's events knows the current phase and result, and is
\* told of no pair twice: scheduleRun and ChangeRunPhase write the event in
\* the transaction that changes the run.
EventsMatchRun ==
    /\ events[Len(events)] = <<phase, result>>
    /\ \A i, j \in 1..Len(events) : events[i] = events[j] => i = j

\* submitRunTasks checks for an executor task but not for the status of the
\* run task it was asked to submit; what bounds the executions of a task is
\* the number of workers that held it in their list when it finished.
SubmittedOncePerWorker == \A t \in Tasks : submits[t] <= Cardinality(Workers)

\* An archived run has nothing left to fetch: the fetcher ignores it.
ArchivedComplete ==
    archived => phase \in FinishedPhases /\ \A t \in Tasks : logs[t] /\ archives[t]

\* The executor task is the reference to the executor that holds the logs and
\* the archives: taskFetcher removes it only once the stored run says that both
\* are fetched.
KeptUntilFetched ==
    [][\A t \in Tasks : et[t] # None /\ et'[t] = None =>
            status[t] \in FinishedStatuses /\ logs[t] /\ archives[t]]_vars

\* No report, retry or concurrent worker takes back a finished task, a result,
\* an approval, a stop, or a phase.
PhaseOrder == [p \in Phases |-> CASE p = "queued" -> {"queued", "running", "cancelled"}
                                  [] p = "running" -> {"running", "finished"}
                                  [] OTHER -> {p}]
NothingTakenBack ==
    [][/\ \A t \in Tasks : /\ status[t] \in FinishedStatuses => status'[t] = status[t]
                           /\ approved[t] => approved'[t]
                           /\ archives[t] => archives'[t]
       /\ result # "unknown" => result' = result
       /\ stop => stop'
       /\ phase' \in PhaseOrder[phase]]_vars

-----------------------------------------------------------------------------
(* Statements of the code's comments that the code doesn't meet.           *)

\* common.go: "there's already an executorTask scheduled for that run task and
\* we can get at most once task execution".
AtMostOnce == \A t \in Tasks : submits[t] <= 1
=============================================================================
