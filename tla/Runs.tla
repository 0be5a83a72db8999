-------------------------------- MODULE Runs --------------------------------
(***************************************************************************)
(* Runs from their creation to their logs: the gateway's requests, the     *)
(* runservice's API and database, the scheduler service that starts runs   *)
(* and passes approvals on, the executors, the fetcher of logs, and the    *)
(* notification services that report the runs' states to the git source.   *)
(* The gateway's requests interleave call by call, a call may fail or its  *)
(* answer be lost after its commit, connections break.                     *)
(*                                                                         *)
(* What the runservice does to one run inside (scheduleRun's transactions, *)
(* executors that come and go, reports out of order) is RunScheduler's     *)
(* subject, the concurrent starts of runs RunQueue's: here each of these   *)
(* is a single step.                                                       *)
(***************************************************************************)
EXTENDS RunGateway

CONSTANTS
    Clients,       \* requests that may be served at the same time
    Notifiers,     \* notification services
    Scenarios,     \* situations: [start, configs, requests, expect, active]; the n-th
                   \* request is one of requests[n], which bounds their number too
    MaxFaults      \* bound on lost calls, failed fetches and broken connections

ASSUME RunsBounds == MaxFaults \in Nat

(* The database with a run of the project p for each run of a configuration. *)
Start(config) ==
    LET rq == [base |-> GenBaseRunGroup("project", "p"), refType |-> "branch", name |-> "master",
               ref |-> "master", sha |-> "s0", config |-> config]
        add(d, i) == RS!RunCreateHandler(d, genCreateRequest(rq, i, d.next))
    IN  FoldLeft(add, RS!EmptyRunDB, [i \in DOMAIN config.runs |-> i])

(***************************************************************************)
(* What the tables are taken to be when the requests begin: ids were given *)
(* out, runs and run configs are found by them, and T has every task that  *)
(* is approved, or was given to an executor although it needs an approval. *)
(***************************************************************************)
Executed == {"success", "failed", "stopped"}
TaskOK(T, t, rt, rct) ==
    /\ DOMAIN rt = {"status", "wait", "appr", "approvers", "setup", "step", "arch"}
    /\ rt.approvers # {} \/ rt.appr \/ (rct.approval /\ rt.status \in Executed) => t \in T
RunOK(T, r, rc) ==
    /\ DOMAIN r = {"id", "seq", "counter", "group", "name", "rc", "sha", "phase", "result", "stop",
                   "archived", "tasks"}
    /\ DOMAIN r.tasks \subseteq DOMAIN rc.tasks
    /\ \A t \in DOMAIN r.tasks : TaskOK(T, t, r.tasks[t], rc.tasks[t])
RunConfigOK(n, rc) ==
    /\ DOMAIN rc = {"id", "name", "group", "tasks", "levels", "errors"}
    /\ \A t \in DOMAIN rc.tasks : t \in Nat /\ t < n /\ "approval" \in DOMAIN rc.tasks[t]
ExecutorTaskOK(T, e, rc) ==
    /\ DOMAIN e = {"id", "run", "phase", "stop"}
    /\ e.id \in DOMAIN rc.tasks
    /\ rc.tasks[e.id].approval => e.id \in T
DatabaseOK(T, d) ==
    /\ DOMAIN d = RS!Tables \cup {"next"} /\ d.next \in Nat
    /\ \A rc \in d.runconfig : rc.id \in Nat /\ rc.id < d.next /\ RunConfigOK(d.next, rc)
    /\ \A a, b \in d.runconfig : a.id = b.id => a = b
    /\ \A r \in d.run : /\ r.id \in Nat /\ r.id < d.next
                         /\ \E rc \in d.runconfig : rc.id = r.rc /\ RunOK(T, r, rc)
    /\ \A a, b \in d.run : a.id = b.id => a = b
    /\ \A e \in d.executortask : \E r \in d.run : \E rc \in d.runconfig :
          r.id = e.run /\ rc.id = r.rc /\ ExecutorTaskOK(T, e, rc)

FiniteConfig(config) == \A i \in DOMAIN config.runs : IsFiniteSet(DOMAIN config.runs[i].tasks)

ASSUME ScenariosAssumption ==
    \A i \in DOMAIN Scenarios : /\ DatabaseOK({}, Start(Scenarios[i].start))
                                /\ \A config \in Scenarios[i].configs : FiniteConfig(config)

(***************************************************************************)
(* The numbers of runs when the requests begin.  A project or user (the    *)
(* second name of a group, an id that no two types share) has given out    *)
(* the numbers from 1 to its counter's value, each to one run, in the      *)
(* order of the runs' sequence.                                            *)
(***************************************************************************)
Number(r) == [id |-> r.id, seq |-> r.seq, counter |-> r.counter, group |-> r.group]
Numbers(d) == {Number(r) : r \in d.run}
sequenceOf(d) == RS!valueOf(RS!GetSequence(d, "run"))
counterOf(d, id) == RS!valueOf(RS!GetRunCounter(d, id))

GroupOK(B, g) == g = <<g[1], g[2], g[3], g[4]>> /\ <<g[1], g[2]>> \in B
InOrder(a, b) ==
    /\ a.seq = b.seq => a = b
    /\ a.group[2] = b.group[2] /\ a.counter = b.counter => a = b
    /\ a.group[2] = b.group[2] /\ a.seq < b.seq => a.counter < b.counter
NumbersOK(B, d) ==
    /\ sequenceOf(d) \in Nat /\ \A b \in B : counterOf(d, b[2]) \in Nat
    /\ \A x \in Numbers(d) : /\ GroupOK(B, x.group) /\ x.seq \in 1 .. sequenceOf(d)
                             /\ x.counter \in 1 .. counterOf(d, x.group[2])
    /\ \A a, b \in Numbers(d) : InOrder(a, b)
    /\ \A b \in B : \A n \in 1 .. counterOf(d, b[2]) :
          \E x \in Numbers(d) : x.group[2] = b[2] /\ x.counter = n

Requests(i) == UNION Range(Scenarios[i].requests)
Bases(i) == {<<rq.base[1], rq.base[2]>> : rq \in Requests(i)}
            \cup {<<r.group[1], r.group[2]>> : r \in Start(Scenarios[i].start).run}
ASSUME NumbersAssumption ==
    /\ MaxRunsLimit \in Nat \ {0}
    /\ \A i \in DOMAIN Scenarios :
         /\ Scenarios[i].requests \in Seq(SUBSET Requests(i))
         /\ \A a, b \in Bases(i) : a[2] = b[2] => a = b
         /\ NumbersOK(Bases(i), Start(Scenarios[i].start))

(***************************************************************************)
(* The logs when the requests begin, L being those stored.  A task that is *)
(* to start has none; one that was executed has those it says are fetched, *)
(* and keeps its executor task until both are.  An executor task belongs   *)
(* to a running run, and what is fetched before its end is stored too.     *)
(***************************************************************************)
Stored(L, t, rt) == /\ rt.setup => RS!logPath(t, "setup") \in L
                    /\ rt.step => RS!logPath(t, "step") \in L
TaskLogsOK(L, phase, t, rt) ==
    /\ rt.status = "notstarted" /\ phase \in {"queued", "running"} => ~rt.setup /\ ~rt.step
    /\ rt.status \in Executed => Stored(L, t, rt)
ExecutorLogsOK(L, e, r) == /\ e.run = r.id /\ e.id \in DOMAIN r.tasks /\ r.phase = "running"
                           /\ e.phase = "notstarted" => Stored(L, e.id, r.tasks[e.id])
Awaited(r, t) == r.tasks[t].status \in Executed /\ ~RS!LogsFetchFinished(r.tasks[t])
LogsOK(L, d) ==
    /\ \A r \in d.run : \A t \in DOMAIN r.tasks :
         /\ TaskLogsOK(L, r.phase, t, r.tasks[t])
         /\ Awaited(r, t) => \E e \in d.executortask : e.run = r.id /\ e.id = t
    /\ \A e \in d.executortask : \E r \in d.run : ExecutorLogsOK(L, e, r)
    /\ \A a, b \in d.executortask : a.id = b.id => a = b

ASSUME LogsAssumption == \A i \in DOMAIN Scenarios : LogsOK({}, Start(Scenarios[i].start))

VARIABLES
    scene,         \* the scenario
    cfg,           \* the configuration in the repository
    db,            \* the runservice's database
    objects,       \* the object store: logs, and archives as part "arch"
    missing,       \* logs and archives that the executor doesn't have, or is gone with
    s,             \* the sessions of the gateway
    appr,          \* the scheduler's approve loop: the run it read
    conn,          \* the notifiers' connections
    lock,          \* the notifier that holds the lock "runevents"
    asked,         \* history: approvals asked for, [run, task, user]
    deleted,       \* history: logs deleted
    origin,        \* history: [new, old, scratch] of every restart
    tried, done,   \* history: by commit, deliveries served and answered without an error
    posted,        \* the git source's statuses: [sha, name, status]
    left, faults   \* the requests and the faults that may still come

history == <<asked, deleted, origin, tried, done, posted>>
vars == <<scene, cfg, db, objects, missing, s, appr, conn, lock, history, left, faults>>

Idle == [on |-> FALSE]
Active(part) == part \in Scenarios[scene].active
Commits == {rq.sha : rq \in {x \in Requests(scene) : "sha" \in DOMAIN x}}
ConfigOf(run) == RS!The(RS!GetRunConfig(db, run.rc))
Scheduled(run) == {e.id : e \in RS!GetExecutorTasksByRun(db, run.id)}
fault == faults > 0 /\ faults' = faults - 1
(* A transaction of the runservice's loops: one that fails leaves nothing. *)
Do(e) == RS!IsOK(e) /\ db' = e

Init ==
    /\ scene \in DOMAIN Scenarios
    /\ cfg \in Scenarios[scene].configs
    /\ db = Start(Scenarios[scene].start)
    /\ objects = {} /\ missing = {}
    /\ s = [c \in Clients |-> Idle] /\ appr = Idle
    /\ conn = [n \in Notifiers |-> Idle] /\ lock = {}
    /\ asked = {} /\ deleted = {} /\ origin = {} /\ posted = {}
    /\ tried = [x \in Commits |-> 0] /\ done = [x \in Commits |-> 0]
    /\ left = Scenarios[scene].requests /\ faults = MaxFaults

(***************************************************************************)
(* The gateway: a request is read and decided on, then its calls are made. *)
(***************************************************************************)
Arrive(c) ==
    /\ ~s[c].on /\ left # <<>> /\ left' = Tail(left)
    /\ \E rq \in Head(left) :
       \E p \in Route(db, rq, cfg) :
         /\ s' = [s EXCEPT ![c] = [on |-> TRUE, plan |-> p]]
         /\ asked' = IF p.call # "approve" THEN asked
                     ELSE asked \cup {[run |-> p.run, task |-> p.task, user |-> rq.user]}
         /\ tried' = IF p.call = "create" THEN [tried EXCEPT ![p.rq.sha] = @ + 1] ELSE tried
    /\ UNCHANGED <<scene, cfg, db, objects, missing, appr, conn, lock, deleted, origin, done, posted, faults>>

AtCall(c, call) == s[c].on /\ s[c].plan.call = call
end(c) == s' = [s EXCEPT ![c] = Idle]

(* The calls that end a plan: the runservice's answer is the gateway's. *)
apply(p) ==
    CASE p.call = "cancel" -> RS!RunActionsHandler(db, p.run,
             [action |-> "changephase", phase |-> "cancelled", token |-> {}])
      [] p.call = "stop" -> RS!RunActionsHandler(db, p.run, [action |-> "stop", token |-> {}])
      [] p.call = "approve" -> RS!RunTaskActionsHandler(db, p.run, p.task,
             [action |-> "setannotations", approvers |-> p.arg, token |-> p.token])
      [] p.call = "save" -> RS!saveRun(db, p.rb, {})
create(rq, i) == RS!RunCreateHandler(db, genCreateRequest(rq, i, db.next))

(* The runservice commits the call. *)
commit(p, e) ==
    /\ db' = e
    /\ origin' = IF p.call # "save" THEN origin
                 ELSE origin \cup {[new |-> r.id, old |-> p.run, scratch |-> p.arg] :
                                     r \in e.run \ db.run}

Call(c) ==
    LET p == s[c].plan
    IN  /\ \E call \in {"cancel", "stop", "approve", "save"} : AtCall(c, call)
        /\ \E e \in {apply(p)} : IF RS!IsOK(e) THEN commit(p, e) ELSE UNCHANGED <<db, origin>>
        /\ end(c)
        /\ UNCHANGED <<scene, cfg, objects, missing, appr, conn, lock, asked, deleted, tried, done, posted,
                       left, faults>>

(* One turn of CreateRuns' loop, which ends with its last run or an error. *)
CreateNext(c) ==
    LET p == s[c].plan
    IN  /\ AtCall(c, "create")
        /\ IF p.todo = {}
           THEN end(c) /\ done' = [done EXCEPT ![p.rq.sha] = @ + 1] /\ UNCHANGED db
           ELSE \E i \in nextOf(p.todo) : \E e \in {create(p.rq, i)} :
                  IF RS!IsOK(e)
                  THEN /\ db' = e
                       /\ IF p.todo = {i} THEN end(c) /\ done' = [done EXCEPT ![p.rq.sha] = @ + 1]
                          ELSE s' = [s EXCEPT ![c].plan.todo = @ \ {i}] /\ UNCHANGED done
                  ELSE end(c) /\ UNCHANGED <<db, done>>
        /\ UNCHANGED <<scene, cfg, objects, missing, appr, conn, lock, asked, deleted, origin, tried, posted,
                       left, faults>>

(* recreateRun's transaction; saveRun's is the next step. *)
RecreateRun(c) ==
    LET p == s[c].plan
    IN  /\ AtCall(c, "restart")
        /\ \E found \in {RS!recreateRun(db, p.run, p.arg)} :
             IF found = {} THEN end(c) /\ UNCHANGED db
             ELSE \E a \in found :
                    /\ s' = [s EXCEPT ![c].plan.call = "save", ![c].plan.rb = a.rb]
                    /\ db' = a.d
        /\ UNCHANGED <<scene, cfg, objects, missing, appr, conn, lock, history, left, faults>>

DeleteLogsCall(c) ==
    LET p == s[c].plan
        kept == RS!LogsDeleteHandler(db, objects, [run |-> p.run, task |-> p.task, part |-> p.arg])
    IN  /\ AtCall(c, "deletelogs") /\ end(c)
        /\ objects' = kept /\ deleted' = deleted \cup (objects \ kept)
        /\ UNCHANGED <<scene, cfg, db, missing, appr, conn, lock, asked, origin, tried, done, posted, left,
                       faults>>

(* The runservice's two reads of a log: of the run, and, when the log isn't *)
(* fetched, of the executor task and then from the executor itself.        *)
ReadLogs(c) ==
    LET p == s[c].plan
    IN  /\ AtCall(c, "logs")
        /\ IF RS!LogsHandler(db, objects, [run |-> p.run, task |-> p.task, part |-> p.arg]) = "executor"
           THEN s' = [s EXCEPT ![c].plan.call = "executorlog"] ELSE end(c)
        /\ UNCHANGED <<scene, cfg, db, objects, missing, appr, conn, lock, history, left, faults>>
executorAnswer(p) == RS!readExecutorLog(db, missing, p.run, p.task, p.arg)
logAnswer(p) ==
    LET a == RS!LogsHandler(db, objects, [run |-> p.run, task |-> p.task, part |-> p.arg])
    IN  IF a = "executor" THEN executorAnswer(p) ELSE a
ReadExecutorLog(c) ==
    /\ AtCall(c, "executorlog") /\ end(c)
    /\ UNCHANGED <<scene, cfg, db, objects, missing, appr, conn, lock, history, left, faults>>

(* The call fails, or it commits and its answer is lost: the gateway       *)
(* answers with an error and makes no further call.                        *)
CallLost(c) ==
    LET p == s[c].plan
    IN  /\ fault
        /\ \E call \in {"approve", "save", "create"} : AtCall(c, call)
        /\ p.call = "create" => p.todo # {}
        /\ \/ UNCHANGED <<db, origin>>
           \/ p.call # "create" /\ RS!IsOK(apply(p)) /\ commit(p, apply(p))
           \/ p.call = "create" /\ \E i \in nextOf(p.todo) :
                  RS!IsOK(create(p.rq, i)) /\ commit(p, create(p.rq, i))
        /\ end(c)
        /\ UNCHANGED <<scene, cfg, objects, missing, appr, conn, lock, asked, deleted, tried, done, posted,
                       left>>

(***************************************************************************)
(* The scheduler service.                                                  *)
(***************************************************************************)
groupRuns(g, phase) ==
    UNION {a.runs : a \in RS!RunsHandler(db, [groups |-> {g}, phases |-> {phase}, results |-> {},
        cgroups |-> {}, start |-> 0, limit |-> 1, asc |-> TRUE])}
StartRun ==
    /\ Active("schedule")
    /\ \E g \in {r.group : r \in db.run} :
         /\ groupRuns(g, "running") = {}
         /\ \E r \in groupRuns(g, "queued") :
              Do(RS!RunActionsHandler(db, r.id, [action |-> "changephase", phase |-> "running",
                                                 token |-> {}]))
    /\ UNCHANGED <<scene, cfg, objects, missing, s, appr, conn, lock, history, left, faults>>

(* approveRunTasks: the run, read again with a change group of its own.    *)
approvalGroup(run) == <<"approval", run>>
ReadApprovals ==
    /\ Active("approve") /\ ~appr.on
    /\ \E r \in {x \in db.run : x.phase = "running"} :
       \E a \in RS!RunHandler(db, r.id, {approvalGroup(r.id)}) :
         /\ appr' = [on |-> TRUE, run |-> a.run, token |-> a.token,
                     todo |-> RS!TasksWaitingApproval(a.run)]
         /\ db' = a.d
    /\ UNCHANGED <<scene, cfg, objects, missing, s, conn, lock, history, left, faults>>

(* slip: nobody has to have approved *)
hasApprovers_slip(rt) == TRUE
hasApprovers(rt) == rt.approvers # {}
(* The waiting tasks in turn.  The token changes with the first approval,  *)
(* so that a second one fails and is left to the next round.               *)
ApproveTask ==
    /\ appr.on
    /\ IF appr.todo = {} THEN appr' = Idle /\ UNCHANGED db
       ELSE \E t \in appr.todo :
            IF ~hasApprovers(appr.run.tasks[t])
            THEN appr' = [appr EXCEPT !.todo = @ \ {t}] /\ UNCHANGED db
            ELSE \E e \in {RS!RunTaskActionsHandler(db, appr.run.id, t,
                              [action |-> "approve", token |-> appr.token])} :
                   IF RS!IsOK(e) THEN db' = e /\ appr' = [appr EXCEPT !.todo = @ \ {t}]
                   ELSE appr' = Idle /\ UNCHANGED db
    /\ UNCHANGED <<scene, cfg, objects, missing, s, conn, lock, history, left, faults>>

(* Change groups nobody touched for a while are deleted. *)
compactChangeGroups ==
    /\ fault
    /\ \E names \in SUBSET {o.id : o \in db.changegroup} \ {{}} :
         Do(RS!DeleteChangeGroup(db, names))
    /\ UNCHANGED <<scene, cfg, objects, missing, s, appr, conn, lock, history, left>>

(***************************************************************************)
(* The runservice's scheduler, one run at a time; S are the tasks that     *)
(* have an executor task.                                                  *)
(***************************************************************************)
FinishedStatuses == {"cancelled", "skipped", "stopped", "success", "failed"}
allFinished(run) == \A t \in DOMAIN run.tasks : run.tasks[t].status \in FinishedStatuses

runResult(run, rc) ==
    IF run.result # "unknown" \/ run.phase # "running" THEN run.result
    ELSE IF \E t \in DOMAIN run.tasks : run.tasks[t].status = "failed" /\ ~rc.tasks[t].ignore
    THEN "failed"
    ELSE IF allFinished(run) THEN "success"
    ELSE IF run.stop THEN "stopped" ELSE "unknown"

(* A run that just became a success returns early. *)
advanceRun(run, rc, S) ==
    LET result == runResult(run, rc)
        early == run.result = "unknown" /\ result = "success"
        phase == IF result # "unknown" /\ ~early /\ allFinished(run) /\ S = {}
                 THEN "finished" ELSE run.phase
        over == result # "unknown" /\ phase \in RS!FinishedPhases
    IN  [run EXCEPT !.result = result, !.phase = phase,
             !.tasks = [t \in DOMAIN @ |->
                 IF over /\ @[t].status = "notstarted"
                 THEN [@[t] EXCEPT !.setup = TRUE, !.step = TRUE, !.arch = TRUE] ELSE @[t]]]

parentsFinished(run, rc, t) ==
    \A p \in RS!GetParents(rc.tasks, t) :
        run.tasks[p].status \in FinishedStatuses /\ RS!ArchivesFetchFinished(run.tasks[p])
conditionStatus == [on_success |-> "success", on_failure |-> "failed", on_skipped |-> "skipped"]
taskMatchesParentDependCondition(run, rc, t) ==
    \A p \in RS!GetParents(rc.tasks, t) :
        \E c \in RS!GetParentDependConditions(rc.tasks, t, p) :
            run.tasks[p].status = conditionStatus[c]

taskStatus(run, rc, S, t) ==
    IF run.tasks[t].status # "notstarted" THEN run.tasks[t].status
    ELSE IF run.stop /\ t \notin S THEN "skipped"
    ELSE IF rc.tasks[t].skip THEN "notstarted"
    ELSE IF RS!GetParents(rc.tasks, t) = {} /\ run.result # "unknown" /\ t \notin S
    THEN "cancelled"
    ELSE IF parentsFinished(run, rc, t) /\ ~taskMatchesParentDependCondition(run, rc, t)
    THEN "skipped" ELSE "notstarted"
waitsApproval(run, rc, S, t) ==
    \/ run.tasks[t].wait
    \/ /\ taskStatus(run, rc, S, t) = "notstarted" /\ ~rc.tasks[t].skip
       /\ parentsFinished(run, rc, t)
       /\ rc.tasks[t].approval /\ ~run.tasks[t].appr
advanceRunTasks(run, rc, S) ==
    [run EXCEPT !.tasks = [t \in DOMAIN @ |->
        [@[t] EXCEPT !.status = taskStatus(run, rc, S, t), !.wait = waitsApproval(run, rc, S, t)]]]

getTasksToRun(run, rc) ==
    {t \in DOMAIN run.tasks :
        /\ ~rc.tasks[t].skip /\ run.tasks[t].status = "notstarted"
        /\ parentsFinished(run, rc, t) /\ taskMatchesParentDependCondition(run, rc, t)
        /\ rc.tasks[t].approval => run.tasks[t].appr}

(* scheduleRun: the run advances, the executor tasks of one to stop too. *)
AdvanceRun ==
    /\ Active("schedule")
    /\ \E r \in RS!GetUnarchivedRuns(db) : \E rc \in RS!GetRunConfig(db, r.rc) :
       \E S \in {Scheduled(r)} : \E a \in {advanceRun(r, rc, S)} :
       \E n \in {IF a.phase = "running" THEN advanceRunTasks(a, rc, S) ELSE a} :
         /\ n # r \/ (r.stop /\ \E e \in RS!GetExecutorTasksByRun(db, r.id) : ~e.stop)
         /\ LET stopped == {[e EXCEPT !.stop = TRUE] : e \in RS!GetExecutorTasksByRun(db, r.id)}
                d == RS!UpdateRun(RS!UpdateExecutorTask(db, IF r.stop THEN stopped ELSE {}), n)
            IN  Do(IF n.phase = r.phase /\ n.result = r.result THEN d ELSE RS!withEvent(d, n))
    /\ UNCHANGED <<scene, cfg, objects, missing, s, appr, conn, lock, history, left, faults>>

(* submitRunTasks, for one task; there is always an executor. *)
SubmitTask ==
    /\ Active("schedule")
    /\ \E r \in {x \in RS!GetUnarchivedRuns(db) : x.phase = "running"} :
       \E rc \in RS!GetRunConfig(db, r.rc) : \E t \in getTasksToRun(r, rc) \ Scheduled(r) :
         Do(RS!InsertExecutorTask(db, [id |-> t, run |-> r.id, phase |-> "notstarted",
                                       stop |-> FALSE]))
    /\ UNCHANGED <<scene, cfg, objects, missing, s, appr, conn, lock, history, left, faults>>

(* The executor reports the task's end, and the report is taken over.  One *)
(* to stop that didn't start is cancelled, and has no logs.                *)
Parts == {"setup", "step", "arch"}
TaskEnds ==
    /\ Active("schedule")
    /\ \E e \in {x \in db.executortask : x.phase = "notstarted"} :
       \E p \in IF e.stop THEN Executed \cup {"cancelled"} ELSE {"success", "failed"} :
       \E r \in RS!GetRun(db, e.run) :
         /\ missing' = IF p = "cancelled" THEN missing \cup {RS!logPath(e.id, x) : x \in Parts}
                       ELSE missing
         /\ Do(RS!UpdateRun(RS!UpdateExecutorTask(db, {[e EXCEPT !.phase = p]}),
                            [r EXCEPT !.tasks[e.id].status = p]))
    /\ UNCHANGED <<scene, cfg, objects, s, appr, conn, lock, history, left, faults>>

(* The executor loses what it has of a task, or is removed from the        *)
(* registry.                                                               *)
ExecutorLoses ==
    /\ Active("lose") /\ fault
    /\ \E e \in db.executortask : \E parts \in (SUBSET Parts) \ {{}} :
         missing' = missing \cup {RS!logPath(e.id, x) : x \in parts}
    /\ UNCHANGED <<scene, cfg, db, objects, s, appr, conn, lock, history, left>>

(***************************************************************************)
(* The fetcher.  A part counts as fetched when it is stored, and also when *)
(* there is nothing to store: no executor task, no executor, or one that   *)
(* doesn't have it.  One it fails to fetch, or whose phase it fails to     *)
(* save (faults), is left for later.  The executor task goes in the round  *)
(* after everything was fetched.                                           *)
(***************************************************************************)
unfetched(rt) == {part \in Parts : ~rt[part]}
withFetched(rt, parts) ==
    [rt EXCEPT !.setup = @ \/ "setup" \in parts, !.step = @ \/ "step" \in parts,
               !.arch = @ \/ "arch" \in parts]
fetched(run, t, parts) ==
    IF t \in Scheduled(run) THEN {RS!logPath(t, x) : x \in parts} \ missing ELSE {}
TaskFetcher ==
    /\ Active("fetch")
    /\ \E r \in RS!GetUnarchivedRuns(db) :
       \E t \in {x \in DOMAIN r.tasks : r.tasks[x].status \in FinishedStatuses} :
       \E got \in (SUBSET unfetched(r.tasks[t])) \ {{}} : \E parts \in SUBSET got :
         /\ faults' = faults - Cardinality(unfetched(r.tasks[t]) \ parts) /\ faults' >= 0
         /\ objects' = objects \cup fetched(r, t, got)
         /\ Do(RS!UpdateRun(db, [r EXCEPT !.tasks[t] = withFetched(@, parts)]))
    /\ UNCHANGED <<scene, cfg, missing, s, appr, conn, lock, history, left>>

DropExecutorTask ==
    /\ Active("fetch")
    /\ \E r \in RS!GetUnarchivedRuns(db) : \E t \in Scheduled(r) :
         /\ r.tasks[t].status \in FinishedStatuses
         /\ RS!LogsFetchFinished(r.tasks[t]) /\ RS!ArchivesFetchFinished(r.tasks[t])
         /\ Do(RS!DeleteExecutorTask(db, t))
    /\ UNCHANGED <<scene, cfg, objects, missing, s, appr, conn, lock, history, left, faults>>

finishedRunArchiver ==
    /\ Active("fetch")
    /\ \E r \in RS!GetUnarchivedRuns(db) :
         /\ r.phase \in RS!FinishedPhases
         /\ \A t \in DOMAIN r.tasks : /\ RS!LogsFetchFinished(r.tasks[t])
                                      /\ RS!ArchivesFetchFinished(r.tasks[t])
         /\ Do(RS!UpdateRun(db, [r EXCEPT !.archived = TRUE]))
    /\ UNCHANGED <<scene, cfg, objects, missing, s, appr, conn, lock, history, left, faults>>

(***************************************************************************)
(* The notification services.  One of them holds the lock and a stream of  *)
(* events; what is sent and not handled when the connection breaks is lost *)
(* with it, and the next connection starts after the last event.           *)
(***************************************************************************)
Connect(n) ==
    /\ Active("notify") /\ ~conn[n].on /\ lock = {}
    /\ lock' = {n}
    /\ conn' = [conn EXCEPT ![n] = [on |-> TRUE, start |-> RS!startSequence(db, 0),
                                    cursor |-> RS!startSequence(db, 0), sent |-> <<>>,
                                    missed |-> {}]]
    /\ UNCHANGED <<scene, cfg, db, objects, missing, s, appr, history, left, faults>>

(* A round of sendRunEvents. *)
SendRunEvents(n) ==
    /\ conn[n].on
    /\ \E page \in {RS!sendRunEvents(db, conn[n].cursor)} :
         /\ page # <<>>
         /\ conn' = [conn EXCEPT ![n].cursor = Last(page).id,
                                 ![n].sent = @ \o page]
    /\ UNCHANGED <<scene, cfg, db, objects, missing, s, appr, lock, history, left, faults>>

(* updateCommitStatus: the status of the commit in the context of the      *)
(* run's name, for the runs of projects.                                   *)
commitStatus(ev) ==
    CASE ev.phase \in {"setuperror", "cancelled"} -> "error"
      [] ev.phase = "running" /\ ev.result = "unknown" -> "pending"
      [] ev.phase = "finished" /\ ev.result = "success" -> "success"
      [] ev.phase = "finished" /\ ev.result \in {"stopped", "failed"} -> "failed"
      [] OTHER -> ""
statusKey(run) == [sha |-> run.sha, name |-> run.name]

(***************************************************************************)
(* The events when the requests begin: numbered from 1 to the sequence's   *)
(* value, of runs in the table, the last one with a status for each run    *)
(* giving the status that the run has now.                                 *)
(***************************************************************************)
statusNow(run) ==
    CASE run.phase \in {"setuperror", "cancelled"} -> "error"
      [] run.phase \in {"queued", "running"} -> "pending"
      [] run.phase = "finished" /\ run.result = "success" -> "success"
      [] OTHER -> "failed"
Report(r) == [id |-> r.id, sha |-> r.sha, name |-> r.name, group |-> r.group, phase |-> r.phase,
              result |-> r.result]
Reports(d) == {Report(r) : r \in d.run}
eventsOf(d) == RS!valueOf(RS!GetSequence(d, "runevent"))
told(d, id) == {e \in d.runevent : e.run = id /\ commitStatus(e) # ""}

ReportOK(x) == /\ x.phase \in {"setuperror", "queued", "cancelled", "running", "finished"}
               /\ x.result \in {"unknown", "success", "failed", "stopped"}
               /\ x.phase = "finished" => x.result # "unknown"
EventsOK(d) ==
    /\ eventsOf(d) \in Nat
    /\ \A e \in d.runevent : e.id \in 1 .. eventsOf(d) /\ \E x \in Reports(d) : x.id = e.run
    /\ \A a, b \in d.runevent : a.id = b.id => a = b
    /\ \A i \in 1 .. eventsOf(d) : \E e \in d.runevent : e.id = i
    /\ \A x \in Reports(d) : /\ ReportOK(x)
                              /\ \A e \in told(d, x.id) : (\A f \in told(d, x.id) : f.id <= e.id)
                                    => commitStatus(e) = statusNow(x)

ASSUME EventsAssumption ==
    /\ MaxRunEventsLimit \in Nat \ {0}
    /\ \A i \in DOMAIN Scenarios : EventsOK(Start(Scenarios[i].start))

HandleEvent(n) ==
    /\ conn[n].on /\ conn[n].sent # <<>>
    /\ conn' = [conn EXCEPT ![n].sent = Tail(@)]
    /\ LET ev == Head(conn[n].sent)
       IN  IF commitStatus(ev) = "" THEN UNCHANGED posted
           ELSE \E a \in RS!RunHandler(db, ev.run, {}) :
                  posted' = IF GroupTypeIDFromRunGroup(a.run.group)[1] = "user" THEN posted
                            ELSE {x \in posted : x.key # statusKey(a.run)}
                                 \cup {[key |-> statusKey(a.run), status |-> commitStatus(ev)]}
    /\ UNCHANGED <<scene, cfg, db, objects, missing, s, appr, lock, asked, deleted, origin, tried,
                   done, left, faults>>

(* One of updateCommitStatus' calls fails: that is logged, and the event   *)
(* is over.                                                                *)
EventFails(n) ==
    /\ fault /\ conn[n].on /\ conn[n].sent # <<>>
    /\ commitStatus(Head(conn[n].sent)) # ""
    /\ conn' = [conn EXCEPT ![n].sent = Tail(@), ![n].missed = @ \cup {Head(conn[n].sent).id}]
    /\ UNCHANGED <<scene, cfg, db, objects, missing, s, appr, lock, history, left>>

Disconnect(n) ==
    /\ fault /\ conn[n].on
    /\ conn' = [conn EXCEPT ![n] = Idle] /\ lock' = {}
    /\ UNCHANGED <<scene, cfg, db, objects, missing, s, appr, history, left>>

Next ==
    \/ \E c \in Clients : Arrive(c)
    \/ \E c \in Clients : Call(c)
    \/ \E c \in Clients : CreateNext(c)
    \/ \E c \in Clients : RecreateRun(c)
    \/ \E c \in Clients : DeleteLogsCall(c)
    \/ \E c \in Clients : ReadLogs(c)
    \/ \E c \in Clients : ReadExecutorLog(c)
    \/ \E c \in Clients : CallLost(c)
    \/ StartRun
    \/ ReadApprovals
    \/ ApproveTask
    \/ compactChangeGroups
    \/ AdvanceRun
    \/ SubmitTask
    \/ TaskEnds
    \/ ExecutorLoses
    \/ TaskFetcher
    \/ DropExecutorTask
    \/ finishedRunArchiver
    \/ \E n \in Notifiers : Connect(n)
    \/ \E n \in Notifiers : SendRunEvents(n)
    \/ \E n \in Notifiers : HandleEvent(n)
    \/ \E n \in Notifiers : EventFails(n)
    \/ \E n \in Notifiers : Disconnect(n)

Spec == Init /\ [][Next]_vars

-----------------------------------------------------------------------------
(* No other group of these runs is LIKE the group g. *)
Alone(g, runs) == \A r \in runs : RS!below(g, r) => r.group = g

(* A project's runs are numbered 1, 2, ... in the order in which they were *)
(* saved, whatever requests failed in between; a number leads the API to   *)
(* the run it was given to, a list read page by page from number to number *)
(* misses none, and a branch's badge shows its last run, unless the runs   *)
(* of another branch are LIKE its own.                                     *)
RunNumbers ==
    \A base \in {GroupTypeIDFromRunGroup(r.group) : r \in db.run} :
    \A mine \in {{r \in db.run : GroupTypeIDFromRunGroup(r.group) = base}} :
        /\ {r.counter : r \in mine} = 1 .. Cardinality(mine)
        /\ \A a, b \in mine : a.seq < b.seq => a.counter < b.counter
        /\ \A r \in mine : LET rq == [base |-> base, number |-> r.counter] IN
             /\ {a.run : a \in GetRun(db, rq)} = {r}
             /\ {x.name : x \in RunHandler(db, rq)} = {r.name}
             /\ \A t \in DOMAIN r.tasks :
                  {x.status : x \in RuntaskHandler(db, [base |-> base, number |-> r.counter,
                                                        task |-> t])} = {r.tasks[t].status}
        /\ \A n \in 0 .. Cardinality(mine) :
             {x.number : x \in RunsHandler(db, [base |-> base, subgroup |-> <<>>, phases |-> {},
                 results |-> {}, start |-> n, limit |-> MaxRunsLimit + 1, asc |-> TRUE])}
             = (n + 1 .. n + MaxRunsLimit) \cap {r.counter : r \in mine}
        /\ \A r \in mine : r.group[3] = "branch" /\ base[1] = "project" /\ Alone(r.group, mine) =>
             GetBadge(db, base[2], r.group[4]) =
                {badge(x) : x \in {y \in mine : y.group = r.group /\
                    \A z \in mine : z.group = r.group => z.counter <= y.counter}}

(* A delivery answered without an error has made a run for every run of    *)
(* the configuration whose conditions it meets, in its group, and none for *)
(* the others; one that failed midway has made at most one of each.  For a *)
(* configuration that is refused there is a single run that says so.       *)
DeliveryComplete ==
    \A x \in Commits : \A expected \in {Scenarios[scene].expect[x]} :
    \A names \in {IF RS!ParseConfig(cfg) THEN expected.names ELSE {"Setup Error"}} :
    \A runs \in {{r \in db.run : r.sha = x /\ \A o \in origin : o.new # r.id}} :
        /\ \A r \in runs : r.name \in names /\ r.group = expected.group
        /\ \A n \in names : Cardinality({r \in runs : r.name = n}) \in done[x] .. tried[x]

(* A task that needs an approval is given to an executor only after a user *)
(* who may act on the project's runs asked for it: through the gateway's   *)
(* annotation, the scheduler's loop and the runservice's two flags.        *)
ApprovedByUser ==
    \A r \in db.run : \A t \in DOMAIN r.tasks :
        /\ ConfigOf(r).tasks[t].approval
        /\ t \in Scheduled(r) \/ r.tasks[t].status \in Executed
        => \E a \in asked : a.task = t /\ a.user \in Owners

(* The log of a task that was executed can be read at any moment, from the *)
(* executor or from the object store, in the run and in the runs restarted *)
(* from it, until it is deleted, unless the executor had lost it before it *)
(* was fetched.  A request that finds no executor task in its second read, *)
(* the log having been fetched since the first one, finds the log when it  *)
(* is made again: it is in the store.  The setup log's place is looked up  *)
(* by the phase of the step's log: it is missed while only the latter is   *)
(* fetched.                                                                *)
LogsServed ==
    \A r \in db.run : \A t \in DOMAIN r.tasks : \A part \in RS!LogParts :
        LET path == RS!logPath(t, part)
            inStore == r.tasks[t].step /\ path \in objects
            plans == GetLogs(db, [base |-> GroupTypeIDFromRunGroup(r.group),
                                  number |-> r.counter, task |-> t, part |-> part])
        IN  \/ r.tasks[t].status \notin Executed
            \/ path \in deleted
            \/ path \in missing /\ ~inStore
            \/ /\ \/ part = "setup" /\ r.tasks[t].step /\ ~r.tasks[t].setup
                  \/ {logAnswer(p) : p \in plans} \in {{"store"}, {"executor"}}
               /\ \A c \in Clients :
                    /\ AtCall(c, "executorlog") /\ s[c].plan.run = r.id
                    /\ s[c].plan.task = t /\ s[c].plan.arg = part
                    => inStore \/ executorAnswer(s[c].plan) = "executor"

(* A run restarted from another keeps of it only tasks that succeeded and  *)
(* whose archives are in the object store, unless the executor had lost    *)
(* them, with everything they depend on; it has the same tasks with the    *)
(* same dependencies, by name, and shares no other task with any run.      *)
RestartConsistent ==
    \A o \in origin : \A n \in RS!GetRun(db, o.new) : \A old \in RS!GetRun(db, o.old) :
    \A kept \in {DOMAIN n.tasks \cap DOMAIN old.tasks} :
    \A rc \in {ConfigOf(n)} : \A orc \in {ConfigOf(old)} :
        LET byName(c) == {<<c.tasks[t].name, {<<c.tasks[p].name, c.tasks[t].depends[p]>> :
                              p \in DOMAIN c.tasks[t].depends}>> : t \in DOMAIN c.tasks}
        IN  /\ o.scratch => kept = {}
            /\ \A t \in kept :
                 /\ old.tasks[t].status = "success" /\ n.tasks[t] = old.tasks[t]
                 /\ rc.tasks[t].save => RS!logPath(t, "arch") \in objects \cup missing
                 /\ DOMAIN rc.tasks[t].depends \subseteq kept
            /\ byName(rc) = byName(orc)
            /\ \A x \in db.run : x.seq < n.seq =>
                 (DOMAIN x.tasks \cap DOMAIN n.tasks) \subseteq kept

(* Once the notifier has handled what the runservice has sent and has to   *)
(* send, the status of a commit is that of the run that changed last, as   *)
(* the run is now: unless the change came before the connection, or its    *)
(* report failed, which is not tried again.                                *)
CommitStatusCurrent ==
    \A n \in Notifiers : conn[n].on /\ conn[n].sent = <<>> =>
    \A r \in db.run :
        LET mine == UNION {told(db, x.id) : x \in {y \in db.run : statusKey(y) = statusKey(r)}}
            last == CHOOSE e \in mine : \A f \in mine : f.id <= e.id
        IN  /\ conn[n].cursor = Cardinality(db.runevent)
            /\ mine # {} /\ last.run = r.id /\ last.id > conn[n].start
            /\ last.id \notin conn[n].missed
            => r.group[1] = "user" \/ [key |-> statusKey(r), status |-> statusNow(r)] \in posted

(* The smallest set with a task's parents that holds their parents too. *)
ancestors(g, t) ==
    LET closed(X) == \A x \in X : DOMAIN g[x].depends \subseteq X
    IN  {p \in DOMAIN g : \A X \in SUBSET DOMAIN g :
            DOMAIN g[t].depends \subseteq X /\ closed(X) => p \in X}

(* A configuration is refused when a task depends on itself, or on a task  *)
(* and also on one that this depends on; the runservice's own check of the *)
(* tasks agrees with it; and a task's level is one more than the highest   *)
(* of its parents.                                                         *)
RunConfigsSound ==
    /\ \A i \in DOMAIN cfg.runs : \A g \in {cfg.runs[i].tasks} :
       \A sound \in {\A t \in DOMAIN g : /\ t \notin ancestors(g, t)
                                          /\ \A p \in DOMAIN g[t].depends :
                                               DOMAIN g[t].depends \cap ancestors(g, p) = {}} :
         /\ RS!ParseConfig(cfg) => sound
         /\ sound /\ Len(cfg.runs) = 1 => RS!ParseConfig(cfg)
         /\ RS!CheckRunConfigTasks(RS!GenRunConfigTasks(cfg.runs[i], 1, "branch", "", "")) = sound
    /\ \A rc \in db.runconfig : ~rc.errors => \A t \in DOMAIN rc.tasks :
         LET parents == {rc.levels[p] : p \in DOMAIN rc.tasks[t].depends}
         IN  /\ rc.levels[t] = 0 <=> parents = {}
             /\ \A l \in parents : l < rc.levels[t]
             /\ parents # {} => rc.levels[t] - 1 \in parents
=============================================================================
