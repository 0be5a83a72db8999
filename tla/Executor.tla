------------------------------ MODULE Executor ------------------------------
(***************************************************************************)
(* One executor: its map of running tasks, the goroutine that executes     *)
(* each of them, the two that call taskUpdater (tasksUpdater with the list *)
(* of the runservice, handleTasks with the tasks posted to the executor),  *)
(* the sender of statuses, and the cleaners of pods and of task data.      *)
(* The runservice is the environment: the executor tasks it stores, posts, *)
(* stops and removes (see RunScheduler).                                   *)
(***************************************************************************)
EXTENDS Naturals, FiniteSets

CONSTANTS Ids,         \* ids of the executor tasks, none of them ever used again
          Limit,       \* ActiveTasksLimit
          MaxCrashes,  \* bound: restarts of the executor
          None

ASSUME LimitAssumption == Limit \in Nat /\ MaxCrashes \in Nat

EtPhases == {"notstarted", "cancelled", "running", "stopped", "success", "failed"}
FinishedEtPhases == {"cancelled", "stopped", "success", "failed"}
Row == [phase : EtPhases, stop : BOOLEAN]
Message == [id : Ids, phase : EtPhases, stop : BOOLEAN]

\* an entry of runningTasks: the phase and stop of its copy of the executor
\* task, whether its context is cancelled, and where executeTask is; it holds
\* the entry's lock throughout "setup"
RunningTask == [phase : EtPhases, stop : BOOLEAN, cancelled : BOOLEAN,
                step : {"spawned", "setup", "steps", "ended"}]

ASSUME NoneAssumption == None \notin RunningTask /\ None \notin Row /\ None \notin Ids

\* the data directory of a task: none; that of an execution that isn't over; the
\* logs and archives of one that is; what a swept execution left of these
Data == {"none", "partial", "complete", "damaged"}

\* the goroutines that call taskUpdater
Callers == {"updater", "handler"}

VARIABLES
    \* the runservice
    db,        \* db[t]: the stored executor task, or None
    submitted, \* the executor tasks created so far
    ended,     \* those whose run task is finished
    \* messages
    posts,     \* executor tasks posted to the executor
    answers,   \* statuses that taskUpdater sends aside
    \* the executor
    rt,        \* rt[t]: the entry of runningTasks, or None
    adding,    \* adding[c]: the task that c found below the limit and will add
    round,     \* step of tasksUpdater
    list, left,\* the list it works on, and what is left of it
    zombies,   \* zombies[t]: executions that left runningTasks and still unwind
    pods,      \* tasks with a pod
    data,      \* data[t]: what the data directory of t holds
    crashes,
    late       \* history: tasks with a post that starts them under way at a restart

service == <<db, submitted, ended>>
updater == <<round, list, left>>
vars == <<service, posts, answers, rt, adding, updater, zombies, pods, data, crashes, late>>

runningTasks == {t \in Ids : rt[t] # None}
Existing == {t \in Ids : db[t] # None}

Init ==
    /\ db = [t \in Ids |-> None] /\ submitted = {} /\ ended = {}
    /\ posts = {} /\ answers = {}
    /\ rt = [t \in Ids |-> None] /\ adding = [c \in Callers |-> None]
    /\ round = "idle" /\ list = {} /\ left = {}
    /\ zombies = [t \in Ids |-> 0] /\ pods = {} /\ data = [t \in Ids |-> "none"]
    /\ crashes = 0 /\ late = {}

-----------------------------------------------------------------------------
(* The runservice                                                          *)

\* slip: the stop isn't sent
Copy_noStop(t, row) == [id |-> t, phase |-> row.phase]
\* a posted executor task, or an entry of the list, is a copy of the row
Copy(t, row) == [id |-> t, phase |-> row.phase, stop |-> row.stop]

Submit(t) ==
    /\ t \notin submitted
    /\ submitted' = submitted \cup {t}
    /\ db' = [db EXCEPT ![t] = [phase |-> "notstarted", stop |-> FALSE]]
    /\ posts' = posts \cup {Copy(t, db'[t])}
    /\ UNCHANGED <<ended, answers, rt, adding, updater, zombies, pods, data, crashes, late>>

Stop(t) ==
    /\ db[t] # None /\ ~db[t].stop
    /\ db' = [db EXCEPT ![t].stop = TRUE]
    /\ posts' = posts \cup {Copy(t, db'[t])}
    /\ UNCHANGED <<submitted, ended, answers, rt, adding, updater, zombies, pods, data, crashes, late>>

\* the executor was removed from the registry: the runservice gives t up
GiveUp(t) ==
    /\ db[t] # None /\ db[t].phase \notin FinishedEtPhases
    /\ db' = [db EXCEPT ![t].phase = "failed"]
    /\ ended' = ended \cup {t}
    /\ UNCHANGED <<submitted, posts, answers, rt, adding, updater, zombies, pods, data, crashes, late>>

\* the logs and archives are fetched
Remove(t) ==
    /\ db[t] # None /\ t \in ended
    /\ db' = [db EXCEPT ![t] = None]
    /\ UNCHANGED <<submitted, ended, posts, answers, rt, adding, updater, zombies, pods, data, crashes, late>>

\* ExecutorTaskStatusHandler: the row's phase becomes p
Report(t, p) ==
    /\ db' = IF db[t] = None THEN db ELSE [db EXCEPT ![t].phase = p]
    /\ ended' = IF db[t] # None /\ p \in FinishedEtPhases THEN ended \cup {t} ELSE ended
    /\ UNCHANGED submitted

\* sendExecutorTaskStatus: nothing is sent with a cancelled context, and a
\* call may fail
sendExecutorTaskStatus(t, p, cancelled) ==
    \/ ~cancelled /\ Report(t, p)
    \/ UNCHANGED service

LosePost(msg) ==
    /\ msg \in posts /\ posts' = posts \ {msg}
    /\ UNCHANGED <<service, answers, rt, adding, updater, zombies, pods, data, crashes, late>>

-----------------------------------------------------------------------------
(* taskUpdater                                                             *)

\* "activeTasks > e.c.ActiveTasksLimit" is what holds a task back
HasRoom == Cardinality(runningTasks) <= Limit

\* slip: the context isn't cancelled
StopEntry_only(x, msg) == IF msg.stop THEN [x EXCEPT !.stop = TRUE] ELSE x
StopEntry(x, msg) ==
    IF msg.stop /\ ~x.stop THEN [x EXCEPT !.stop = TRUE, !.cancelled = TRUE] ELSE x

\* slip: what the last process ran is forgotten
AnswersTo_stops(msg) ==
    IF msg.phase = "notstarted" /\ msg.stop THEN {[msg EXCEPT !.phase = "cancelled"]} ELSE {}
\* the answers to msg when there's no running task for it
AnswersTo(msg) ==
    CASE msg.phase = "notstarted" /\ msg.stop -> {[msg EXCEPT !.phase = "cancelled"]}
      [] msg.phase = "running" -> {[msg EXCEPT !.phase = "failed"]}
      [] OTHER -> {}

\* slip: an execution keeps the lock of its entry when it ends
taskUpdater_locked(c, msg) ==
    LET t == msg.id IN
    /\ adding[c] = None
    /\ IF rt[t] # None
       THEN /\ rt[t].step \notin {"setup", "ended"}
            /\ rt' = [rt EXCEPT ![t] = StopEntry(@, msg)]
            /\ UNCHANGED <<answers, adding>>
       ELSE /\ answers' = answers \cup AnswersTo(msg)
            /\ adding' = IF msg.phase = "notstarted" /\ ~msg.stop /\ HasRoom
                         THEN [adding EXCEPT ![c] = t] ELSE adding
            /\ UNCHANGED rt
\* caller c handles msg.  The check of the limit and the addition to
\* runningTasks are separate steps
taskUpdater(c, msg) ==
    LET t == msg.id IN
    /\ adding[c] = None
    /\ IF rt[t] # None
       THEN /\ rt[t].step # "setup"
            /\ rt' = [rt EXCEPT ![t] = StopEntry(@, msg)]
            /\ UNCHANGED <<answers, adding>>
       ELSE /\ answers' = answers \cup AnswersTo(msg)
            /\ adding' = IF msg.phase = "notstarted" /\ ~msg.stop /\ HasRoom
                         THEN [adding EXCEPT ![c] = t] ELSE adding
            /\ UNCHANGED rt

addIfNotExists(c) ==
    /\ adding[c] # None
    /\ rt' = IF rt[adding[c]] # None THEN rt
             ELSE [rt EXCEPT ![adding[c]] = [phase |-> "notstarted", stop |-> FALSE,
                                             cancelled |-> FALSE, step |-> "spawned"]]
    /\ adding' = [adding EXCEPT ![c] = None]
    /\ UNCHANGED <<service, posts, answers, updater, zombies, pods, data, crashes, late>>

Answer(msg) ==
    /\ msg \in answers /\ answers' = answers \ {msg}
    /\ sendExecutorTaskStatus(msg.id, msg.phase, FALSE)
    /\ UNCHANGED <<posts, rt, adding, updater, zombies, pods, data, crashes, late>>

handleTasks(msg) ==
    /\ msg \in posts /\ posts' = posts \ {msg}
    /\ taskUpdater("handler", msg)
    /\ UNCHANGED <<service, updater, zombies, pods, data, crashes, late>>

-----------------------------------------------------------------------------
(* tasksUpdater: update what is listed, then remove what isn't             *)

ListTasks ==
    /\ round = "idle" /\ round' = "update"
    /\ list' = {Copy(t, db[t]) : t \in Existing} /\ left' = Existing
    /\ UNCHANGED <<service, posts, answers, rt, adding, zombies, pods, data, crashes, late>>

UpdateTask(msg) ==
    /\ round = "update" /\ msg \in list /\ msg.id \in left
    /\ taskUpdater("updater", msg)
    /\ left' = left \ {msg.id}
    /\ UNCHANGED <<service, posts, round, list, zombies, pods, data, crashes, late>>

\* slip: what isn't listed stays
UpdateEnds_noSweep ==
    /\ round = "update" /\ left = {} /\ adding["updater"] = None
    /\ round' = "sweep"
    /\ UNCHANGED <<service, posts, answers, rt, adding, list, left, zombies, pods, data, crashes, late>>
UpdateEnds ==
    /\ round = "update" /\ left = {} /\ adding["updater"] = None
    /\ round' = "sweep" /\ left' = runningTasks \ {msg.id : msg \in list}
    /\ UNCHANGED <<service, posts, answers, rt, adding, list, zombies, pods, data, crashes, late>>

RemoveRunningTask(t) ==
    /\ round = "sweep" /\ t \in left
    /\ left' = left \ {t}
    /\ rt' = [rt EXCEPT ![t] = None]
    /\ zombies' = IF rt[t] # None /\ rt[t].step # "ended" THEN [zombies EXCEPT ![t] = @ + 1]
                  ELSE zombies
    /\ UNCHANGED <<service, posts, answers, adding, round, list, pods, data, crashes, late>>

SweepEnds ==
    /\ round = "sweep" /\ left = {}
    /\ round' = "idle" /\ list' = {} /\ UNCHANGED left
    /\ UNCHANGED <<service, posts, answers, rt, adding, zombies, pods, data, crashes, late>>

-----------------------------------------------------------------------------
(* executeTask                                                             *)

\* setupTask begins by emptying the data directory
StartTask(t) ==
    /\ rt[t] # None /\ rt[t].step = "spawned"
    /\ rt' = [rt EXCEPT ![t].step = "setup", ![t].phase = "running"]
    /\ data' = [data EXCEPT ![t] = "partial"]
    /\ sendExecutorTaskStatus(t, "running", rt[t].cancelled)
    /\ UNCHANGED <<posts, answers, adding, updater, zombies, pods, crashes, late>>

SetupSucceeds(t) ==
    /\ rt[t] # None /\ rt[t].step = "setup"
    /\ rt' = [rt EXCEPT ![t].step = "steps"]
    /\ pods' = pods \cup {t}
    /\ sendExecutorTaskStatus(t, "running", rt[t].cancelled)
    /\ UNCHANGED <<posts, answers, adding, updater, zombies, data, crashes, late>>

\* the pod may have been started all the same
SetupFails(t) ==
    /\ rt[t] # None /\ rt[t].step = "setup"
    /\ rt' = [rt EXCEPT ![t].step = "ended", ![t].phase = "failed", ![t].cancelled = TRUE]
    /\ pods' \in {pods, pods \cup {t}}
    /\ sendExecutorTaskStatus(t, "failed", rt[t].cancelled)
    /\ UNCHANGED <<posts, answers, adding, updater, zombies, data, crashes, late>>

\* a cancelled context makes the steps fail unless they were over; a step creates
\* the directories of its log and archive anew if they were removed meanwhile
StepsEnd(t, p) ==
    /\ rt[t] # None /\ rt[t].step = "steps"
    /\ p = "success" \/ p = (IF rt[t].stop THEN "stopped" ELSE "failed")
    /\ rt' = [rt EXCEPT ![t].step = "ended", ![t].phase = p, ![t].cancelled = TRUE]
    /\ data' = [data EXCEPT ![t] = IF @ = "partial" THEN "complete" ELSE "damaged"]
    /\ sendExecutorTaskStatus(t, p, rt[t].cancelled)
    /\ UNCHANGED <<posts, answers, adding, updater, zombies, pods, crashes, late>>

\* An execution without its entry was cancelled and reports nothing, but a setup
\* may still leave a pod, and one that hadn't begun still empties the directory
ZombieEnds(t) ==
    /\ zombies[t] > 0 /\ zombies' = [zombies EXCEPT ![t] = @ - 1]
    /\ pods' \in {pods, pods \cup {t}}
    /\ data' \in {data, [data EXCEPT ![t] = "damaged"]}
    /\ UNCHANGED <<service, posts, answers, rt, adding, updater, crashes, late>>

-----------------------------------------------------------------------------
(* The other loops                                                         *)

\* slip: the entry of an ended task is removed once its status was sent
SendStatus_removes(t) ==
    /\ rt[t] # None /\ rt[t].step # "setup"
    /\ Report(t, rt[t].phase)
    /\ rt' = IF rt[t].step = "ended" THEN [rt EXCEPT ![t] = None] ELSE rt
    /\ UNCHANGED <<posts, answers, adding, updater, zombies, pods, data, crashes, late>>
\* executorTasksStatusSenderLoop.  An entry isn't removed after it was sent:
\* that is left to the end of the executor itself
SendStatus(t) ==
    /\ rt[t] # None /\ rt[t].step # "setup"
    /\ sendExecutorTaskStatus(t, rt[t].phase, FALSE)
    /\ UNCHANGED <<posts, answers, rt, adding, updater, zombies, pods, data, crashes, late>>

podsCleaner(t) ==
    /\ t \in pods \ runningTasks
    /\ pods' = pods \ {t}
    /\ UNCHANGED <<service, posts, answers, rt, adding, updater, zombies, data, crashes, late>>

\* slip: the data of what isn't running is removed
tasksDataCleaner_notRunning(t) ==
    /\ data[t] # "none" /\ t \notin runningTasks
    /\ data' = [data EXCEPT ![t] = "none"]
    /\ UNCHANGED <<service, posts, answers, rt, adding, updater, zombies, pods, crashes, late>>
tasksDataCleaner(t) ==
    /\ data[t] # "none" /\ db[t] = None
    /\ data' = [data EXCEPT ![t] = "none"]
    /\ UNCHANGED <<service, posts, answers, rt, adding, updater, zombies, pods, crashes, late>>

\* msg makes taskUpdater start its task
Starts(msg) == msg.phase = "notstarted" /\ ~msg.stop

\* Only the pods, the data and the executor's id outlive the executor.  A post is
\* made by the runservice some time after its commit, and may be so after the
\* restart; an answer may have been sent before it
Crash ==
    /\ crashes < MaxCrashes /\ crashes' = crashes + 1
    /\ answers' \in SUBSET answers
    /\ late' = late \cup {msg.id : msg \in {x \in posts : Starts(x)}}
    /\ rt' = [t \in Ids |-> None] /\ adding' = [c \in Callers |-> None]
    /\ round' = "idle" /\ list' = {} /\ left' = {} /\ zombies' = [t \in Ids |-> 0]
    /\ UNCHANGED <<service, posts, pods, data>>

-----------------------------------------------------------------------------
Execute(t) == StartTask(t) \/ SetupSucceeds(t) \/ SetupFails(t)

Next ==
    \/ \E t \in Ids :
        \/ Submit(t) \/ Stop(t) \/ GiveUp(t) \/ Remove(t)
        \/ RemoveRunningTask(t) \/ Execute(t) \/ ZombieEnds(t)
        \/ SendStatus(t) \/ podsCleaner(t) \/ tasksDataCleaner(t)
        \/ \E p \in FinishedEtPhases : StepsEnd(t, p)
    \/ \E msg \in posts : LosePost(msg) \/ handleTasks(msg)
    \/ \E msg \in answers : Answer(msg)
    \/ \E msg \in list : UpdateTask(msg)
    \/ \E c \in Callers : addIfNotExists(c)
    \/ ListTasks \/ UpdateEnds \/ SweepEnds \/ Crash

Spec == Init /\ [][Next]_vars

(* The loops and goroutines never end, hence weak fairness; a call that is  *)
(* repeated for ever succeeds at last.  A post that arrives waits in the    *)
(* channel until handleTasks receives it, but any post may be lost before:  *)
(* the list makes up for that.                                              *)
Fairness ==
    /\ WF_vars(ListTasks) /\ WF_vars(UpdateEnds) /\ WF_vars(SweepEnds)
    /\ WF_vars(\E msg \in list : UpdateTask(msg))
    /\ \A c \in Callers : WF_vars(addIfNotExists(c))
    /\ \A t \in Ids :
        /\ WF_vars(RemoveRunningTask(t)) /\ WF_vars(Execute(t)) /\ WF_vars(ZombieEnds(t))
        /\ WF_vars(podsCleaner(t)) /\ WF_vars(tasksDataCleaner(t)) /\ WF_vars(Remove(t))
        /\ WF_vars(SendStatus(t) /\ Report(t, rt[t].phase))
        /\ SF_vars(\E msg \in posts : msg.id = t /\ handleTasks(msg))
        /\ SF_vars(\E msg \in answers : msg.id = t /\ Answer(msg) /\ Report(t, msg.phase))

StepsOf(t) == \E p \in FinishedEtPhases : StepsEnd(t, p)

\* nothing is assumed of the steps of a task: they may run for ever, until
\* their context is cancelled
LiveSpec == Spec /\ Fairness /\ \A t \in Ids : WF_vars(StepsOf(t) /\ rt[t].cancelled)

-----------------------------------------------------------------------------
(* Properties *)

\* Every variable has its type.
TypeOK ==
    /\ db \in [Ids -> Row \cup {None}] /\ submitted \subseteq Ids /\ ended \subseteq Ids
    /\ posts \subseteq Message /\ answers \subseteq Message
    /\ rt \in [Ids -> RunningTask \cup {None}] /\ adding \in [Callers -> Ids \cup {None}]
    /\ round \in {"idle", "update", "sweep"} /\ list \subseteq Message /\ left \subseteq Ids
    /\ zombies \in [Ids -> Nat] /\ pods \subseteq Ids /\ data \in [Ids -> Data]
    /\ crashes \in 0..MaxCrashes /\ late \subseteq Ids

\* A task whose completion is stored isn't executed again, although the list
\* and the posts that taskUpdater works on may date from before it started and
\* executions are swept by a list that is outdated.  Excepted: a task whose post
\* was under way when the executor restarted, which forgot that it ran it, and one
\* that was removed meanwhile, or given up.
NotExecutedAgain ==
    [][\A t \in Ids : rt[t] = None /\ rt'[t] # None =>
            \/ db[t] = None \/ db[t].phase \notin {"success", "stopped"}
            \/ t \in late]_vars

\* The logs and archives of a completed task are there, all of them, until the
\* runservice has fetched them, across restarts of the executor.  Excepted: what
\* an execution that tasksUpdater swept removes or adds when it unwinds beside, or
\* after, the one that completed, and a task that a late post starts again.
DataKept ==
    \A t \in Ids : db[t] # None /\ db[t].phase \in {"success", "stopped"} =>
        data[t] \in {"complete", "damaged"} \/ t \in late

\* Whatever messages are lost, and however often the executor restarts, every
\* executor task gets an end, is fetched and removed, unless its steps run for
\* ever.
EveryTaskEnds ==
    \A t \in Ids : db[t] # None ~>
        db[t] = None \/ (rt[t] # None /\ rt[t].step = "steps" /\ ~rt[t].cancelled)

\* The runservice posts without a timeout and waits for the answer, which comes
\* when handleTasks has received the post: however taskUpdater waits for the
\* locks of tasks that are set up, no post keeps the runservice waiting for ever.
PostsAnswered ==
    \A t \in Ids : (\E msg \in posts : msg.id = t) ~> (\A msg \in posts : msg.id # t)

\* A stop ends a task that wouldn't end by itself.
StopEnds == \A t \in Ids : (db[t] # None /\ db[t].stop) ~> db[t] = None

\* Nothing of a removed executor task is kept: no running task, not even one
\* started by a post that was late, no pod and no data.
Released ==
    \A t \in Ids : (t \in submitted /\ db[t] = None) ~>
                      [](rt[t] = None /\ zombies[t] = 0 /\ t \notin pods /\ data[t] = "none")

-----------------------------------------------------------------------------
(* Statements of the code's comments that the code doesn't meet.           *)

\* tasksUpdater: "stop and remove runningTasks not existing in the runservice".
OnlyGoneRemoved ==
    [][\A t \in Ids : rt[t] # None /\ rt'[t] = None /\ UNCHANGED crashes => db[t] = None]_vars
=============================================================================
