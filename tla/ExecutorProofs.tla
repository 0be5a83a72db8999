--------------------------- MODULE ExecutorProofs ---------------------------
(***************************************************************************)
(* Proofs about the executor: whatever messages are lost and however often *)
(* it restarts, the data of a completed task is kept, and the task isn't   *)
(* executed again.                                                         *)
(***************************************************************************)
EXTENDS Executor, TLAPS

Completed == {"success", "stopped"}

\* What refers to an executor task refers to one that was submitted.
KnownInv ==
    /\ \A t \in Ids : db[t] # None \/ rt[t] # None => t \in submitted
    /\ \A c \in Callers : adding[c] # None => adding[c] \in submitted
    /\ \A msg \in posts \cup list : msg.id \in submitted

\* There is data once an execution has begun, and nothing but its own end or what
\* was swept changes it; what is reported as complete has its data.  An execution
\* that isn't over isn't one of a completed task, unless a late post started it.
\* What is answered aside is never a completion.
DataInv ==
    /\ DataKept
    /\ \A t \in Ids : rt[t] # None =>
        /\ rt[t].phase \in Completed => rt[t].step = "ended"
        /\ db[t] # None /\ rt[t].phase \in Completed => data[t] \in {"complete", "damaged"}
        /\ rt[t].step # "ended" /\ db[t] # None => db[t].phase \notin Completed \/ t \in late
    /\ \A msg \in answers : msg.phase \notin Completed

Posted(t) == \E msg \in posts : msg.id = t /\ Starts(msg)
ToUpdate(t) == round = "update" /\ \E msg \in list : msg.id = t /\ msg.id \in left /\ Starts(msg)
Listed == {msg.id : msg \in list}

\* Something may still start t.
Pending(t) == Posted(t) \/ ToUpdate(t) \/ \E c \in Callers : adding[c] = t

\* What may still be started isn't complete, unless it is running.  A task that
\* isn't in the list although it exists was submitted after the list was made:
\* the one post that starts it is under way, or handleTasks is about to add it,
\* or it was added, and only one of these.
AgainInv ==
    /\ \A t \in Ids : Pending(t) /\ rt[t] = None /\ db[t] # None =>
        db[t].phase \notin Completed \/ t \in late
    /\ \A t \in Ids : round # "idle" /\ db[t] # None /\ t \notin Listed =>
        /\ adding["updater"] # t
        /\ Posted(t) => adding["handler"] # t /\ rt[t] = None
        /\ adding["handler"] = t => rt[t] = None
    /\ round = "sweep" => adding["updater"] = None /\ left \cap Listed = {}

-----------------------------------------------------------------------------
(* Types *)

LEMMA NoneApart == None \notin RunningTask /\ None \notin Row /\ None \notin Ids
BY NoneAssumption

\* A copy of a row is a message.
LEMMA CopyType ==
    ASSUME NEW t \in Ids, NEW r \in Row
    PROVE  /\ Copy(t, r) \in Message
           /\ Copy(t, r).id = t /\ Copy(t, r).phase = r.phase /\ Copy(t, r).stop = r.stop
BY DEF Copy, Row, Message

\* What taskUpdater does to an entry and to the answers is well typed.
LEMMA StopEntryType ==
    ASSUME NEW x \in RunningTask, NEW msg
    PROVE  StopEntry(x, msg) \in RunningTask /\ StopEntry(x, msg).phase = x.phase
           /\ StopEntry(x, msg).step = x.step
BY DEF StopEntry, RunningTask

LEMMA AnswersType ==
    ASSUME NEW msg \in Message
    PROVE  /\ AnswersTo(msg) \subseteq Message
           /\ \A a \in AnswersTo(msg) : a.id = msg.id /\ a.phase \in {"cancelled", "failed"}
<1>1. [msg EXCEPT !.phase = "cancelled"] \in Message /\ [msg EXCEPT !.phase = "failed"] \in Message
  BY DEF Message, EtPhases
<1>2. \A p : [msg EXCEPT !.phase = p].id = msg.id /\ [msg EXCEPT !.phase = p].phase = p
  BY DEF Message
<1>3. CASE msg.phase = "notstarted" /\ msg.stop
  BY <1>1, <1>2, <1>3 DEF AnswersTo
<1>4. CASE ~(msg.phase = "notstarted" /\ msg.stop) /\ msg.phase = "running"
  BY <1>1, <1>2, <1>4 DEF AnswersTo
<1>5. CASE ~(msg.phase = "notstarted" /\ msg.stop) /\ msg.phase # "running"
  BY <1>5 DEF AnswersTo
<1> QED BY <1>3, <1>4, <1>5

\* A status that is sent changes at most the phase of the row of its task.
LEMMA ReportType ==
    ASSUME TypeOK, NEW t \in Ids, NEW p \in EtPhases, NEW b, sendExecutorTaskStatus(t, p, b)
    PROVE  /\ db' \in [Ids -> Row \cup {None}] /\ ended' \subseteq Ids /\ submitted' = submitted
           /\ \A u \in Ids : db'[u] = None <=> db[u] = None
           /\ \A u \in Ids : u # t => db'[u] = db[u]
           /\ db[t] # None => db'[t].phase \in {db[t].phase, p} /\ db'[t].stop = db[t].stop
<1>1. CASE UNCHANGED service
  BY <1>1 DEF service, TypeOK
<1>2. CASE Report(t, p)
  <2>1. CASE db[t] = None
    BY <1>2, <2>1 DEF Report, TypeOK
  <2>2. CASE db[t] # None
    <3>1. db[t] \in Row /\ db' = [db EXCEPT ![t].phase = p]
      BY <1>2, <2>2 DEF Report, TypeOK
    <3>2. /\ [db[t] EXCEPT !.phase = p] \in Row
          /\ [db[t] EXCEPT !.phase = p].phase = p /\ [db[t] EXCEPT !.phase = p].stop = db[t].stop
      BY <3>1 DEF Row
    <3>3. db'[t] = [db[t] EXCEPT !.phase = p] /\ \A u \in Ids : u # t => db'[u] = db[u]
      BY <3>1 DEF TypeOK
    <3>4. db' \in [Ids -> Row \cup {None}]
      BY <3>1, <3>2 DEF TypeOK
    <3>5. submitted' = submitted /\ ended' \subseteq Ids
      BY <1>2 DEF Report, TypeOK
    <3> QED BY <3>2, <3>3, <3>4, <3>5, NoneApart, <2>2
  <2> QED BY <2>1, <2>2
<1> QED BY <1>1, <1>2 DEF sendExecutorTaskStatus

\* What taskUpdater does.
LEMMA taskUpdaterType ==
    ASSUME TypeOK, NEW c \in Callers, NEW msg \in Message, taskUpdater(c, msg)
    PROVE  /\ rt' \in [Ids -> RunningTask \cup {None}] /\ adding' \in [Callers -> Ids \cup {None}]
           /\ answers' \subseteq Message
           /\ \A t \in Ids : /\ rt'[t] = None <=> rt[t] = None
                             /\ rt[t] # None => rt'[t].phase = rt[t].phase /\ rt'[t].step = rt[t].step
           /\ adding[c] = None /\ \A d \in Callers : d # c => adding'[d] = adding[d]
           /\ adding'[c] # None => adding'[c] = msg.id /\ rt[msg.id] = None /\ Starts(msg)
           /\ \A a \in answers' : a \in answers \/ a.phase \in {"cancelled", "failed"}
<1> DEFINE t == msg.id
<1>0. t \in Ids
  BY DEF Message
<1>1. CASE rt[t] # None
  <2>1. rt[t] \in RunningTask /\ rt' = [rt EXCEPT ![t] = StopEntry(@, msg)]
        /\ UNCHANGED <<answers, adding>> /\ adding[c] = None
    BY <1>0, <1>1 DEF taskUpdater, TypeOK
  <2>2. rt'[t] = StopEntry(rt[t], msg) /\ \A u \in Ids : u # t => rt'[u] = rt[u]
    BY <1>0, <2>1 DEF TypeOK
  <2>3. rt' \in [Ids -> RunningTask \cup {None}]
    BY <1>0, <2>1, StopEntryType DEF TypeOK
  <2> QED BY <1>0, <2>1, <2>2, <2>3, StopEntryType, NoneApart DEF TypeOK
<1>2. CASE rt[t] = None
  <2>1. /\ answers' = answers \cup AnswersTo(msg) /\ rt' = rt /\ adding[c] = None
        /\ adding' = IF msg.phase = "notstarted" /\ ~msg.stop /\ HasRoom
                     THEN [adding EXCEPT ![c] = t] ELSE adding
    BY <1>2 DEF taskUpdater
  <2> QED BY <1>0, <1>2, <2>1, AnswersType DEF TypeOK, Starts
<1> QED BY <1>1, <1>2

LEMMA TypeInit == Init => TypeOK
BY LimitAssumption DEF Init, TypeOK, Callers, Data

\* What a step of executeTask does: its entry leaves "spawned", it reports a
\* completion at the end of the steps only, and then the data is there.
LEMMA ExecutionEffect ==
    ASSUME TypeOK, NEW t \in Ids, Execute(t) \/ StepsOf(t)
    PROVE  /\ rt' \in [Ids -> RunningTask \cup {None}]
           /\ rt[t] # None /\ rt'[t] # None /\ \A u \in Ids : u # t => rt'[u] = rt[u]
           /\ rt[t].step # "ended"
           /\ rt'[t].phase \in Completed => rt[t].step = "steps" \/ rt[t].phase \in Completed
           /\ rt[t].step = "steps" => rt'[t].step = "ended" /\ data'[t] \in {"complete", "damaged"}
           /\ \E p \in EtPhases, b \in BOOLEAN :
                /\ sendExecutorTaskStatus(t, p, b)
                /\ p \in Completed => rt[t].step = "steps"
           /\ data' \in [Ids -> Data] /\ \A u \in Ids : u # t => data'[u] = data[u]
           /\ pods' \subseteq Ids
           /\ UNCHANGED <<posts, answers, adding, updater, zombies, crashes, late>>
<1> USE DEF TypeOK
<1> DEFINE Entry(e) == [rt EXCEPT ![t] = e]
<1>0. \A e \in RunningTask :
        /\ Entry(e) \in [Ids -> RunningTask \cup {None}]
        /\ Entry(e)[t] = e /\ Entry(e)[t] # None /\ \A u \in Ids : u # t => Entry(e)[u] = rt[u]
  BY NoneApart
<1>a. \A d \in Data : /\ [data EXCEPT ![t] = d] \in [Ids -> Data]
                       /\ [data EXCEPT ![t] = d][t] = d
                       /\ \A u \in Ids : u # t => [data EXCEPT ![t] = d][u] = data[u]
  OBVIOUS
<1>1. CASE StartTask(t)
  <2>1. rt[t] \in RunningTask /\ rt[t] # None /\ rt[t].step = "spawned"
    BY <1>1 DEF StartTask
  <2> DEFINE e == [rt[t] EXCEPT !.step = "setup", !.phase = "running"]
  <2>2. e \in RunningTask /\ e.phase = "running"
    BY <2>1 DEF RunningTask, EtPhases
  <2>3. rt' = Entry(e) /\ data' = [data EXCEPT ![t] = "partial"]
    BY <1>1 DEF StartTask
  <2>4. "running" \in EtPhases /\ "running" \notin Completed /\ rt[t].cancelled \in BOOLEAN
        /\ "partial" \in Data
    BY <2>1 DEF EtPhases, Completed, RunningTask, Data
  <2>5. /\ sendExecutorTaskStatus(t, "running", rt[t].cancelled)
        /\ UNCHANGED <<posts, answers, adding, updater, zombies, pods, crashes, late>>
    BY <1>1 DEF StartTask
  <2> HIDE DEF e, Entry
  <2> QED BY <1>0, <1>a, <2>1, <2>2, <2>3, <2>4, <2>5
<1>2. CASE SetupSucceeds(t)
  <2>1. rt[t] \in RunningTask /\ rt[t] # None /\ rt[t].step = "setup"
    BY <1>2 DEF SetupSucceeds
  <2> DEFINE e == [rt[t] EXCEPT !.step = "steps"]
  <2>2. e \in RunningTask /\ e.phase = rt[t].phase
    BY <2>1 DEF RunningTask, EtPhases
  <2>3. rt' = Entry(e)
    BY <1>2 DEF SetupSucceeds
  <2>4. "running" \in EtPhases /\ "running" \notin Completed /\ rt[t].cancelled \in BOOLEAN
    BY <2>1 DEF EtPhases, Completed, RunningTask
  <2>5. /\ sendExecutorTaskStatus(t, "running", rt[t].cancelled) /\ pods' \subseteq Ids
        /\ UNCHANGED <<posts, answers, adding, updater, zombies, data, crashes, late>>
    BY <1>2 DEF SetupSucceeds
  <2> HIDE DEF e, Entry
  <2> QED BY <1>0, <2>1, <2>2, <2>3, <2>4, <2>5
<1>3. CASE SetupFails(t)
  <2>1. rt[t] \in RunningTask /\ rt[t] # None /\ rt[t].step = "setup"
    BY <1>3 DEF SetupFails
  <2> DEFINE e == [rt[t] EXCEPT !.step = "ended", !.phase = "failed", !.cancelled = TRUE]
  <2>2. e \in RunningTask /\ e.phase = "failed"
    BY <2>1 DEF RunningTask, EtPhases
  <2>3. rt' = Entry(e)
    BY <1>3 DEF SetupFails
  <2>4. "failed" \in EtPhases /\ "failed" \notin Completed /\ rt[t].cancelled \in BOOLEAN
    BY <2>1 DEF EtPhases, Completed, RunningTask
  <2>5. /\ pods' \subseteq Ids /\ sendExecutorTaskStatus(t, "failed", rt[t].cancelled)
        /\ UNCHANGED <<posts, answers, adding, updater, zombies, data, crashes, late>>
    BY <1>3 DEF SetupFails
  <2> HIDE DEF e, Entry
  <2> QED BY <1>0, <2>1, <2>2, <2>3, <2>4, <2>5
<1>4. ASSUME NEW p \in FinishedEtPhases, StepsEnd(t, p)
      PROVE  /\ rt' \in [Ids -> RunningTask \cup {None}]
             /\ rt[t] # None /\ rt'[t] # None /\ \A u \in Ids : u # t => rt'[u] = rt[u]
             /\ rt'[t].step = "ended" /\ rt[t].step = "steps"
             /\ p \in EtPhases /\ rt[t].cancelled \in BOOLEAN
             /\ sendExecutorTaskStatus(t, p, rt[t].cancelled)
             /\ data' \in [Ids -> Data] /\ \A u \in Ids : u # t => data'[u] = data[u]
             /\ data'[t] \in {"complete", "damaged"}
             /\ UNCHANGED <<posts, answers, adding, updater, zombies, pods, crashes, late>>
  <2>1. rt[t] \in RunningTask /\ rt[t] # None /\ rt[t].step = "steps"
    BY <1>4 DEF StepsEnd
  <2> DEFINE e == [rt[t] EXCEPT !.step = "ended", !.phase = p, !.cancelled = TRUE]
             d == IF data[t] = "partial" THEN "complete" ELSE "damaged"
  <2>2. e \in RunningTask /\ e.step = "ended" /\ p \in EtPhases
    BY <2>1 DEF RunningTask, EtPhases, FinishedEtPhases
  <2>3. rt' = Entry(e) /\ data' = [data EXCEPT ![t] = d]
    BY <1>4 DEF StepsEnd
  <2>4. rt[t].cancelled \in BOOLEAN /\ d \in Data /\ d \in {"complete", "damaged"}
    BY <2>1 DEF RunningTask, Data
  <2>5. /\ sendExecutorTaskStatus(t, p, rt[t].cancelled)
        /\ UNCHANGED <<posts, answers, adding, updater, zombies, pods, crashes, late>>
    BY <1>4 DEF StepsEnd
  <2> HIDE DEF e, d, Entry
  <2> QED BY <1>0, <1>a, <2>1, <2>2, <2>3, <2>4, <2>5
<1>5. CASE StepsOf(t)
  BY <1>4, <1>5 DEF StepsOf
<1>6. CASE Execute(t)
  BY <1>1, <1>2, <1>3, <1>6 DEF Execute
<1> QED BY <1>5, <1>6

LEMMA TypeNext == TypeOK /\ [Next]_vars => TypeOK'
<1> SUFFICES ASSUME TypeOK, [Next]_vars PROVE TypeOK'
  OBVIOUS
<1> USE DEF TypeOK, updater, service
<1>1. ASSUME NEW t \in Ids, Submit(t) PROVE TypeOK'
  <2>1. [phase |-> "notstarted", stop |-> FALSE] \in Row
    BY DEF Row, EtPhases
  <2> QED BY <1>1, <2>1, CopyType DEF Submit
<1>2. ASSUME NEW t \in Ids, Stop(t) PROVE TypeOK'
  <2> DEFINE r == [db[t] EXCEPT !.stop = TRUE]
  <2>1. r \in Row
    BY <1>2 DEF Stop, Row
  <2>2. /\ db' = [db EXCEPT ![t] = r] /\ posts' = posts \cup {Copy(t, db'[t])}
        /\ UNCHANGED <<submitted, ended, answers, rt, adding, updater, zombies, pods, data, crashes, late>>
    BY <1>2 DEF Stop
  <2> HIDE DEF r
  <2> QED BY <2>1, <2>2, CopyType
<1>3. ASSUME NEW t \in Ids, GiveUp(t) PROVE TypeOK'
  <2> DEFINE r == [db[t] EXCEPT !.phase = "failed"]
  <2>1. r \in Row
    BY <1>3 DEF GiveUp, Row, EtPhases
  <2>2. db' = [db EXCEPT ![t] = r]
    BY <1>3 DEF GiveUp
  <2> HIDE DEF r
  <2> QED BY <1>3, <2>1, <2>2 DEF GiveUp
<1>4. ASSUME NEW t \in Ids, Remove(t) PROVE TypeOK'
  BY <1>4 DEF Remove
<1>5. ASSUME NEW t \in Ids, RemoveRunningTask(t) PROVE TypeOK'
  <2>1. [zombies EXCEPT ![t] = @ + 1] \in [Ids -> Nat]
    OBVIOUS
  <2> QED BY <1>5, <2>1 DEF RemoveRunningTask
<1>6. ASSUME NEW t \in Ids, Execute(t) \/ StepsOf(t) PROVE TypeOK'
  BY <1>6, ExecutionEffect, ReportType
<1>7. ASSUME NEW t \in Ids, ZombieEnds(t) \/ podsCleaner(t) \/ tasksDataCleaner(t) PROVE TypeOK'
  <2>1. zombies[t] > 0 => [zombies EXCEPT ![t] = @ - 1] \in [Ids -> Nat]
    OBVIOUS
  <2>2. \A d \in {"damaged", "none"} : [data EXCEPT ![t] = d] \in [Ids -> Data]
    BY DEF Data
  <2>3. CASE ZombieEnds(t)
    BY <2>1, <2>2, <2>3 DEF ZombieEnds
  <2>4. CASE podsCleaner(t)
    BY <2>4 DEF podsCleaner
  <2>5. CASE tasksDataCleaner(t)
    BY <2>2, <2>5 DEF tasksDataCleaner
  <2> QED BY <1>7, <2>3, <2>4, <2>5
<1>8. ASSUME NEW t \in Ids, SendStatus(t) PROVE TypeOK'
  <2>1. rt[t].phase \in EtPhases
    BY <1>8 DEF SendStatus, RunningTask
  <2> QED BY <1>8, <2>1, ReportType DEF SendStatus
<1>9. ASSUME NEW msg \in posts, LosePost(msg) PROVE TypeOK'
  BY <1>9 DEF LosePost
<1>10. ASSUME NEW msg \in posts, handleTasks(msg) PROVE TypeOK'
  BY <1>10, taskUpdaterType DEF handleTasks, Callers
<1>11. ASSUME NEW msg \in answers, Answer(msg) PROVE TypeOK'
  <2>1. msg.id \in Ids /\ msg.phase \in EtPhases
    BY DEF Message
  <2> QED BY <1>11, <2>1, ReportType DEF Answer
<1>12. ASSUME NEW msg \in list, UpdateTask(msg) PROVE TypeOK'
  BY <1>12, taskUpdaterType DEF UpdateTask, Callers
<1>13. ASSUME NEW c \in Callers, addIfNotExists(c) PROVE TypeOK'
  <2>1. [phase |-> "notstarted", stop |-> FALSE, cancelled |-> FALSE, step |-> "spawned"] \in RunningTask
    BY DEF RunningTask, EtPhases
  <2> QED BY <1>13, <2>1 DEF addIfNotExists
<1>14. CASE ListTasks
  <2>1. \A t \in Existing : t \in Ids /\ Copy(t, db[t]) \in Message
    BY CopyType DEF Existing
  <2> QED BY <1>14, <2>1 DEF ListTasks
<1>15. CASE UpdateEnds \/ SweepEnds
  BY <1>15 DEF UpdateEnds, SweepEnds, runningTasks
<1>16. CASE Crash
  <2>1. {msg.id : msg \in {x \in posts : Starts(x)}} \subseteq Ids
    BY DEF Message
  <2> QED BY <1>16, <2>1, LimitAssumption DEF Crash
<1>17. CASE UNCHANGED vars
  BY <1>17 DEF vars
<1> QED BY <1>1, <1>2, <1>3, <1>4, <1>5, <1>6, <1>7, <1>8, <1>9, <1>10, <1>11, <1>12,
           <1>13, <1>14, <1>15, <1>16, <1>17 DEF Next, StepsOf

\* Every variable of the executor keeps its type.
THEOREM TypeCorrect == Spec => []TypeOK
<1>1. Init => TypeOK BY TypeInit
<1>2. TypeOK /\ [Next]_vars => TypeOK' BY TypeNext
<1> QED BY <1>1, <1>2, PTL DEF Spec

-----------------------------------------------------------------------------
(* What a step may change of one executor task *)

\* A row appears when its task is submitted, and its phase becomes a completion
\* when that is reported by an execution, by its entry or by an answer.
LEMMA RowSteps ==
    ASSUME TypeOK, [Next]_vars, NEW t \in Ids
    PROVE  /\ db[t] = None /\ db'[t] # None => Submit(t) /\ db'[t].phase = "notstarted"
           /\ db[t] # None /\ db'[t] # None /\ db'[t].phase \in Completed =>
                \/ db[t].phase \in Completed
                \/ rt[t] # None /\ (Execute(t) \/ StepsOf(t) \/ rt[t].phase \in Completed)
                \/ \E msg \in answers : msg.phase \in Completed
           /\ submitted \subseteq submitted'
<1> DEFINE Goal == /\ db[t] = None /\ db'[t] # None => Submit(t) /\ db'[t].phase = "notstarted"
                   /\ db[t] # None /\ db'[t] # None /\ db'[t].phase \in Completed =>
                        \/ db[t].phase \in Completed
                        \/ rt[t] # None /\ (Execute(t) \/ StepsOf(t) \/ rt[t].phase \in Completed)
                        \/ \E msg \in answers : msg.phase \in Completed
                   /\ submitted \subseteq submitted'
<1>1. ASSUME NEW u \in Ids, Submit(u) PROVE Goal
  BY <1>1 DEF Submit, TypeOK, Completed
<1>2. ASSUME NEW u \in Ids, Stop(u) PROVE Goal
  <2>1. db[u] \in Row /\ db[u] # None /\ submitted' = submitted
    BY <1>2 DEF Stop, TypeOK
  <2>2. db'[u] = [db[u] EXCEPT !.stop = TRUE] /\ \A v \in Ids : v # u => db'[v] = db[v]
    BY <1>2 DEF Stop, TypeOK
  <2>3. db'[u].phase = db[u].phase
    BY <2>1, <2>2 DEF Row
  <2> QED BY <2>1, <2>2, <2>3
<1>3. ASSUME NEW u \in Ids, GiveUp(u) PROVE Goal
  <2>1. db[u] \in Row /\ db[u] # None /\ submitted' = submitted
    BY <1>3 DEF GiveUp, TypeOK
  <2>2. db'[u] = [db[u] EXCEPT !.phase = "failed"] /\ \A v \in Ids : v # u => db'[v] = db[v]
    BY <1>3 DEF GiveUp, TypeOK
  <2>3. db'[u].phase = "failed"
    BY <2>1, <2>2 DEF Row
  <2> QED BY <2>1, <2>2, <2>3 DEF Completed
<1>4. ASSUME NEW u \in Ids, Remove(u) PROVE Goal
  BY <1>4 DEF Remove, TypeOK
<1>5. ASSUME NEW u \in Ids, Execute(u) \/ StepsOf(u) PROVE Goal
  <2>1. PICK p \in EtPhases, b \in BOOLEAN : sendExecutorTaskStatus(u, p, b)
    BY <1>5, ExecutionEffect
  <2>2. rt[u] # None
    BY <1>5, ExecutionEffect
  <2> QED BY <1>5, <2>1, <2>2, ReportType
<1>6. ASSUME NEW u \in Ids, SendStatus(u) PROVE Goal
  <2>1. rt[u] # None /\ sendExecutorTaskStatus(u, rt[u].phase, FALSE)
    BY <1>6 DEF SendStatus
  <2>2. rt[u].phase \in EtPhases
    BY <2>1 DEF RunningTask, TypeOK
  <2> QED BY <2>1, <2>2, ReportType
<1>7. ASSUME NEW msg \in answers, Answer(msg) PROVE Goal
  <2>1. msg.id \in Ids /\ msg.phase \in EtPhases /\ sendExecutorTaskStatus(msg.id, msg.phase, FALSE)
    BY <1>7 DEF Answer, Message, TypeOK
  <2> QED BY <2>1, ReportType
<1>8. ASSUME UNCHANGED service PROVE Goal
  BY <1>8 DEF service
<1>9. ASSUME NEW u \in Ids, RemoveRunningTask(u) \/ ZombieEnds(u) \/ podsCleaner(u) \/ tasksDataCleaner(u)
      PROVE  Goal
  BY <1>8, <1>9 DEF RemoveRunningTask, ZombieEnds, podsCleaner, tasksDataCleaner
<1>10. ASSUME NEW msg, LosePost(msg) \/ handleTasks(msg) \/ UpdateTask(msg) PROVE Goal
  BY <1>8, <1>10 DEF LosePost, handleTasks, UpdateTask
<1>11. ASSUME NEW c, addIfNotExists(c) PROVE Goal
  BY <1>8, <1>11 DEF addIfNotExists
<1>12. ASSUME ListTasks \/ UpdateEnds \/ SweepEnds \/ Crash \/ UNCHANGED vars PROVE Goal
  BY <1>8, <1>12 DEF ListTasks, UpdateEnds, SweepEnds, Crash, vars
<1> HIDE DEF Goal
<1>13. Goal
  BY <1>1, <1>2, <1>3, <1>4, <1>5, <1>6, <1>7, <1>8, <1>9, <1>10, <1>11, <1>12 DEF Next, StepsOf
<1> QED BY <1>13 DEF Goal

\* An entry appears when a caller adds it, changes when its execution does
\* something, and goes with the sweep or the process.
LEMMA EntrySteps ==
    ASSUME TypeOK, [Next]_vars, NEW t \in Ids
    PROVE  /\ rt[t] = None /\ rt'[t] # None =>
                /\ \E c \in Callers : addIfNotExists(c) /\ adding[c] = t
                /\ rt'[t].step = "spawned" /\ rt'[t].phase = "notstarted"
           /\ rt[t] # None /\ rt'[t] # None =>
                \/ rt'[t].phase = rt[t].phase /\ rt'[t].step = rt[t].step
                \/ Execute(t) \/ StepsOf(t)
           /\ rt[t] # None /\ rt'[t] = None => RemoveRunningTask(t) \/ Crash
<1> DEFINE Goal == /\ rt[t] = None /\ rt'[t] # None =>
                        /\ \E c \in Callers : addIfNotExists(c) /\ adding[c] = t
                        /\ rt'[t].step = "spawned" /\ rt'[t].phase = "notstarted"
                   /\ rt[t] # None /\ rt'[t] # None =>
                        \/ rt'[t].phase = rt[t].phase /\ rt'[t].step = rt[t].step
                        \/ Execute(t) \/ StepsOf(t)
                   /\ rt[t] # None /\ rt'[t] = None => RemoveRunningTask(t) \/ Crash
<1>1. ASSUME NEW u \in Ids, Execute(u) \/ StepsOf(u) PROVE Goal
  BY <1>1, ExecutionEffect
<1>2. ASSUME NEW u \in Ids, RemoveRunningTask(u) PROVE Goal
  <2>1. \A v \in Ids : v # u => rt'[v] = rt[v]
    BY <1>2 DEF RemoveRunningTask, TypeOK
  <2>2. rt'[u] = None
    BY <1>2 DEF RemoveRunningTask, TypeOK
  <2> QED BY <1>2, <2>1, <2>2
<1>3. ASSUME NEW c \in Callers, addIfNotExists(c) PROVE Goal
  <2>1. adding[c] \in Ids
    BY <1>3 DEF addIfNotExists, TypeOK
  <2>2. CASE rt[adding[c]] # None
    BY <1>3, <2>2 DEF addIfNotExists
  <2>3. CASE rt[adding[c]] = None
    <3>1. rt' = [rt EXCEPT ![adding[c]] = [phase |-> "notstarted", stop |-> FALSE,
                                           cancelled |-> FALSE, step |-> "spawned"]]
      BY <1>3, <2>3 DEF addIfNotExists
    <3> QED BY <1>3, <2>1, <2>3, <3>1 DEF TypeOK
  <2> QED BY <2>2, <2>3
<1>4. ASSUME NEW msg \in posts, handleTasks(msg) PROVE Goal
  BY <1>4, taskUpdaterType DEF handleTasks, Callers, TypeOK
<1>5. ASSUME NEW msg \in list, UpdateTask(msg) PROVE Goal
  BY <1>5, taskUpdaterType DEF UpdateTask, Callers, TypeOK
<1>6. ASSUME Crash PROVE Goal
  BY <1>6 DEF Crash
<1>7. ASSUME UNCHANGED rt PROVE Goal
  BY <1>7
<1>8. ASSUME NEW u \in Ids, \/ Submit(u) \/ Stop(u) \/ GiveUp(u) \/ Remove(u) \/ SendStatus(u)
                           \/ ZombieEnds(u) \/ podsCleaner(u) \/ tasksDataCleaner(u)
      PROVE  Goal
  BY <1>7, <1>8 DEF Submit, Stop, GiveUp, Remove, SendStatus, ZombieEnds, podsCleaner, tasksDataCleaner
<1>9. ASSUME NEW msg, LosePost(msg) \/ Answer(msg) PROVE Goal
  BY <1>7, <1>9 DEF LosePost, Answer
<1>10. ASSUME ListTasks \/ UpdateEnds \/ SweepEnds \/ UNCHANGED vars PROVE Goal
  BY <1>7, <1>10 DEF ListTasks, UpdateEnds, SweepEnds, vars
<1> HIDE DEF Goal
<1>11. Goal
  BY <1>1, <1>2, <1>3, <1>4, <1>5, <1>6, <1>7, <1>8, <1>9, <1>10 DEF Next, StepsOf
<1> QED BY <1>11 DEF Goal

\* There is at most one post that starts a given task.
LEMMA OnePost ==
    ASSUME NEW m \in Message, NEW n \in Message, m.id = n.id, Starts(m), Starts(n)
    PROVE  m = n
BY DEF Message, Starts

\* What could start a task before a step, and what can after it: a post that
\* starts it is made when it is submitted, the list has it when its row says that
\* it isn't started, and a caller is about to add it once its message is handled.
PostStep(t) == Posted(t)' => Posted(t) \/ Submit(t)
ListStep(t) == ToUpdate(t)' => \/ ToUpdate(t)
                               \/ db[t] # None /\ db[t].phase = "notstarted" /\ UNCHANGED service
CallerStep(t) ==
    /\ adding'["handler"] = t =>
        \/ adding["handler"] = t
        \/ Posted(t) /\ ~Posted(t)' /\ rt[t] = None /\ UNCHANGED <<service, rt>>
    /\ adding'["updater"] = t =>
        \/ adding["updater"] = t
        \/ ToUpdate(t) /\ rt[t] = None /\ UNCHANGED <<service, rt>>

LEMMA PendingSteps ==
    ASSUME TypeOK, [Next]_vars, NEW t \in Ids
    PROVE  PostStep(t) /\ ListStep(t) /\ CallerStep(t)
<1> DEFINE Goal == PostStep(t) /\ ListStep(t) /\ CallerStep(t)
<1> USE DEF TypeOK
<1>0. "handler" \in Callers /\ "updater" \in Callers /\ t # None
  BY NoneApart DEF Callers
<1>1. ASSUME posts' \subseteq posts, UNCHANGED <<adding, round, list, left>> PROVE Goal
  BY <1>1 DEF PostStep, ListStep, CallerStep, Posted, ToUpdate
<1>2. ASSUME NEW u \in Ids, Submit(u) PROVE Goal
  <2>1. db'[u] \in Row /\ posts' = posts \cup {Copy(u, db'[u])} /\ UNCHANGED <<adding, updater>>
    BY <1>2 DEF Submit, Row, EtPhases
  <2>2. PostStep(t)
    BY <1>2, <2>1, CopyType DEF PostStep, Posted
  <2> QED BY <2>1, <2>2 DEF ListStep, CallerStep, ToUpdate, updater
<1>3. ASSUME NEW u \in Ids, Stop(u) PROVE Goal
  <2>1. posts' = posts \cup {Copy(u, db'[u])} /\ UNCHANGED <<adding, updater>>
    BY <1>3 DEF Stop
  <2>2. db'[u] = [db[u] EXCEPT !.stop = TRUE] /\ db[u] \in Row
    BY <1>3 DEF Stop
  <2>3. Copy(u, db'[u]).stop
    BY <2>2 DEF Copy, Row
  <2>4. PostStep(t)
    BY <2>1, <2>3 DEF PostStep, Posted, Starts
  <2> QED BY <2>1, <2>4 DEF ListStep, CallerStep, ToUpdate, updater
<1>4. ASSUME NEW u \in Ids, \/ GiveUp(u) \/ Remove(u) \/ SendStatus(u) \/ ZombieEnds(u)
                           \/ podsCleaner(u) \/ tasksDataCleaner(u)
      PROVE  Goal
  BY <1>1, <1>4 DEF GiveUp, Remove, SendStatus, ZombieEnds, podsCleaner, tasksDataCleaner, updater
<1>5. ASSUME NEW u \in Ids, Execute(u) \/ StepsOf(u) PROVE Goal
  BY <1>1, <1>5, ExecutionEffect DEF updater
<1>6. ASSUME NEW msg, LosePost(msg) \/ Answer(msg) PROVE Goal
  BY <1>1, <1>6 DEF LosePost, Answer, updater
<1>7. ASSUME NEW msg \in posts, handleTasks(msg) PROVE Goal
  <2>1. msg \in Message /\ taskUpdater("handler", msg) /\ posts' = posts \ {msg}
        /\ UNCHANGED <<service, updater>>
    BY <1>7 DEF handleTasks
  <2>2. PostStep(t) /\ ListStep(t)
    BY <2>1 DEF PostStep, ListStep, Posted, ToUpdate, updater
  <2>3. adding'["updater"] = adding["updater"]
    BY <1>0, <2>1, taskUpdaterType
  <2>4. ASSUME adding'["handler"] = t, adding["handler"] # t
        PROVE  Posted(t) /\ ~Posted(t)' /\ rt[t] = None /\ UNCHANGED <<service, rt>>
    <3>1. t = msg.id /\ rt[msg.id] = None /\ Starts(msg)
      BY <1>0, <2>1, <2>4, taskUpdaterType
    <3>2. Posted(t)
      BY <3>1 DEF Posted
    <3>3. ~Posted(t)'
      BY <2>1, <3>1, OnePost DEF Posted
    <3>4. UNCHANGED rt
      BY <2>1, <3>1 DEF taskUpdater
    <3> QED BY <2>1, <3>1, <3>2, <3>3, <3>4
  <2> QED BY <2>2, <2>3, <2>4 DEF CallerStep
<1>8. ASSUME NEW msg \in list, UpdateTask(msg) PROVE Goal
  <2>1. /\ msg \in Message /\ taskUpdater("updater", msg) /\ left' = left \ {msg.id}
        /\ round = "update" /\ msg.id \in left
        /\ UNCHANGED <<service, posts, round, list>>
    BY <1>8 DEF UpdateTask
  <2>2. PostStep(t) /\ ListStep(t)
    BY <2>1 DEF PostStep, ListStep, Posted, ToUpdate
  <2>3. adding'["handler"] = adding["handler"]
    BY <1>0, <2>1, taskUpdaterType
  <2>4. ASSUME adding'["updater"] = t, adding["updater"] # t
        PROVE  ToUpdate(t) /\ rt[t] = None /\ UNCHANGED <<service, rt>>
    <3>1. t = msg.id /\ rt[msg.id] = None /\ Starts(msg)
      BY <1>0, <2>1, <2>4, taskUpdaterType
    <3>2. ToUpdate(t)
      BY <2>1, <3>1 DEF ToUpdate
    <3>3. UNCHANGED rt
      BY <2>1, <3>1 DEF taskUpdater
    <3> QED BY <2>1, <3>1, <3>2, <3>3
  <2> QED BY <2>2, <2>3, <2>4 DEF CallerStep
<1>9. ASSUME NEW c \in Callers, addIfNotExists(c) PROVE Goal
  <2>1. posts' = posts /\ UNCHANGED updater /\ adding' = [adding EXCEPT ![c] = None]
    BY <1>9 DEF addIfNotExists
  <2> QED BY <1>0, <2>1 DEF PostStep, ListStep, CallerStep, Posted, ToUpdate, updater
<1>10. ASSUME ListTasks PROVE Goal
  <2>1. PostStep(t) /\ CallerStep(t)
    BY <1>10 DEF ListTasks, PostStep, CallerStep, Posted
  <2>2. ASSUME ToUpdate(t)' PROVE db[t] # None /\ db[t].phase = "notstarted"
    <3>1. PICK msg \in list' : msg.id = t /\ Starts(msg)
      BY <2>2 DEF ToUpdate, Starts
    <3>2. PICK u \in Existing : msg = Copy(u, db[u])
      BY <1>10 DEF ListTasks
    <3>3. u \in Ids /\ db[u] # None /\ db[u] \in Row
      BY DEF Existing
    <3> QED BY <3>1, <3>2, <3>3, CopyType DEF Starts
  <2>3. UNCHANGED service
    BY <1>10 DEF ListTasks
  <2> QED BY <2>1, <2>2, <2>3 DEF ListStep
<1>11. ASSUME NEW u \in Ids, RemoveRunningTask(u) PROVE Goal
  BY <1>11 DEF RemoveRunningTask, PostStep, ListStep, CallerStep, Posted, ToUpdate
<1>12. ASSUME UpdateEnds \/ SweepEnds PROVE Goal
  BY <1>12 DEF UpdateEnds, SweepEnds, PostStep, ListStep, CallerStep, Posted, ToUpdate
<1>13. ASSUME Crash PROVE Goal
  BY <1>0, <1>13 DEF Crash, PostStep, ListStep, CallerStep, Posted, ToUpdate
<1>14. ASSUME UNCHANGED vars PROVE Goal
  BY <1>1, <1>14 DEF vars, updater
<1> HIDE DEF Goal
<1>15. Goal
  BY <1>2, <1>3, <1>4, <1>5, <1>6, <1>7, <1>8, <1>9, <1>10, <1>11, <1>12, <1>13, <1>14
     DEF Next, StepsOf
<1> QED BY <1>15 DEF Goal

-----------------------------------------------------------------------------
(* The data of a completed task *)

\* The answers never say that a task is complete.
LEMMA AnswersNext ==
    ASSUME TypeOK, DataInv, [Next]_vars, NEW a \in answers'
    PROVE  a.phase \notin Completed
<1> USE DEF Completed
<1>1. ASSUME NEW msg \in posts, handleTasks(msg) PROVE a \in answers \/ a.phase \notin Completed
  BY <1>1, taskUpdaterType DEF handleTasks, TypeOK, Callers
<1>2. ASSUME NEW msg \in list, UpdateTask(msg) PROVE a \in answers \/ a.phase \notin Completed
  BY <1>2, taskUpdaterType DEF UpdateTask, TypeOK, Callers
<1>3. ASSUME NEW u \in Ids, \/ Submit(u) \/ Stop(u) \/ GiveUp(u) \/ Remove(u) \/ SendStatus(u)
                           \/ RemoveRunningTask(u) \/ ZombieEnds(u) \/ podsCleaner(u) \/ tasksDataCleaner(u)
      PROVE  a \in answers
  BY <1>3 DEF Submit, Stop, GiveUp, Remove, SendStatus, RemoveRunningTask, ZombieEnds, podsCleaner,
              tasksDataCleaner
<1>4. ASSUME NEW u \in Ids, Execute(u) \/ StepsOf(u) PROVE a \in answers
  BY <1>4, ExecutionEffect
<1>5. ASSUME NEW msg, LosePost(msg) \/ Answer(msg) PROVE a \in answers
  BY <1>5 DEF LosePost, Answer
<1>6. ASSUME NEW c, addIfNotExists(c) PROVE a \in answers
  BY <1>6 DEF addIfNotExists
<1>7. ASSUME ListTasks \/ UpdateEnds \/ SweepEnds \/ Crash \/ UNCHANGED vars PROVE a \in answers
  BY <1>7 DEF ListTasks, UpdateEnds, SweepEnds, Crash, vars
<1>8. a \in answers \/ a.phase \notin Completed
  BY <1>1, <1>2, <1>3, <1>4, <1>5, <1>6, <1>7 DEF Next, StepsOf
<1> QED BY <1>8 DEF DataInv

\* The data of a task changes when its execution begins or ends, when a swept one
\* ends, and when the runservice doesn't know the task any more.
LEMMA DataSteps ==
    ASSUME TypeOK, [Next]_vars, NEW t \in Ids
    PROVE  /\ \/ data'[t] = data[t] \/ data'[t] = "damaged"
              \/ Execute(t) \/ StepsOf(t)
              \/ db[t] = None /\ UNCHANGED <<service, rt>>
           /\ late \subseteq late'
<1> DEFINE Goal == /\ \/ data'[t] = data[t] \/ data'[t] = "damaged"
                      \/ Execute(t) \/ StepsOf(t)
                      \/ db[t] = None /\ UNCHANGED <<service, rt>>
                   /\ late \subseteq late'
<1>1. ASSUME NEW u \in Ids, tasksDataCleaner(u) PROVE Goal
  BY <1>1 DEF tasksDataCleaner, TypeOK
<1>2. ASSUME NEW u \in Ids, \/ Submit(u) \/ Stop(u) \/ GiveUp(u) \/ Remove(u) \/ SendStatus(u)
                           \/ RemoveRunningTask(u) \/ podsCleaner(u)
      PROVE  Goal
  BY <1>2 DEF Submit, Stop, GiveUp, Remove, SendStatus, RemoveRunningTask, podsCleaner
<1>3. ASSUME NEW u \in Ids, Execute(u) \/ StepsOf(u) PROVE Goal
  BY <1>3, ExecutionEffect
<1>4. ASSUME NEW msg, LosePost(msg) \/ Answer(msg) \/ handleTasks(msg) \/ UpdateTask(msg) PROVE Goal
  BY <1>4 DEF LosePost, Answer, handleTasks, UpdateTask
<1>5. ASSUME NEW c, addIfNotExists(c) PROVE Goal
  BY <1>5 DEF addIfNotExists
<1>6. ASSUME ListTasks \/ UpdateEnds \/ SweepEnds \/ Crash \/ UNCHANGED vars PROVE Goal
  BY <1>6 DEF ListTasks, UpdateEnds, SweepEnds, Crash, vars
<1>7. ASSUME NEW u \in Ids, ZombieEnds(u) PROVE Goal
  <2>1. late' = late /\ data' \in {data, [data EXCEPT ![u] = "damaged"]}
    BY <1>7 DEF ZombieEnds
  <2> QED BY <2>1 DEF TypeOK
<1> HIDE DEF Goal
<1>8. Goal
  BY <1>1, <1>2, <1>3, <1>4, <1>5, <1>6, <1>7 DEF Next, StepsOf
<1> QED BY <1>8 DEF Goal

\* What refers to a task refers to one that was submitted.
LEMMA KnownNext ==
    ASSUME TypeOK, KnownInv, [Next]_vars
    PROVE  KnownInv'
<1>1. ASSUME NEW t \in Ids, db'[t] # None \/ rt'[t] # None PROVE t \in submitted'
  <2>1. CASE db'[t] # None
    BY <2>1, RowSteps DEF KnownInv, Submit
  <2>2. CASE rt'[t] # None
    BY <2>2, RowSteps, EntrySteps, NoneApart DEF KnownInv
  <2> QED BY <1>1, <2>1, <2>2
<1>2. ASSUME NEW msg \in (posts \cup list)' PROVE msg.id \in submitted'
  <2>0. \A u : Copy(u, db'[u]).id = u
    BY DEF Copy
  <2>1. ASSUME msg \in posts \cup list PROVE msg.id \in submitted'
    <3>1. msg.id \in submitted /\ msg.id \in Ids
      BY <2>1 DEF KnownInv, TypeOK, Message
    <3> QED BY <3>1, RowSteps
  <2>2. CASE posts' \subseteq posts /\ list' \subseteq list
    BY <2>1, <2>2
  <2>3. ASSUME NEW u \in Ids, Submit(u) PROVE msg.id \in submitted'
    BY <2>0, <2>1, <2>3 DEF Submit, updater
  <2>4. ASSUME NEW u \in Ids, Stop(u) PROVE msg.id \in submitted'
    BY <2>0, <2>1, <2>4 DEF Stop, updater, KnownInv
  <2>5. CASE ListTasks
    <3>1. \A u \in Existing : u \in submitted /\ Copy(u, db[u]).id = u
      BY DEF Existing, KnownInv, Copy
    <3> QED BY <2>1, <2>5, <3>1 DEF ListTasks, service
  <2>6. ASSUME NEW u \in Ids, \/ GiveUp(u) \/ Remove(u) \/ SendStatus(u) \/ RemoveRunningTask(u)
                             \/ ZombieEnds(u) \/ podsCleaner(u) \/ tasksDataCleaner(u)
        PROVE  msg.id \in submitted'
    BY <2>2, <2>6 DEF GiveUp, Remove, SendStatus, RemoveRunningTask, ZombieEnds, podsCleaner,
                tasksDataCleaner, updater
  <2>7. ASSUME NEW u \in Ids, Execute(u) \/ StepsOf(u) PROVE msg.id \in submitted'
    BY <2>2, <2>7, ExecutionEffect DEF updater
  <2>8. ASSUME NEW m, LosePost(m) \/ Answer(m) \/ handleTasks(m) \/ UpdateTask(m)
        PROVE  msg.id \in submitted'
    BY <2>2, <2>8 DEF LosePost, Answer, handleTasks, UpdateTask, updater
  <2>9. ASSUME NEW c, addIfNotExists(c) PROVE msg.id \in submitted'
    BY <2>2, <2>9 DEF addIfNotExists, updater
  <2>10. CASE UpdateEnds \/ SweepEnds \/ Crash \/ UNCHANGED vars
    BY <2>2, <2>10 DEF UpdateEnds, SweepEnds, Crash, vars, updater
  <2> QED BY <2>3, <2>4, <2>5, <2>6, <2>7, <2>8, <2>9, <2>10 DEF Next, StepsOf
<1>3. ASSUME NEW c \in Callers, adding'[c] # None PROVE adding'[c] \in submitted'
  <2>1. TypeOK'
    BY TypeNext
  <2>2. adding'[c] \in Ids /\ (c = "handler" \/ c = "updater")
    BY <1>3, <2>1 DEF TypeOK, Callers
  <2> DEFINE t == adding'[c]
  <2>3. adding[c] = t \/ Posted(t) \/ ToUpdate(t)
    BY <2>2, PendingSteps DEF CallerStep
  <2>4. t \in submitted
    BY <1>3, <2>3 DEF KnownInv, Posted, ToUpdate
  <2> QED BY <2>4, RowSteps, <2>2
<1> QED BY <1>1, <1>2, <1>3 DEF KnownInv

LEMMA DataNext ==
    ASSUME TypeOK, KnownInv, DataInv, AgainInv, [Next]_vars
    PROVE  DataInv'
<1> DEFINE Kept(d) == d \in {"complete", "damaged"}
           Executes(t) == Execute(t) \/ StepsOf(t)
<1>0. late \subseteq late'
  <2>1. CASE Ids = {}
    BY <2>1 DEF TypeOK
  <2>2. CASE Ids # {}
    BY <2>2, DataSteps
  <2> QED BY <2>1, <2>2
<1>1. ASSUME NEW t \in Ids, db[t] # None, ~Executes(t), Kept(data[t]) PROVE Kept(data'[t])
  BY <1>1, DataSteps
<1>2. ASSUME NEW t \in Ids, db[t] # None, db'[t] # None, db'[t].phase \in Completed
      PROVE  \/ db[t].phase \in Completed
             \/ rt[t] # None /\ (Executes(t) \/ rt[t].phase \in Completed)
  BY <1>2, RowSteps DEF DataInv
<1>3. ASSUME NEW t \in Ids, Executes(t), db[t] # None, db'[t].phase \in Completed, rt[t].step # "steps"
      PROVE  t \in late
  <2>1. PICK p \in EtPhases, b \in BOOLEAN : sendExecutorTaskStatus(t, p, b) /\ p \notin Completed
    BY <1>3, ExecutionEffect
  <2>2. db[t].phase \in Completed
    BY <1>3, <2>1, ReportType
  <2>3. rt[t] # None /\ rt[t].step # "ended"
    BY <1>3, ExecutionEffect
  <2> QED BY <1>3, <2>2, <2>3 DEF DataInv
<1>4. DataKept'
  <2> SUFFICES ASSUME NEW t \in Ids, db'[t] # None, db'[t].phase \in Completed, t \notin late
               PROVE  Kept(data'[t])
    BY <1>0 DEF DataKept, Completed
  <2>1. db[t] # None
    BY RowSteps DEF Completed
  <2>2. CASE Executes(t)
    BY <1>3, <2>1, <2>2, ExecutionEffect
  <2>3. CASE ~Executes(t)
    BY <1>1, <1>2, <2>1, <2>3 DEF DataInv, DataKept, Completed
  <2> QED BY <2>2, <2>3
<1>5. ASSUME NEW t \in Ids, rt'[t] # None, rt'[t].phase \in Completed
      PROVE  rt'[t].step = "ended" /\ (db'[t] # None => Kept(data'[t]))
  <2>1. CASE Executes(t)
    BY <1>5, <2>1, ExecutionEffect DEF DataInv
  <2>2. CASE ~Executes(t)
    <3>1. rt[t] # None /\ rt'[t].phase = rt[t].phase /\ rt'[t].step = rt[t].step
      BY <1>5, <2>2, EntrySteps DEF Completed
    <3>2. db'[t] # None => db[t] # None
      BY <3>1, RowSteps DEF KnownInv, Submit
    <3> QED BY <1>1, <1>5, <2>2, <3>1, <3>2 DEF DataInv
  <2> QED BY <2>1, <2>2
<1>6. ASSUME NEW t \in Ids, rt'[t] # None, rt'[t].step # "ended", db'[t] # None,
             db'[t].phase \in Completed
      PROVE  t \in late'
  <2>1. CASE rt[t] = None
    <3>1. PICK c \in Callers : addIfNotExists(c) /\ adding[c] = t
      BY <1>6, <2>1, EntrySteps
    <3>2. db' = db /\ Pending(t)
      BY <3>1 DEF addIfNotExists, service, Pending
    <3> QED BY <1>0, <1>6, <2>1, <3>2 DEF AgainInv
  <2>2. CASE rt[t] # None
    <3>1. db[t] # None
      BY <1>6, <2>2, RowSteps DEF KnownInv, Submit
    <3>2. CASE Executes(t)
      BY <1>0, <1>3, <1>6, <3>1, <3>2, ExecutionEffect
    <3>3. CASE ~Executes(t)
      <4>1. rt'[t].step = rt[t].step
        BY <1>6, <2>2, <3>3, EntrySteps
      <4> QED BY <1>0, <1>2, <1>6, <2>2, <3>1, <3>3, <4>1 DEF DataInv
    <3> QED BY <3>2, <3>3
  <2> QED BY <2>1, <2>2
<1> QED BY <1>4, <1>5, <1>6, AnswersNext DEF DataInv

-----------------------------------------------------------------------------
(* Nothing is executed again *)

\* The list stays the same in a round, and a sweep follows the updates.
LEMMA RoundSteps ==
    ASSUME TypeOK, [Next]_vars
    PROVE  /\ round # "idle" /\ round' # "idle" => list' = list
           /\ round = "idle" /\ round' # "idle" => ListTasks
           /\ round' = "sweep" => (round = "sweep" /\ left' \subseteq left) \/ UpdateEnds
<1> DEFINE Goal == /\ round # "idle" /\ round' # "idle" => list' = list
                   /\ round = "idle" /\ round' # "idle" => ListTasks
                   /\ round' = "sweep" => (round = "sweep" /\ left' \subseteq left) \/ UpdateEnds
<1>1. ASSUME UNCHANGED <<round, list>>, left' \subseteq left PROVE Goal
  BY <1>1
<1>2. ASSUME NEW u \in Ids, \/ Submit(u) \/ Stop(u) \/ GiveUp(u) \/ Remove(u) \/ SendStatus(u)
                           \/ ZombieEnds(u) \/ podsCleaner(u) \/ tasksDataCleaner(u)
      PROVE  Goal
  BY <1>1, <1>2 DEF Submit, Stop, GiveUp, Remove, SendStatus, ZombieEnds, podsCleaner,
              tasksDataCleaner, updater
<1>3. ASSUME NEW u \in Ids, Execute(u) \/ StepsOf(u) PROVE Goal
  BY <1>1, <1>3, ExecutionEffect DEF updater
<1>4. ASSUME NEW msg, LosePost(msg) \/ Answer(msg) \/ handleTasks(msg) PROVE Goal
  BY <1>1, <1>4 DEF LosePost, Answer, handleTasks, updater
<1>5. ASSUME NEW msg, UpdateTask(msg) PROVE Goal
  BY <1>1, <1>5 DEF UpdateTask
<1>6. ASSUME NEW c, addIfNotExists(c) PROVE Goal
  BY <1>1, <1>6 DEF addIfNotExists, updater
<1>7. ASSUME NEW u \in Ids, RemoveRunningTask(u) PROVE Goal
  BY <1>1, <1>7 DEF RemoveRunningTask
<1>8. ASSUME ListTasks PROVE Goal
  BY <1>8 DEF ListTasks
<1>9. ASSUME UpdateEnds PROVE Goal
  BY <1>9 DEF UpdateEnds
<1>10. ASSUME SweepEnds \/ Crash PROVE Goal
  BY <1>10 DEF SweepEnds, Crash
<1>11. ASSUME UNCHANGED vars PROVE Goal
  BY <1>1, <1>11 DEF vars, updater
<1> HIDE DEF Goal
<1>12. Goal
  BY <1>2, <1>3, <1>4, <1>5, <1>6, <1>7, <1>8, <1>9, <1>10, <1>11 DEF Next, StepsOf
<1> QED BY <1>12 DEF Goal

LEMMA AgainNext ==
    ASSUME TypeOK, KnownInv, DataInv, AgainInv, [Next]_vars
    PROVE  AgainInv'
<1>0. "handler" \in Callers /\ "updater" \in Callers /\ None \notin Ids
      /\ \A c \in Callers : c = "handler" \/ c = "updater"
  BY NoneApart DEF Callers
<1>1. ASSUME NEW t \in Ids, Pending(t)', rt'[t] = None, db'[t] # None, db'[t].phase \in Completed,
             t \notin late'
      PROVE  FALSE
  <2>0. t \notin late
    BY <1>1, DataSteps
  <2>1. db[t] # None /\ ~Submit(t) /\ (db[t].phase \in Completed \/ rt[t] # None)
    <3>1. db[t] # None
      BY <1>1, RowSteps DEF Completed
    <3>2. ~Submit(t)
      BY <3>1 DEF Submit, KnownInv
    <3> QED BY <1>1, <3>1, <3>2, RowSteps DEF DataInv
  <2>2. CASE rt[t] = None
    <3>1. Pending(t)
      BY <1>0, <1>1, <2>1, <2>2, PendingSteps
         DEF Pending, PostStep, ListStep, CallerStep, Completed
    <3> QED BY <2>0, <2>1, <2>2, <3>1 DEF AgainInv
  <2>3. CASE Crash
    <3>1. Posted(t)
      BY <1>1, <1>0, <2>3 DEF Crash, Pending, Posted, ToUpdate
    <3>2. t \in late'
      BY <2>3, <3>1 DEF Crash, Posted
    <3> QED BY <1>1, <3>2
  <2>4. CASE RemoveRunningTask(t)
    <3>1. /\ round = "sweep" /\ t \in left /\ rt[t] # None
          /\ posts' = posts /\ adding' = adding /\ round' = round /\ db' = db
      BY <2>2, <2>4 DEF RemoveRunningTask, service
    <3>2. adding["updater"] = None /\ t \notin Listed
      BY <3>1 DEF AgainInv
    <3>3. ~Posted(t) /\ adding["handler"] # t
      BY <2>1, <3>1, <3>2 DEF AgainInv
    <3> QED BY <1>0, <1>1, <3>1, <3>2, <3>3 DEF Pending, Posted, ToUpdate
  <2> QED BY <1>1, <2>2, <2>3, <2>4, EntrySteps
<1>2. ASSUME NEW t \in Ids, round' # "idle", db'[t] # None, t \notin Listed'
      PROVE  /\ adding'["updater"] # t
             /\ Posted(t)' => adding'["handler"] # t /\ rt'[t] = None
             /\ adding'["handler"] = t => rt'[t] = None
  <2>1. round # "idle"
    <3> SUFFICES ASSUME ListTasks PROVE FALSE
      BY <1>2, RoundSteps
    <3>1. t \in Existing /\ Copy(t, db[t]).id = t
      BY <1>2 DEF ListTasks, Existing, service, Copy
    <3> QED BY <1>2, <3>1 DEF ListTasks, Listed
  <2>2. t \notin Listed /\ ~ToUpdate(t)
    BY <1>2, <2>1, RoundSteps DEF Listed, ToUpdate
  <2>3. CASE db[t] # None
    <3>1. ~Submit(t)
      BY <2>3 DEF Submit, KnownInv
    <3>2. /\ adding["updater"] # t
          /\ Posted(t) => adding["handler"] # t /\ rt[t] = None
          /\ adding["handler"] = t => rt[t] = None
      BY <2>1, <2>2, <2>3 DEF AgainInv
    <3>3. adding'["updater"] # t
      BY <2>2, <3>2, PendingSteps DEF CallerStep
    <3>4. ASSUME rt[t] = None, rt'[t] # None
          PROVE  adding["handler"] = t /\ adding'["handler"] # t
      <4>1. PICK c \in Callers : addIfNotExists(c) /\ adding[c] = t
        BY <3>4, EntrySteps
      <4>2. c = "handler"
        BY <1>0, <3>2, <4>1
      <4>3. adding'["handler"] = None
        BY <1>0, <4>1, <4>2 DEF addIfNotExists, TypeOK
      <4> QED BY <1>0, <4>1, <4>2, <4>3
    <3>5. Posted(t)' => Posted(t)
      BY <3>1, PendingSteps DEF PostStep
    <3>6. adding'["handler"] = t => adding["handler"] = t
                                    \/ (Posted(t) /\ ~Posted(t)' /\ rt[t] = None /\ rt' = rt)
      BY PendingSteps DEF CallerStep
    <3> QED BY <3>2, <3>3, <3>4, <3>5, <3>6
  <2>4. CASE db[t] = None
    <3>1. Submit(t)
      BY <1>2, <2>4, RowSteps
    <3>2. t \notin submitted /\ UNCHANGED <<rt, adding>>
      BY <3>1 DEF Submit
    <3> QED BY <1>0, <3>2 DEF KnownInv
  <2> QED BY <2>3, <2>4
<1>3. ASSUME round' = "sweep" PROVE adding'["updater"] = None /\ left' \cap Listed' = {}
  <2>1. CASE UpdateEnds
    BY <2>1 DEF UpdateEnds, Listed
  <2>2. CASE round = "sweep" /\ left' \subseteq left
    <3>1. list' = list
      BY <1>3, <2>2, RoundSteps
    <3>2. left' \cap Listed' = {}
      BY <2>2, <3>1 DEF AgainInv, Listed
    <3>3. adding'["updater"] \in Ids \cup {None}
      BY <1>0, TypeNext DEF TypeOK
    <3>4. ASSUME NEW t \in Ids PROVE adding'["updater"] # t
      BY <1>0, <2>2, PendingSteps DEF AgainInv, CallerStep, ToUpdate
    <3> QED BY <3>2, <3>3, <3>4
  <2> QED BY <1>3, <2>1, <2>2, RoundSteps
<1> QED BY <1>1, <1>2, <1>3 DEF AgainInv

\* What the executor keeps and may still start.
ExecutorInv == KnownInv /\ DataInv /\ AgainInv

LEMMA ExecutorInvariant == Spec => [](TypeOK /\ ExecutorInv)
<1>1. Init => ExecutorInv
  BY NoneApart DEF Init, ExecutorInv, KnownInv, DataInv, DataKept, AgainInv, Pending, Posted,
                   ToUpdate, Callers
<1>2. TypeOK /\ ExecutorInv /\ [Next]_vars => ExecutorInv'
  BY KnownNext, DataNext, AgainNext DEF ExecutorInv
<1> QED BY <1>1, <1>2, TypeCorrect, PTL DEF Spec

\* The logs and archives of a completed task are there until the runservice has
\* removed the executor task, across restarts of the executor, although each
\* execution begins by emptying the directory: unless a post that was under way at
\* a restart starts the task again, or an execution that was swept damages them.
THEOREM DataAlwaysKept == Spec => []DataKept
<1>1. ExecutorInv => DataKept
  BY DEF ExecutorInv, DataInv
<1> QED BY <1>1, ExecutorInvariant, PTL

\* A task whose completion is stored is not executed again, however late the post
\* or the list is that taskUpdater works on, whatever was swept and however often
\* the executor restarted, unless its post was under way at a restart.
THEOREM NeverExecutedAgain == Spec => NotExecutedAgain
<1>1. TypeOK /\ ExecutorInv /\ [Next]_vars =>
        [\A t \in Ids : rt[t] = None /\ rt'[t] # None =>
            \/ db[t] = None \/ db[t].phase \notin {"success", "stopped"}
            \/ t \in late]_vars
  <2> SUFFICES ASSUME TypeOK, ExecutorInv, [Next]_vars, NEW t \in Ids, rt[t] = None, rt'[t] # None,
                      db[t] # None, t \notin late
               PROVE  db[t].phase \notin {"success", "stopped"}
    OBVIOUS
  <2>1. Pending(t)
    BY EntrySteps DEF Pending
  <2> QED BY <2>1 DEF ExecutorInv, AgainInv, Completed
<1> QED BY <1>1, ExecutorInvariant, PTL DEF Spec, NotExecutedAgain
=============================================================================
