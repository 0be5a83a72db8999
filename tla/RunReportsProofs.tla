--------------------------- MODULE RunReportsProofs ---------------------------
(***************************************************************************)
(* Two proofs about Runs, on what the users are told of the runs.  The log *)
(* of a task that was executed can be read at any moment until it is       *)
(* deleted, unless the executor lost it, however the end of the task, the  *)
(* fetching of its logs and archives, restarts and deletions interleave.   *)
(* The status of a commit is that of the run of it that changed last, once *)
(* the notification service has handled the events, if the report of that  *)
(* change didn't fail.                                                     *)
(***************************************************************************)
EXTENDS RunNumbersProofs

-----------------------------------------------------------------------------
(* LOGS *)

(* The logs that are or were in the object store, or were lost before that. *)
Logs == objects \cup deleted \cup missing

(* A run that is about to be saved keeps tasks whose logs are stored. *)
LoggedRun(L, run) ==
    /\ run.phase \in {"queued", "setuperror"}
    /\ \A t \in DOMAIN run.tasks : /\ TaskLogsOK(L, "queued", t, run.tasks[t])
                                   /\ ~Awaited(run, t)
LoggedSessions(L, ss) ==
    \A c \in Clients : ss[c].on /\ ss[c].plan.call = "save" => LoggedRun(L, ss[c].plan.rb.run)

LogsInv ==
    /\ NumbersInv
    /\ LogsOK(Logs, db) /\ LoggedSessions(Logs, s)

-----------------------------------------------------------------------------
(* More logs are stored; a run takes the place of another. *)

LEMMA StoredMore ==
    ASSUME NEW L, NEW M, L \subseteq M, NEW t, NEW rt, Stored(L, t, rt)
    PROVE  Stored(M, t, rt)
BY DEF Stored

LEMMA LogsMore ==
    ASSUME NEW L, NEW M, L \subseteq M, NEW d, LogsOK(L, d)
    PROVE  LogsOK(M, d)
<1>1. \A phase, t, rt : TaskLogsOK(L, phase, t, rt) => TaskLogsOK(M, phase, t, rt)
  BY StoredMore DEF TaskLogsOK
<1>2. \A e, r : ExecutorLogsOK(L, e, r) => ExecutorLogsOK(M, e, r)
  BY StoredMore DEF ExecutorLogsOK
<1> QED BY <1>1, <1>2 DEF LogsOK

LEMMA LoggedMore ==
    ASSUME NEW L, NEW M, L \subseteq M, NEW run, LoggedRun(L, run)
    PROVE  LoggedRun(M, run)
<1>1. \A phase, t, rt : TaskLogsOK(L, phase, t, rt) => TaskLogsOK(M, phase, t, rt)
  BY StoredMore DEF TaskLogsOK
<1> QED BY <1>1 DEF LoggedRun

(* The task's logs and the executor tasks of a run that takes the place of r. *)
RunLogsOK(L, X, n) ==
    /\ \A t \in DOMAIN n.tasks : /\ TaskLogsOK(L, n.phase, t, n.tasks[t])
                                 /\ Awaited(n, t) => \E x \in X : x.run = n.id /\ x.id = t
    /\ \A x \in X : x.run = n.id => ExecutorLogsOK(L, x, n)

LEMMA ReplacedRun ==
    ASSUME NEW T, NEW d, DatabaseOK(T, d), NEW L, LogsOK(L, d), NEW M, L \subseteq M,
           NEW r \in d.run, NEW n, n.id = r.id,
           NEW e, e.run = {o \in d.run : o.id # n.id} \cup {n},
           \A x : x.run # r.id => (x \in e.executortask <=> x \in d.executortask),
           \A a, b \in e.executortask : a.id = b.id => a = b,
           RunLogsOK(M, e.executortask, n)
    PROVE  LogsOK(M, e)
<1>1. LogsOK(M, d)
  BY LogsMore
<1>2. ASSUME NEW o \in e.run, NEW t \in DOMAIN o.tasks
      PROVE  /\ TaskLogsOK(M, o.phase, t, o.tasks[t])
             /\ Awaited(o, t) => \E x \in e.executortask : x.run = o.id /\ x.id = t
  <2>1. CASE o = n
    BY <2>1 DEF RunLogsOK
  <2>2. CASE o \in d.run /\ o.id # r.id
    <3>1. /\ TaskLogsOK(M, o.phase, t, o.tasks[t])
          /\ Awaited(o, t) => \E x \in d.executortask : x.run = o.id /\ x.id = t
      BY <1>1, <2>2 DEF LogsOK
    <3> QED BY <2>2, <3>1
  <2> QED BY <2>1, <2>2
<1>3. ASSUME NEW x \in e.executortask PROVE \E o \in e.run : ExecutorLogsOK(M, x, o)
  <2>1. CASE x.run = r.id
    <3>1. ExecutorLogsOK(M, x, n) /\ n \in e.run
      BY <2>1 DEF RunLogsOK
    <3> QED BY <3>1
  <2>2. CASE x.run # r.id
    <3>1. PICK o \in d.run : ExecutorLogsOK(M, x, o)
      BY <1>1, <2>2 DEF LogsOK
    <3>2. o.id = x.run
      BY <3>1 DEF ExecutorLogsOK
    <3>3. o \in e.run
      BY <2>2, <3>2
    <3> QED BY <3>1, <3>3
  <2> QED BY <2>1, <2>2
<1> QED BY <1>2, <1>3 DEF LogsOK

(* The runs that differ in nothing that the logs depend on. *)
SameLogs(a, b) ==
    /\ b.id = a.id /\ DOMAIN b.tasks = DOMAIN a.tasks
    /\ b.phase = a.phase \/ a.phase = "queued"
    /\ \A t \in DOMAIN a.tasks : /\ b.tasks[t].status = a.tasks[t].status
                                 /\ b.tasks[t].setup = a.tasks[t].setup
                                 /\ b.tasks[t].step = a.tasks[t].step

(* A run's logs as they are in the database. *)
LEMMA LogsOfRun ==
    ASSUME NEW T, NEW d, DatabaseOK(T, d), NEW L, LogsOK(L, d), NEW r \in d.run
    PROVE  RunLogsOK(L, d.executortask, r)
<1>1. ASSUME NEW x \in d.executortask, x.run = r.id PROVE ExecutorLogsOK(L, x, r)
  <2>1. PICK o \in d.run : ExecutorLogsOK(L, x, o)
    BY DEF LogsOK
  <2>2. o.id = r.id
    BY <1>1, <2>1 DEF ExecutorLogsOK
  <2>3. o = r
    BY <2>2 DEF DatabaseOK
  <2> QED BY <2>1, <2>3
<1> QED BY <1>1 DEF RunLogsOK, LogsOK

LEMMA SameRunLogs ==
    ASSUME NEW L, NEW X, NEW r, RunLogsOK(L, X, r), NEW n, SameLogs(r, n)
    PROVE  RunLogsOK(L, X, n)
<1>1. ASSUME NEW t \in DOMAIN n.tasks
      PROVE  /\ TaskLogsOK(L, n.phase, t, n.tasks[t])
             /\ Awaited(n, t) => \E x \in X : x.run = n.id /\ x.id = t
  <2>1. /\ t \in DOMAIN r.tasks /\ n.tasks[t].status = r.tasks[t].status
        /\ n.tasks[t].setup = r.tasks[t].setup /\ n.tasks[t].step = r.tasks[t].step
        /\ n.phase = r.phase \/ r.phase = "queued"
    BY DEF SameLogs
  <2>2. TaskLogsOK(L, r.phase, t, r.tasks[t])
    BY <2>1 DEF RunLogsOK
  <2>3. TaskLogsOK(L, n.phase, t, n.tasks[t])
    BY <2>1, <2>2 DEF TaskLogsOK, Stored
  <2>4. Awaited(n, t) => Awaited(r, t)
    BY <2>1 DEF Awaited, RS!LogsFetchFinished
  <2> QED BY <2>1, <2>3, <2>4 DEF RunLogsOK, SameLogs
<1>2. ASSUME NEW x \in X, x.run = n.id PROVE ExecutorLogsOK(L, x, n)
  <2>1. ExecutorLogsOK(L, x, r)
    BY <1>2 DEF RunLogsOK, SameLogs
  <2> QED BY <1>2, <2>1 DEF ExecutorLogsOK, SameLogs, Stored
<1> QED BY <1>1, <1>2 DEF RunLogsOK

LEMMA SameLogsKept ==
    ASSUME NEW T, NEW d, DatabaseOK(T, d), NEW L, LogsOK(L, d), NEW r \in d.run,
           NEW n, SameLogs(r, n), NEW e, e.run = {o \in d.run : o.id # n.id} \cup {n},
           e.executortask = d.executortask
    PROVE  LogsOK(L, e)
<1>1. RunLogsOK(L, e.executortask, n) /\ n.id = r.id
  BY LogsOfRun, SameRunLogs DEF SameLogs
<1>2. \A a, b \in e.executortask : a.id = b.id => a = b
  BY DEF LogsOK
<1> QED BY <1>1, <1>2, ReplacedRun

-----------------------------------------------------------------------------
(* Changes of a run *)

(* e, if it isn't an error, has its logs *)
LogsGood(L, e) == RS!IsOK(e) => LogsOK(L, e)

(* A write to tables that the logs don't depend on. *)
LEMMA SameTables ==
    ASSUME NEW L, NEW d, LogsOK(L, d), NEW e, Same(d, e)
    PROVE  LogsOK(L, e)
BY DEF LogsOK, Same

LEMMA UpdatedRows ==
    ASSUME NEW d, Shape(d), NEW r \in d.run, NEW n, n.id = r.id
    PROVE  LET e == RS!UpdateRun(d, n)
           IN  /\ Shape(e) /\ e.run = {o \in d.run : o.id # n.id} \cup {n}
               /\ e.executortask = d.executortask /\ e.next = d.next
<1>1. RS!UpdateRun(d, n) = RS!write(d, "run", {n})
  BY ShapeOK DEF RS!UpdateRun, RS!update, RS!HasID
<1> QED BY <1>1, WriteShape DEF RS!Tables

LEMMA ChangeRunLogs ==
    ASSUME NEW T, NEW d, DatabaseOK(T, d), NEW L, LogsOK(L, d), NEW id, NEW token,
           NEW allowed \in BOOLEAN, NEW new,
           RS!GetRun(d, id) # {} /\ allowed => SameLogs(RS!The(RS!GetRun(d, id)), new)
    PROVE  LogsGood(L, RS!changeRun(d, id, token, allowed, new))
<1> DEFINE r == RS!The(RS!GetRun(d, id))
           d1 == RS!UpdateChangeGroups(d, token)
           d2 == RS!UpdateRun(d1, new)
           e == RS!changeRun(d, id, token, allowed, new)
<1> SUFFICES ASSUME RS!IsOK(e) PROVE LogsOK(L, e)
  BY DEF LogsGood
<1>1. RS!GetRun(d, id) # {} /\ allowed
  BY RefusedNotOK DEF RS!changeRun
<1>2. r \in d.run /\ SameLogs(r, new)
  BY <1>1, RunFound
<1>3. e \in {d2, RS!withEvent(d2, new)}
  BY <1>1 DEF RS!changeRun
<1>4. RS!IsOK(d1)
  <2> SUFFICES ASSUME ~RS!IsOK(d1) PROVE FALSE
    OBVIOUS
  <2>1. ~RS!IsOK(d2)
    BY RefusedNotOK DEF RS!UpdateRun, RS!update
  <2> QED BY <1>3, <2>1, EventRefused
<1>5. Shape(d) /\ d.next \in Nat
  BY DEF Shape, DatabaseOK
<1>6. Same(d, d1)
  BY <1>4, <1>5, ChangeGroupsSame
<1>7. Shape(d1) /\ d1.next \in Nat /\ d1.run = d.run /\ d1.executortask = d.executortask
  BY <1>6 DEF Same
<1> HIDE DEF r, d1
<1>8. /\ Shape(d2) /\ d2.run = {o \in d.run : o.id # new.id} \cup {new}
      /\ d2.executortask = d.executortask /\ d2.next \in Nat
  <2>1. new.id = r.id /\ r \in d1.run
    BY <1>2, <1>7 DEF SameLogs
  <2> QED BY <1>7, <2>1, UpdatedRows
<1> HIDE DEF d2, e
<1>9. LogsOK(L, d2)
  BY <1>2, <1>8, SameLogsKept
<1>10. e = d2 \/ Same(d2, e)
  BY <1>3, <1>8, EventSame
<1> QED BY <1>9, <1>10, SameTables

LEMMA ChangeRunPhaseLogs ==
    ASSUME NEW T, NEW d, DatabaseOK(T, d), NEW L, LogsOK(L, d), NEW id, NEW phase, NEW token
    PROVE  LogsGood(L, RS!ChangeRunPhase(d, id, phase, token))
<1> DEFINE r == RS!The(RS!GetRun(d, id))
           new == RS!ChangePhase(r, phase)
<1>1. ASSUME RS!GetRun(d, id) # {}, r.phase = "queued" PROVE SameLogs(r, new)
  <2>1. r \in d.run
    BY <1>1, RunFound
  <2> QED BY <1>1, <2>1 DEF DatabaseOK, RunOK, RS!ChangePhase, SameLogs
<1>2. (phase \in {"running", "cancelled"} /\ r.phase = "queued") \in BOOLEAN
  OBVIOUS
<1> QED BY <1>1, <1>2, ChangeRunLogs DEF RS!ChangeRunPhase

LEMMA StopRunLogs ==
    ASSUME NEW T, NEW d, DatabaseOK(T, d), NEW L, LogsOK(L, d), NEW id, NEW token
    PROVE  LogsGood(L, RS!StopRun(d, id, token))
<1> DEFINE r == RS!The(RS!GetRun(d, id))
           new == [r EXCEPT !.stop = TRUE,
                      !.tasks = [t \in DOMAIN @ |-> [@[t] EXCEPT !.wait = FALSE]]]
<1>1. ASSUME RS!GetRun(d, id) # {} PROVE SameLogs(r, new)
  <2>1. r \in d.run
    BY <1>1, RunFound
  <2>2. PICK rc \in d.runconfig : RunOK(T, r, rc)
    BY <2>1 DEF DatabaseOK
  <2> HIDE DEF r
  <2> QED BY <2>2 DEF RunOK, TaskOK, SameLogs
<1>2. (r.phase = "running") \in BOOLEAN
  OBVIOUS
<1> QED BY <1>1, <1>2, ChangeRunLogs DEF RS!StopRun

LEMMA SetAnnotationsLogs ==
    ASSUME NEW T, NEW d, DatabaseOK(T, d), NEW L, LogsOK(L, d), NEW id, NEW t, NEW approvers,
           NEW token
    PROVE  LogsGood(L, RS!RunTaskSetAnnotations(d, id, t, approvers, token))
<1> DEFINE r == RS!The(RS!GetRun(d, id))
           new == [r EXCEPT !.tasks[t].approvers = approvers]
<1>1. ASSUME RS!GetRun(d, id) # {} PROVE SameLogs(r, new)
  <2>1. r \in d.run
    BY <1>1, RunFound
  <2>2. PICK rc \in d.runconfig : RunOK(T, r, rc)
    BY <2>1 DEF DatabaseOK
  <2> HIDE DEF r
  <2> QED BY <2>2 DEF RunOK, TaskOK, SameLogs
<1>2. (t \in DOMAIN r.tasks) \in BOOLEAN
  OBVIOUS
<1> QED BY <1>1, <1>2, ChangeRunLogs DEF RS!RunTaskSetAnnotations

LEMMA ApproveRunTaskLogs ==
    ASSUME NEW T, NEW d, DatabaseOK(T, d), NEW L, LogsOK(L, d), NEW id, NEW t, NEW token
    PROVE  LogsGood(L, RS!ApproveRunTask(d, id, t, token))
<1> DEFINE r == RS!The(RS!GetRun(d, id))
           new == [r EXCEPT !.tasks[t].wait = FALSE, !.tasks[t].appr = TRUE]
<1>1. ASSUME RS!GetRun(d, id) # {} PROVE SameLogs(r, new)
  <2>1. r \in d.run
    BY <1>1, RunFound
  <2>2. PICK rc \in d.runconfig : RunOK(T, r, rc)
    BY <2>1 DEF DatabaseOK
  <2> HIDE DEF r
  <2> QED BY <2>2 DEF RunOK, TaskOK, SameLogs
<1>2. (t \in DOMAIN r.tasks /\ r.tasks[t].wait /\ ~r.tasks[t].appr) \in BOOLEAN
  OBVIOUS
<1> QED BY <1>1, <1>2, ChangeRunLogs DEF RS!ApproveRunTask

-----------------------------------------------------------------------------
(* New runs *)

LEMMA AddedRun ==
    ASSUME NEW L, NEW d, LogsOK(L, d), NEW run, LoggedRun(L, run), NEW e,
           e.run = d.run \cup {run}, e.executortask = d.executortask
    PROVE  LogsOK(L, e)
<1>1. \A t \in DOMAIN run.tasks : TaskLogsOK(L, run.phase, t, run.tasks[t]) /\ ~Awaited(run, t)
  BY DEF LoggedRun, TaskLogsOK
<1> QED BY <1>1 DEF LogsOK

LEMMA SaveRunLogs ==
    ASSUME NEW T, NEW d, DatabaseOK(T, d), NEW L, LogsOK(L, d), NEW rb, NEW token,
           RunOK(T, rb.run, rb.rc), LoggedRun(L, rb.run)
    PROVE  LogsGood(L, RS!saveRun(d, rb, token))
<1> DEFINE seq == RS!NextSequence(d, "run")
           counter == RS!NextRunCounter(d, RS!getRunCounterGroupID(rb.run.group))
           run == [rb.run EXCEPT !.id = d.next, !.rc = d.next, !.seq = seq.value,
                                 !.counter = counter.value]
           rc == [rb.rc EXCEPT !.id = d.next]
           d0 == RS!Fresh(d, 1)
           d1 == RS!UpdateChangeGroups(d0, token)
           d2 == RS!write(d1, "sequence", {seq})
           d3 == RS!write(d2, "runcounter", {counter})
           d4 == RS!write(d3, "run", {run})
           d5 == RS!write(d4, "runconfig", {rc})
           e == RS!saveRun(d, rb, token)
           i5 == RS!InsertRunConfig(RS!InsertRun(RS!InsertOrUpdateRunCounter(
                    RS!InsertOrUpdateSequence(d1, seq), counter), run), rc)
<1> SUFFICES ASSUME RS!IsOK(e) PROVE LogsOK(L, e)
  BY DEF LogsGood
<1>1. Shape(d) /\ d.next \in Nat /\ \A r \in d.run : r.id # d.next
  BY DEF Shape, DatabaseOK
<1>2. Same(d, d0)
  BY <1>1, FreshSame
<1>3. e \in {RS!Refused, RS!withEvent(i5, run)}
  BY DEF RS!saveRun
<1>4. e = RS!withEvent(i5, run) /\ RS!IsOK(i5)
  BY <1>3, RefusedNotOK, EventRefused
<1>5. RS!IsOK(d1)
  BY <1>4, RefusedNotOK DEF RS!InsertRunConfig, RS!InsertRun, RS!InsertOrUpdateRunCounter,
     RS!InsertOrUpdateSequence, RS!insert, RS!insertOrUpdate
<1>6. Same(d0, d1)
  BY <1>2, <1>5, ChangeGroupsSame DEF Same
<1>7. Same(d1, d2)
  BY <1>6, WriteSame DEF Same, RS!Tables
<1>8. Same(d2, d3)
  BY <1>7, WriteSame DEF Same, RS!Tables
<1>9. RS!IsOK(d2) /\ RS!IsOK(d3)
  BY <1>7, <1>8, ShapeOK DEF Same
<1>10. Shape(d3) /\ Shape(d4) /\ Shape(d5)
  BY <1>8, WriteShape DEF Same, RS!Tables
<1> HIDE DEF seq, counter, d0, d1
<1>11. i5 = d5
  <2>1. RS!InsertOrUpdateRunCounter(RS!InsertOrUpdateSequence(d1, seq), counter) = d3
    BY <1>5, <1>9 DEF RS!InsertOrUpdateRunCounter, RS!InsertOrUpdateSequence, RS!insertOrUpdate
  <2> HIDE DEF d2, d3, run, rc
  <2>2. RS!InsertRun(d3, run) \in {RS!Refused, d4}
    BY DEF RS!InsertRun, RS!insert
  <2>3. RS!InsertRunConfig(d4, rc) \in {RS!Refused, d5}
    BY DEF RS!InsertRunConfig, RS!insert
  <2>4. RS!InsertRunConfig(RS!Refused, rc) = RS!Refused
    BY RefusedNotOK DEF RS!InsertRunConfig, RS!insert
  <2> QED BY <1>4, <2>1, <2>2, <2>3, <2>4, RefusedNotOK
<1>12. run.id = d.next /\ run.tasks = rb.run.tasks /\ run.phase = rb.run.phase
  BY DEF RunOK
<1>13. d3.run = d.run /\ d3.executortask = d.executortask /\ d3.next \in Nat
  BY <1>2, <1>6, <1>7, <1>8 DEF Same
<1> HIDE DEF run, rc, d3
<1>14. /\ d4.run = {o \in d3.run : o.id # d.next} \cup {run}
       /\ d4.executortask = d3.executortask /\ d4.next = d3.next
  BY <1>10, <1>12, WriteShape DEF RS!Tables
<1> HIDE DEF d4
<1>15. d5.run = d4.run /\ d5.executortask = d4.executortask /\ d5.next = d4.next
  BY <1>10, WriteShape DEF RS!Tables
<1> HIDE DEF d5
<1>16. d5.run = d.run \cup {run} /\ d5.executortask = d.executortask /\ d5.next \in Nat
  BY <1>1, <1>13, <1>14, <1>15
<1>17. LoggedRun(L, run)
  BY <1>12 DEF LoggedRun, Awaited
<1>18. LogsOK(L, d5)
  BY <1>16, <1>17, AddedRun
<1>19. Same(d5, e)
  BY <1>4, <1>10, <1>11, <1>16, EventSame
<1> QED BY <1>18, <1>19, SameTables

LEMMA NewTaskLogs ==
    ASSUME NEW L, NEW t, NEW rct
    PROVE  LET rt == RS!genRunTask(rct)
           IN  /\ TaskLogsOK(L, "queued", t, rt) /\ rt.status \notin Executed
BY DEF TaskLogsOK, RS!genRunTask, Executed, Stored

LEMMA NewRunLogs ==
    ASSUME NEW L, NEW rq, RS!newRun(rq) # RS!Refused
    PROVE  LoggedRun(L, RS!newRun(rq).run)
<1> DEFINE rc == [id |-> 0, name |-> rq.name, group |-> rq.group, tasks |-> rq.tasks,
                  levels |-> RS!GenTasksLevels(rq.tasks),
                  errors |-> \/ rq.errors \/ ~RS!CheckRunConfigTasks(rq.tasks)
                             \/ ~RS!levelsOK(RS!GenTasksLevels(rq.tasks))]
           run == RS!genRun(rc, rq.sha)
<1>1. RS!newRun(rq).run = run
  BY DEF RS!newRun
<1> HIDE DEF rc
<1>2. /\ run.phase \in {"queued", "setuperror"}
      /\ run.tasks = IF rc.errors THEN RS!NoTasks
                     ELSE [t \in DOMAIN rc.tasks |-> RS!genRunTask(rc.tasks[t])]
  BY DEF RS!genRun
<1>3. DOMAIN RS!NoTasks = {}
  BY DEF RS!NoTasks
<1> HIDE DEF run
<1>4. \A t \in DOMAIN run.tasks : \E rct : run.tasks[t] = RS!genRunTask(rct)
  BY <1>2, <1>3
<1>5. \A t \in DOMAIN run.tasks : TaskLogsOK(L, "queued", t, run.tasks[t]) /\ ~Awaited(run, t)
  BY <1>4, NewTaskLogs DEF Awaited
<1> QED BY <1>1, <1>2, <1>5 DEF LoggedRun

LEMMA CreateRunLogs ==
    ASSUME NEW T, NEW d, DatabaseOK(T, d), NEW L, LogsOK(L, d), NEW rq, NEW token,
           IsFiniteSet(DOMAIN rq.tasks),
           \A t \in DOMAIN rq.tasks : /\ t \in Nat /\ t < d.next + Cardinality(DOMAIN rq.tasks)
                                      /\ "approval" \in DOMAIN rq.tasks[t]
    PROVE  LogsGood(L, RS!CreateRun(d, rq, token))
<1> DEFINE n == Cardinality(DOMAIN rq.tasks)
           e == RS!Fresh(d, n)
           rb == RS!newRun(rq)
<1> SUFFICES ASSUME RS!IsOK(RS!CreateRun(d, rq, token))
             PROVE  LogsOK(L, RS!CreateRun(d, rq, token))
  BY DEF LogsGood
<1>1. n \in Nat /\ Shape(d) /\ d.next \in Nat
  BY FS_CardinalityType DEF Shape, DatabaseOK
<1>2. RS!CreateRun(d, rq, token) = RS!saveRun(e, rb, token) /\ rb # RS!Refused
  BY SameCardinality, RefusedNotOK DEF RS!CreateRun
<1>3. Same(d, e) /\ e.next = d.next + n
  BY <1>1, FreshSame
<1>4. DatabaseOK(T, e) /\ LogsOK(L, e)
  BY <1>3, SameOK, SameTables
<1>5. e.next \in Nat /\ \A t \in DOMAIN rq.tasks : t < e.next
  BY <1>1, <1>3
<1> HIDE DEF e, n
<1>6. RunConfigOK(e.next, rb.rc) /\ RunOK(T, rb.run, rb.rc)
  BY <1>2, <1>5, NewRunOK
<1>7. LoggedRun(L, rb.run)
  BY <1>2, NewRunLogs
<1> HIDE DEF rb
<1>8. LogsGood(L, RS!saveRun(e, rb, token))
  BY <1>4, <1>6, <1>7, SaveRunLogs
<1> QED BY <1>2, <1>8 DEF LogsGood

LEMMA CreateHandlerLogs ==
    ASSUME NEW T, NEW d, DatabaseOK(T, d), NEW L, LogsOK(L, d), NEW rq, NEW i,
           i # 0 => IsFiniteSet(DOMAIN rq.config.runs[i].tasks)
    PROVE  LogsGood(L, RS!RunCreateHandler(d, genCreateRequest(rq, i, d.next)))
<1> DEFINE g == genCreateRequest(rq, i, d.next)
           run == rq.config.runs[i]
           n == Cardinality(DOMAIN run.tasks)
<1>1. d.next \in Nat
  BY DEF DatabaseOK
<1>2. CASE i = 0
  <2>1. DOMAIN g.tasks = {}
    BY <1>2, CreateRequest DEF RS!NoTasks
  <2>2. IsFiniteSet(DOMAIN g.tasks)
    BY <2>1, FS_EmptySet
  <2> HIDE DEF g
  <2>3. LogsGood(L, RS!CreateRun(d, g, g.token))
    BY <2>1, <2>2, CreateRunLogs
  <2> QED BY <2>3 DEF RS!RunCreateHandler, g
<1>3. CASE i # 0
  <2>1. n \in Nat
    BY <1>3, FS_CardinalityType
  <2>2. g.tasks = RS!GenRunConfigTasks(run, d.next, rq.refType, rq.name, rq.ref)
    BY <1>3 DEF genCreateRequest
  <2>3. DOMAIN g.tasks = d.next .. d.next + n - 1
    BY <2>2, SameCardinality DEF RS!GenRunConfigTasks
  <2>4. \A t \in DOMAIN g.tasks : "approval" \in DOMAIN g.tasks[t]
    BY <2>2, GeneratedTask
  <2>5. IsFiniteSet(DOMAIN g.tasks) /\ Cardinality(DOMAIN g.tasks) = n
    <3> HIDE DEF n, g
    <3>1. d.next \in Int /\ d.next + n - 1 \in Int
      BY <1>1, <2>1
    <3>2. IsFiniteSet(d.next .. d.next + n - 1)
      BY <3>1, FS_Interval
    <3>3. Cardinality(d.next .. d.next + n - 1) =
             IF d.next > d.next + n - 1 THEN 0 ELSE (d.next + n - 1) - d.next + 1
      BY <3>1, FS_Interval
    <3> QED BY <1>1, <2>1, <2>3, <3>2, <3>3
  <2>6. \A t \in DOMAIN g.tasks : t \in Nat /\ t < d.next + n
    BY <1>1, <2>1, <2>3
  <2> HIDE DEF g, n
  <2>7. LogsGood(L, RS!CreateRun(d, g, g.token))
    BY <2>4, <2>5, <2>6, CreateRunLogs
  <2> QED BY <2>7 DEF RS!RunCreateHandler, g
<1> QED BY <1>2, <1>3

(* A restarted run keeps tasks that succeeded, with logs that are stored. *)
LEMMA WithNewIDsLogs ==
    ASSUME NEW T, NEW n \in Nat, NEW run, NEW rc, RunOK(T, run, rc), RunConfigOK(n, rc),
           NEW new, new \subseteq DOMAIN rc.tasks, NEW L,
           \A t \in DOMAIN run.tasks \ new : /\ run.tasks[t].status = "success"
                                             /\ RS!LogsFetchFinished(run.tasks[t])
                                             /\ Stored(L, t, run.tasks[t])
    PROVE  LoggedRun(L, RS!withNewIDs(run, rc, new, n).run)
<1> DEFINE newID(t) == IF t \in new THEN n + RS!Cardinality({x \in new : x < t}) ELSE t
           oldID(m) == CHOOSE t \in DOMAIN rc.tasks : newID(t) = m
           ids == {newID(t) : t \in DOMAIN rc.tasks}
           tasks == [m \in ids |-> IF m \in DOMAIN run.tasks THEN run.tasks[m]
                                   ELSE RS!genRunTask(rc.tasks[oldID(m)])]
           rb == RS!withNewIDs(run, rc, new, n)
<1>1. rb.run = [run EXCEPT !.phase = "queued", !.result = "unknown", !.archived = FALSE,
                           !.stop = FALSE, !.tasks = tasks]
  BY DEF RS!withNewIDs
<1>2. rb.run.tasks = tasks /\ rb.run.phase = "queued"
  BY <1>1 DEF RunOK
<1>3. ASSUME NEW t \in new PROVE newID(t) \notin DOMAIN run.tasks
  <2> DEFINE before == {x \in new : x < t}
  <2>1. new \in SUBSET Nat /\ \A x \in new : x <= n
    BY DEF RunConfigOK
  <2>2. IsFiniteSet(new)
    BY <2>1, FS_BoundedSetOfNaturals
  <2>3. Cardinality(before) \in Nat
    BY <2>2, FS_Subset, FS_CardinalityType
  <2> HIDE DEF before
  <2>4. newID(t) = n + Cardinality(before)
    BY <1>3, SameCardinality DEF before
  <2>5. ~(newID(t) < n)
    BY <2>3, <2>4
  <2> QED BY <2>5 DEF RunOK, RunConfigOK
<1>4. \A m \in ids : m \in DOMAIN run.tasks => m \notin new
  <2> SUFFICES ASSUME NEW t \in DOMAIN rc.tasks, newID(t) \in DOMAIN run.tasks
               PROVE  newID(t) \notin new
    OBVIOUS
  <2> QED BY <1>3
<1> HIDE DEF newID, oldID, ids, rb
<1>5. ASSUME NEW m \in ids
      PROVE  TaskLogsOK(L, "queued", m, tasks[m]) /\ ~(/\ tasks[m].status \in Executed
                                                       /\ ~RS!LogsFetchFinished(tasks[m]))
  <2>1. CASE m \in DOMAIN run.tasks
    <3>1. /\ run.tasks[m].status = "success" /\ RS!LogsFetchFinished(run.tasks[m])
          /\ Stored(L, m, run.tasks[m])
      BY <1>4, <2>1
    <3> QED BY <2>1, <3>1 DEF TaskLogsOK
  <2>2. CASE m \notin DOMAIN run.tasks
    BY <2>2, NewTaskLogs
  <2> QED BY <2>1, <2>2
<1>6. DOMAIN tasks = ids
  OBVIOUS
<1> HIDE DEF tasks
<1>7. LoggedRun(L, rb.run)
  BY <1>2, <1>5, <1>6 DEF LoggedRun, Awaited
<1> QED BY <1>7 DEF rb

LEMMA RecreateRunLogs ==
    ASSUME NEW T, NEW d, DatabaseOK(T, d), NEW L, LogsOK(L, d), NEW id, NEW fromStart,
           NEW a \in RS!recreateRun(d, id, fromStart)
    PROVE  LoggedRun(L, a.rb.run)
<1> DEFINE new(r, c) == RS!recreatedTasks(r, c, fromStart)
<1>1. PICK r \in d.run, c \in d.runconfig :
        /\ c.id = r.rc /\ IF fromStart THEN RS!CanRestartFromScratch(r)
                          ELSE RS!CanRestartFromFailedTasks(r)
        /\ a = [rb |-> RS!withNewIDs(r, c, new(r, c), d.next),
                d |-> RS!Fresh(d, RS!Cardinality(new(r, c)))]
  BY DEF RS!recreateRun, RS!GetRun, RS!fetchRuns, RS!GetRunConfig, RS!fetchRunConfigs
<1>2. d.next \in Nat /\ RunConfigOK(d.next, c) /\ RunOK(T, r, c)
  BY <1>1 DEF DatabaseOK
<1> DEFINE ts == new(r, c)
<1>3. ts \subseteq DOMAIN c.tasks /\ RS!resetTasks(r, fromStart) \subseteq ts
  BY <1>2 DEF RS!recreatedTasks, RS!resetTasks, RunOK
<1>4. a.rb = RS!withNewIDs(r, c, ts, d.next)
  BY <1>1
<1> HIDE DEF ts
<1>5. ASSUME NEW t \in DOMAIN r.tasks \ ts
      PROVE  /\ r.tasks[t].status = "success" /\ RS!LogsFetchFinished(r.tasks[t])
             /\ Stored(L, t, r.tasks[t])
  <2>1. ~fromStart /\ r.tasks[t].status = "success"
    BY <1>3 DEF RS!resetTasks
  <2>2. RS!LogsFetchFinished(r.tasks[t])
    BY <1>1, <2>1 DEF RS!CanRestartFromFailedTasks
  <2>3. TaskLogsOK(L, r.phase, t, r.tasks[t])
    BY DEF LogsOK
  <2> QED BY <2>1, <2>2, <2>3 DEF TaskLogsOK, Executed
<1> QED BY <1>2, <1>3, <1>4, <1>5, WithNewIDsLogs

-----------------------------------------------------------------------------
(* What the services' loops do to the logs *)

LEMMA DoLogs ==
    ASSUME NEW L, NEW e, LogsGood(L, e), Do(e)
    PROVE  LogsOK(L, db')
BY DEF LogsGood, Do

LEMMA StartRunLogs ==
    ASSUME DatabaseOK(Approved, db), NEW L, LogsOK(L, db), StartRun
    PROVE  LogsOK(L, db')
<1>1. PICK r : Do(RS!RunActionsHandler(db, r.id, [action |-> "changephase", phase |-> "running",
                                                  token |-> {}]))
  BY DEF StartRun
<1>2. Do(RS!ChangeRunPhase(db, r.id, "running", {}))
  BY <1>1 DEF RS!RunActionsHandler
<1> QED BY <1>2, ChangeRunPhaseLogs, DoLogs

LEMMA ReadApprovalsLogs ==
    ASSUME DatabaseOK(Approved, db), NEW L, LogsOK(L, db), ReadApprovals
    PROVE  LogsOK(L, db')
<1>1. PICK r \in db.run : \E a \in RS!RunHandler(db, r.id, {approvalGroup(r.id)}) : db' = a.d
  BY DEF ReadApprovals
<1>2. db' = RS!GetChangeGroupsUpdateTokens(db, {approvalGroup(r.id)})
  BY <1>1 DEF RS!RunHandler, RS!answer
<1>3. Shape(db) /\ db.next \in Nat
  BY DEF DatabaseOK, Shape
<1> QED BY <1>2, <1>3, GroupTokensSame, SameTables

LEMMA ApproveTaskLogs ==
    ASSUME DatabaseOK(Approved, db), NEW L, LogsOK(L, db), ApproveTask
    PROVE  LogsOK(L, db')
<1>1. CASE db' = db
  BY <1>1
<1>2. CASE db' # db
  <2>1. PICK t \in appr.todo : \E e \in {RS!RunTaskActionsHandler(db, appr.run.id, t,
                              [action |-> "approve", token |-> appr.token])} :
          RS!IsOK(e) /\ db' = e
    BY <1>2 DEF ApproveTask
  <2>2. Do(RS!ApproveRunTask(db, appr.run.id, t, appr.token))
    BY <2>1 DEF RS!RunTaskActionsHandler, Do
  <2> QED BY <2>2, ApproveRunTaskLogs, DoLogs
<1> QED BY <1>1, <1>2

LEMMA CompactLogs ==
    ASSUME DatabaseOK(Approved, db), NEW L, LogsOK(L, db), compactChangeGroups
    PROVE  LogsOK(L, db')
<1>1. PICK names : Do(RS!DeleteChangeGroup(db, names))
  BY DEF compactChangeGroups
<1>2. Shape(db) /\ db.next \in Nat
  BY DEF DatabaseOK, Shape
<1>3. db' = RS!without(db, "changegroup", names)
  BY <1>1, RefusedNotOK DEF Do, RS!DeleteChangeGroup, RS!delete
<1>4. Same(db, db')
  BY <1>2, <1>3, WithoutSame DEF RS!Tables
<1> QED BY <1>4, SameTables

ScheduledIn(X, id) == {x.id : x \in {y \in X : y.run = id}}

(* A run ends only when it has no executor task. *)
LEMMA AdvancedLogs ==
    ASSUME NEW T, NEW run, NEW rc, NEW c, RunOK(T, run, c), NEW L, NEW X, RunLogsOK(L, X, run)
    PROVE  RunLogsOK(L, X, advanceRun(run, rc, ScheduledIn(X, run.id)))
<1> DEFINE S == ScheduledIn(X, run.id)
           result == runResult(run, rc)
           early == run.result = "unknown" /\ result = "success"
           phase == IF result # "unknown" /\ ~early /\ allFinished(run) /\ S = {}
                    THEN "finished" ELSE run.phase
           over == result # "unknown" /\ phase \in RS!FinishedPhases
           tasks == [t \in DOMAIN run.tasks |->
                       IF over /\ run.tasks[t].status = "notstarted"
                       THEN [run.tasks[t] EXCEPT !.setup = TRUE, !.step = TRUE, !.arch = TRUE]
                       ELSE run.tasks[t]]
           a == advanceRun(run, rc, S)
<1>1. a = [run EXCEPT !.result = result, !.phase = phase, !.tasks = tasks]
  BY DEF advanceRun
<1>2. a.id = run.id /\ a.phase = phase /\ a.tasks = tasks
  BY <1>1 DEF RunOK
<1>3. \A t \in DOMAIN run.tasks : run.tasks[t].status # "notstarted" => tasks[t] = run.tasks[t]
  OBVIOUS
<1>4. \A t \in DOMAIN run.tasks : tasks[t].status = run.tasks[t].status
  BY DEF RunOK, TaskOK
<1>5. over \/ (phase = run.phase /\ \A t \in DOMAIN run.tasks : tasks[t] = run.tasks[t])
  BY DEF RS!FinishedPhases
<1>6. over => phase \notin {"queued", "running"}
  BY DEF RS!FinishedPhases
<1>7. S # {} => phase = run.phase
  OBVIOUS
<1>8. \A x \in X : x.run = run.id => x.id \in S
  BY DEF ScheduledIn
<1>9. DOMAIN tasks = DOMAIN run.tasks
  OBVIOUS
<1> HIDE DEF S, over, phase, tasks, a
<1>10. ASSUME NEW t \in DOMAIN run.tasks
       PROVE  /\ TaskLogsOK(L, phase, t, tasks[t])
              /\ tasks[t].status \in Executed /\ ~RS!LogsFetchFinished(tasks[t]) =>
                   \E x \in X : x.run = run.id /\ x.id = t
  <2>1. /\ TaskLogsOK(L, run.phase, t, run.tasks[t])
        /\ Awaited(run, t) => \E x \in X : x.run = run.id /\ x.id = t
    BY DEF RunLogsOK
  <2>2. CASE run.tasks[t].status # "notstarted"
    BY <1>3, <2>1, <2>2 DEF TaskLogsOK, Awaited
  <2>3. CASE run.tasks[t].status = "notstarted"
    <3>1. tasks[t].status \notin Executed
      BY <1>4, <2>3 DEF Executed
    <3> QED BY <1>5, <1>6, <2>1, <3>1 DEF TaskLogsOK
  <2> QED BY <2>2, <2>3
<1>11. ASSUME NEW x \in X, x.run = run.id PROVE ExecutorLogsOK(L, x, a)
  <2>1. ExecutorLogsOK(L, x, run)
    BY <1>11 DEF RunLogsOK
  <2>2. phase = "running" /\ ~over
    BY <1>6, <1>7, <1>8, <1>11, <2>1 DEF ExecutorLogsOK
  <2> QED BY <1>2, <1>5, <1>9, <2>1, <2>2 DEF ExecutorLogsOK
<1>12. RunLogsOK(L, X, a)
  BY <1>2, <1>9, <1>10, <1>11 DEF RunLogsOK, Awaited
<1> QED BY <1>12 DEF a, S

LEMMA AdvancedTasksLogs ==
    ASSUME NEW T, NEW run, NEW rc, NEW S, NEW c, RunOK(T, run, c), NEW L, NEW X,
           RunLogsOK(L, X, run)
    PROVE  RunLogsOK(L, X, advanceRunTasks(run, rc, S))
<1> DEFINE tasks == [t \in DOMAIN run.tasks |->
                       [run.tasks[t] EXCEPT !.status = taskStatus(run, rc, S, t),
                                            !.wait = waitsApproval(run, rc, S, t)]]
           a == advanceRunTasks(run, rc, S)
<1>1. a = [run EXCEPT !.tasks = tasks]
  BY DEF advanceRunTasks
<1>2. a.id = run.id /\ a.phase = run.phase /\ a.tasks = tasks
  BY <1>1 DEF RunOK
<1>3. \A t \in DOMAIN run.tasks : /\ tasks[t].status = taskStatus(run, rc, S, t)
                                  /\ tasks[t].setup = run.tasks[t].setup
                                  /\ tasks[t].step = run.tasks[t].step
  BY DEF RunOK, TaskOK
<1>4. \A t : taskStatus(run, rc, S, t) \in {run.tasks[t].status, "skipped", "cancelled"}
  BY DEF taskStatus
<1>5. DOMAIN tasks = DOMAIN run.tasks
  OBVIOUS
<1> HIDE DEF tasks, a
<1>6. ASSUME NEW t \in DOMAIN run.tasks
      PROVE  /\ TaskLogsOK(L, run.phase, t, tasks[t])
             /\ tasks[t].status \in Executed /\ ~RS!LogsFetchFinished(tasks[t]) =>
                  \E x \in X : x.run = run.id /\ x.id = t
  <2>1. /\ TaskLogsOK(L, run.phase, t, run.tasks[t])
        /\ Awaited(run, t) => \E x \in X : x.run = run.id /\ x.id = t
    BY DEF RunLogsOK
  <2>2. tasks[t].status \in Executed \cup {"notstarted"} => tasks[t].status = run.tasks[t].status
    BY <1>3, <1>4 DEF Executed
  <2> QED BY <1>3, <2>1, <2>2 DEF TaskLogsOK, Awaited, Stored, RS!LogsFetchFinished
<1>7. ASSUME NEW x \in X, x.run = run.id PROVE ExecutorLogsOK(L, x, a)
  <2>1. ExecutorLogsOK(L, x, run)
    BY <1>7 DEF RunLogsOK
  <2> QED BY <1>2, <1>3, <1>5, <2>1 DEF ExecutorLogsOK, Stored
<1>8. RunLogsOK(L, X, a)
  BY <1>2, <1>5, <1>6, <1>7 DEF RunLogsOK, Awaited
<1> QED BY <1>8 DEF a

(* The same executor tasks, some of them told to stop. *)
SameTasks(X, Y) ==
    /\ \A x \in X : \E y \in Y : y.id = x.id /\ y.run = x.run
    /\ \A y \in Y : \E x \in X : y.id = x.id /\ y.run = x.run /\ y.phase = x.phase

LEMMA SameTasksLogs ==
    ASSUME NEW L, NEW X, NEW Y, SameTasks(X, Y), NEW n, RunLogsOK(L, X, n)
    PROVE  RunLogsOK(L, Y, n)
<1>1. ASSUME NEW y \in Y, y.run = n.id PROVE ExecutorLogsOK(L, y, n)
  <2>1. PICK x \in X : y.id = x.id /\ y.run = x.run /\ y.phase = x.phase
    BY DEF SameTasks
  <2>2. ExecutorLogsOK(L, x, n)
    BY <1>1, <2>1 DEF RunLogsOK
  <2> QED BY <2>1, <2>2 DEF ExecutorLogsOK
<1>2. \A t : (\E x \in X : x.run = n.id /\ x.id = t) => \E y \in Y : y.run = n.id /\ y.id = t
  BY DEF SameTasks
<1> QED BY <1>1, <1>2 DEF RunLogsOK

(* Executor tasks and a run of theirs, written together. *)
LEMMA WrittenRows ==
    ASSUME NEW d, Shape(d), NEW rows, NEW r \in d.run, NEW n, n.id = r.id,
           RS!IsOK(RS!UpdateRun(RS!UpdateExecutorTask(d, rows), n))
    PROVE  LET e == RS!UpdateRun(RS!UpdateExecutorTask(d, rows), n)
           IN  /\ Shape(e) /\ e.run = {o \in d.run : o.id # n.id} \cup {n} /\ e.next = d.next
               /\ e.executortask = {o \in d.executortask : \A new \in rows : o.id # new.id} \cup rows
<1> DEFINE d1 == RS!UpdateExecutorTask(d, rows)
<1>1. RS!IsOK(d1)
  BY RefusedNotOK DEF RS!UpdateRun, RS!update
<1>2. d1 = RS!write(d, "executortask", rows)
  BY <1>1, RefusedNotOK DEF RS!UpdateExecutorTask, RS!update
<1>3. /\ Shape(d1) /\ d1.run = d.run /\ d1.next = d.next
      /\ d1.executortask = {o \in d.executortask : \A new \in rows : o.id # new.id} \cup rows
  BY <1>2, WriteShape DEF RS!Tables
<1> HIDE DEF d1
<1>5. Shape(d1) /\ r \in d1.run /\ n.id = r.id
  BY <1>3
<1>4. /\ Shape(RS!UpdateRun(d1, n)) /\ RS!UpdateRun(d1, n).next = d1.next
      /\ RS!UpdateRun(d1, n).run = {o \in d1.run : o.id # n.id} \cup {n}
      /\ RS!UpdateRun(d1, n).executortask = d1.executortask
  BY <1>5, UpdatedRows
<1> QED BY <1>3, <1>4 DEF d1

LEMMA AdvanceRunLogs ==
    ASSUME DatabaseOK(Approved, db), NEW L, LogsOK(L, db), AdvanceRun
    PROVE  LogsOK(L, db')
<1> DEFINE rows(r) == IF r.stop
                      THEN {[e EXCEPT !.stop = TRUE] : e \in RS!GetExecutorTasksByRun(db, r.id)}
                      ELSE {}
           write(r, n) == RS!UpdateRun(RS!UpdateExecutorTask(db, rows(r)), n)
           X == db.executortask
<1>1. PICK r, rc, a, n :
        /\ r \in db.run /\ a = advanceRun(r, rc, Scheduled(r))
        /\ n = IF a.phase = "running" THEN advanceRunTasks(a, rc, Scheduled(r)) ELSE a
        /\ Do(IF n.phase = r.phase /\ n.result = r.result THEN write(r, n)
              ELSE RS!withEvent(write(r, n), n))
  BY Zenon DEF AdvanceRun, RS!GetUnarchivedRuns, RS!fetchRuns
<1>2. PICK c \in db.runconfig : RunOK(Approved, r, c)
  BY <1>1 DEF DatabaseOK
<1>3. Scheduled(r) = ScheduledIn(X, r.id)
  BY DEF Scheduled, ScheduledIn, RS!GetExecutorTasksByRun, RS!fetchExecutorTasks
<1>4. RunLogsOK(L, X, n) /\ n.id = r.id
  <2>1. RunLogsOK(L, X, r)
    BY <1>1, LogsOfRun
  <2> HIDE DEF X
  <2>2. RunLogsOK(L, X, a) /\ RunOK(Approved, a, c) /\ a.id = r.id
    <3>1. a = advanceRun(r, rc, ScheduledIn(X, r.id))
      BY <1>1, <1>3
    <3>2. RunLogsOK(L, X, a)
      BY <1>2, <2>1, <3>1, AdvancedLogs
    <3>3. RunOK(Approved, a, c) /\ a.id = r.id
      BY <1>2, <3>1, AdvancedOK
    <3> QED BY <3>2, <3>3
  <2>3. RunLogsOK(L, X, advanceRunTasks(a, rc, Scheduled(r)))
    BY <2>2, AdvancedTasksLogs
  <2>4. advanceRunTasks(a, rc, Scheduled(r)).id = a.id
    BY <2>2, AdvancedTasksOK
  <2> QED BY <1>1, <2>2, <2>3, <2>4
<1> DEFINE d2 == write(r, n)
           Y == {o \in X : \A new \in rows(r) : o.id # new.id} \cup rows(r)
<1>5. r \in db.run /\ (Do(d2) \/ Do(RS!withEvent(d2, n)))
  BY <1>1
<1>6. RS!IsOK(d2)
  BY <1>5, EventRefused DEF Do
<1>7. Shape(db) /\ db.next \in Nat
  BY DEF DatabaseOK, Shape
<1>8. ASSUME NEW x \in rows(r)
      PROVE  \E y \in X : x.id = y.id /\ x.run = y.run /\ x.phase = y.phase /\ x.run = r.id
                          /\ x = [y EXCEPT !.stop = TRUE]
  <2>1. PICK y \in X : y.run = r.id /\ x = [y EXCEPT !.stop = TRUE]
    BY <1>8 DEF RS!GetExecutorTasksByRun, RS!fetchExecutorTasks
  <2>2. DOMAIN y = {"id", "run", "phase", "stop"}
    BY DEF DatabaseOK, ExecutorTaskOK
  <2> QED BY <2>1, <2>2
<1>9. \A x, y \in X : x.id = y.id => x = y
  BY DEF LogsOK
<1> HIDE DEF rows
<1>10. d2.executortask = Y /\ Shape(d2) /\ d2.next \in Nat
       /\ d2.run = {o \in db.run : o.id # n.id} \cup {n}
  BY <1>4, <1>5, <1>6, <1>7, WrittenRows
<1> HIDE DEF d2, X
<1>11. SameTasks(X, Y)
  <2>1. ASSUME NEW x \in X PROVE \E y \in Y : y.id = x.id /\ y.run = x.run
    <3>1. CASE \A new \in rows(r) : x.id # new.id
      BY <3>1
    <3>2. CASE \E new \in rows(r) : x.id = new.id
      <4>1. PICK new \in rows(r) : x.id = new.id
        BY <3>2
      <4>2. PICK y \in X : new.id = y.id /\ new.run = y.run
        BY <1>8, <4>1
      <4>3. y = x
        BY <1>9, <4>1, <4>2
      <4> QED BY <4>1, <4>2, <4>3
    <3> QED BY <3>1, <3>2
  <2>2. ASSUME NEW y \in Y PROVE \E x \in X : y.id = x.id /\ y.run = x.run /\ y.phase = x.phase
    BY <1>8
  <2> QED BY <2>1, <2>2 DEF SameTasks
<1>12. ASSUME NEW x, x.run # r.id PROVE x \in Y <=> x \in X
  <2>1. x \notin rows(r)
    BY <1>8, <1>12
  <2>2. ASSUME x \in X, NEW new \in rows(r) PROVE x.id # new.id
    <3>1. PICK y \in X : new.id = y.id /\ new.run = y.run /\ new.run = r.id
      BY <1>8
    <3> QED BY <1>9, <1>12, <2>2, <3>1
  <2> QED BY <2>1, <2>2
<1>13. ASSUME NEW x \in Y, NEW y \in Y, x.id = y.id PROVE x = y
  <2>1. CASE x \in rows(r) /\ y \in rows(r)
    <3>1. PICK u \in X : x.id = u.id /\ x = [u EXCEPT !.stop = TRUE]
      BY <1>8, <2>1
    <3>2. PICK v \in X : y.id = v.id /\ y = [v EXCEPT !.stop = TRUE]
      BY <1>8, <2>1
    <3>3. u = v
      BY <1>9, <1>13, <3>1, <3>2
    <3> QED BY <3>1, <3>2, <3>3
  <2>2. CASE x \notin rows(r) /\ y \notin rows(r)
    BY <1>9, <1>13, <2>2
  <2> QED BY <1>13, <2>1, <2>2
<1> HIDE DEF Y
<1>14. RunLogsOK(L, Y, n)
  BY <1>4, <1>11, SameTasksLogs
<1>15. LogsOK(L, d2)
  <2>1. \A x : x.run # r.id => (x \in d2.executortask <=> x \in db.executortask)
    BY <1>10, <1>12 DEF X
  <2>2. \A x, y \in d2.executortask : x.id = y.id => x = y
    BY <1>10, <1>13
  <2> QED BY <1>4, <1>5, <1>10, <1>14, <2>1, <2>2, ReplacedRun
<1>16. CASE Do(d2)
  BY <1>15, <1>16 DEF Do
<1>17. CASE Do(RS!withEvent(d2, n))
  <2>1. Same(d2, db')
    BY <1>10, <1>17, EventSame DEF Do
  <2> QED BY <1>15, <2>1, SameTables
<1> QED BY <1>5, <1>16, <1>17

(* A change of the executor tasks of r alone. *)
LEMMA ChangedTasks ==
    ASSUME NEW T, NEW d, DatabaseOK(T, d), NEW L, LogsOK(L, d), NEW r \in d.run,
           NEW e, e.run = d.run,
           \A x : x.run # r.id => (x \in e.executortask <=> x \in d.executortask),
           \A a, b \in e.executortask : a.id = b.id => a = b,
           RunLogsOK(L, e.executortask, r)
    PROVE  LogsOK(L, e)
<1>1. e.run = {o \in d.run : o.id # r.id} \cup {r}
  BY DEF DatabaseOK
<1> QED BY <1>1, ReplacedRun

LEMMA SubmitTaskLogs ==
    ASSUME DatabaseOK(Approved, db), NEW L, LogsOK(L, db), SubmitTask
    PROVE  LogsOK(L, db')
<1> DEFINE row(r, t) == [id |-> t, run |-> r.id, phase |-> "notstarted", stop |-> FALSE]
<1>1. PICK r, rc, t : /\ r \in db.run /\ r.phase = "running" /\ t \in getTasksToRun(r, rc)
                      /\ Do(RS!InsertExecutorTask(db, row(r, t)))
  BY Zenon DEF SubmitTask, RS!GetUnarchivedRuns, RS!fetchRuns
<1> DEFINE x == row(r, t)
           X == db.executortask
<1>2. Do(RS!InsertExecutorTask(db, x)) /\ x.id = t /\ x.run = r.id /\ x.phase = "notstarted"
  BY <1>1
<1> HIDE DEF x
<1>3. ~RS!HasID(db, "executortask", x.id) /\ db' = RS!write(db, "executortask", {x}) /\ Shape(db)
  BY <1>2, RefusedNotOK DEF Do, RS!InsertExecutorTask, RS!insert, DatabaseOK, Shape
<1>4. db'.run = db.run /\ db'.executortask = X \cup {x} /\ \A y \in X : y.id # x.id
  <2>1. \A y \in X : y.id # x.id
    BY <1>3 DEF RS!HasID
  <2> QED BY <1>3, <2>1, WriteShape DEF RS!Tables
<1>5. RunLogsOK(L, X, r)
  BY <1>1, LogsOfRun
<1>6. ExecutorLogsOK(L, x, r)
  <2>1. t \in DOMAIN r.tasks /\ r.tasks[t].status = "notstarted"
    BY <1>1 DEF getTasksToRun
  <2>2. TaskLogsOK(L, r.phase, t, r.tasks[t])
    BY <1>5, <2>1 DEF RunLogsOK
  <2> QED BY <1>1, <1>2, <2>1, <2>2 DEF ExecutorLogsOK, TaskLogsOK, Stored
<1>7. RunLogsOK(L, db'.executortask, r)
  BY <1>4, <1>5, <1>6 DEF RunLogsOK
<1>8. \A a, b \in db'.executortask : a.id = b.id => a = b
  BY <1>4 DEF LogsOK
<1>9. \A y : y.run # r.id => (y \in db'.executortask <=> y \in db.executortask)
  BY <1>2, <1>4
<1> QED BY <1>1, <1>4, <1>7, <1>8, <1>9, ChangedTasks

(* What is fetched of a task before its end is stored, and counts after it. *)
LEMMA TaskEndsLogs ==
    ASSUME DatabaseOK(Approved, db), NEW L, LogsOK(L, db), TaskEnds
    PROVE  LogsOK(L, db')
<1>1. PICK e, p, r :
        /\ e \in db.executortask /\ e.phase = "notstarted" /\ p \in Executed \cup {"cancelled"}
        /\ r \in db.run /\ r.id = e.run
        /\ Do(RS!UpdateRun(RS!UpdateExecutorTask(db, {[e EXCEPT !.phase = p]}),
                           [r EXCEPT !.tasks[e.id].status = p]))
  <2> DEFINE ends(e, p, r) ==
               Do(RS!UpdateRun(RS!UpdateExecutorTask(db, {[e EXCEPT !.phase = p]}),
                               [r EXCEPT !.tasks[e.id].status = p]))
  <2>1. PICK e \in {y \in db.executortask : y.phase = "notstarted"} :
          \E p \in IF e.stop THEN Executed \cup {"cancelled"} ELSE {"success", "failed"} :
          \E r \in RS!GetRun(db, e.run) : ends(e, p, r)
    BY Zenon DEF TaskEnds
  <2>2. PICK p \in IF e.stop THEN Executed \cup {"cancelled"} ELSE {"success", "failed"} :
          \E r \in RS!GetRun(db, e.run) : ends(e, p, r)
    BY <2>1
  <2>3. p \in Executed \cup {"cancelled"}
    BY DEF Executed
  <2> QED BY <2>2, <2>3, Zenon DEF RS!GetRun, RS!fetchRuns
<1> DEFINE n == [r EXCEPT !.tasks[e.id].status = p]
           y == [e EXCEPT !.phase = p]
           X == db.executortask
           Y == {o \in X : \A new \in {y} : o.id # new.id} \cup {y}
<1>2. RS!IsOK(db') /\ db' = RS!UpdateRun(RS!UpdateExecutorTask(db, {y}), n) /\ Shape(db)
  BY <1>1 DEF Do, DatabaseOK, Shape
<1>3. PICK c \in db.runconfig : RunOK(Approved, r, c)
  BY <1>1 DEF DatabaseOK
<1>4. RunLogsOK(L, X, r)
  BY <1>1, LogsOfRun
<1>5. ExecutorLogsOK(L, e, r)
  BY <1>1, <1>4 DEF RunLogsOK
<1>6. /\ n.id = r.id /\ n.phase = r.phase /\ DOMAIN n.tasks = DOMAIN r.tasks
      /\ \A t \in DOMAIN r.tasks : t # e.id => n.tasks[t] = r.tasks[t]
      /\ n.tasks[e.id].status = p /\ n.tasks[e.id].setup = r.tasks[e.id].setup
      /\ n.tasks[e.id].step = r.tasks[e.id].step
  <2>1. e.id \in DOMAIN r.tasks
    BY <1>5 DEF ExecutorLogsOK
  <2> QED BY <1>3, <2>1 DEF RunOK, TaskOK
<1>7. y.id = e.id /\ y.run = e.run /\ y.phase = p
  <2>1. DOMAIN e = {"id", "run", "phase", "stop"}
    BY <1>1 DEF DatabaseOK, ExecutorTaskOK
  <2> QED BY <2>1
<1> HIDE DEF n, y
<1>8. db'.executortask = Y /\ db'.run = {o \in db.run : o.id # n.id} \cup {n}
  <2> DEFINE rows == {y}
             d2 == RS!UpdateRun(RS!UpdateExecutorTask(db, rows), n)
  <2>1. Shape(db) /\ r \in db.run /\ n.id = r.id /\ RS!IsOK(d2) /\ db' = d2
    BY <1>1, <1>2, <1>6
  <2> HIDE DEF rows
  <2>2. /\ d2.executortask = {o \in db.executortask : \A new \in rows : o.id # new.id} \cup rows
        /\ d2.run = {o \in db.run : o.id # n.id} \cup {n}
    BY <2>1, WrittenRows
  <2> QED BY <2>1, <2>2 DEF rows
<1>9. \A a, b \in X : a.id = b.id => a = b
  BY DEF LogsOK
<1>10. \A x \in Y : x = y \/ (x \in X /\ x.id # e.id)
  BY <1>7
<1>11. \A x \in X : x = e \/ x \in Y
  BY <1>1, <1>7, <1>9
<1>12. y \in Y
  OBVIOUS
<1> HIDE DEF X, Y
<1>13. ASSUME NEW t \in DOMAIN n.tasks
       PROVE  /\ TaskLogsOK(L, n.phase, t, n.tasks[t])
              /\ Awaited(n, t) => \E x \in Y : x.run = n.id /\ x.id = t
  <2>1. CASE t = e.id
    <3>1. Stored(L, t, n.tasks[t])
      BY <1>1, <1>5, <1>6, <2>1 DEF ExecutorLogsOK, Stored
    <3>2. n.tasks[t].status # "notstarted"
      BY <1>1, <1>6, <2>1 DEF Executed
    <3> QED BY <1>1, <1>6, <1>7, <1>12, <2>1, <3>1, <3>2 DEF TaskLogsOK
  <2>2. CASE t # e.id
    <3>1. t \in DOMAIN r.tasks /\ n.tasks[t] = r.tasks[t]
      BY <1>6, <2>2
    <3>2. /\ TaskLogsOK(L, r.phase, t, r.tasks[t])
          /\ Awaited(r, t) => \E x \in X : x.run = r.id /\ x.id = t
      BY <1>4, <3>1 DEF RunLogsOK
    <3> QED BY <1>6, <1>11, <2>2, <3>1, <3>2 DEF Awaited
  <2> QED BY <2>1, <2>2
<1>14. ASSUME NEW x \in Y, x.run = n.id PROVE ExecutorLogsOK(L, x, n)
  <2>1. CASE x = y
    <3>1. p # "notstarted"
      BY <1>1 DEF Executed
    <3> QED BY <1>1, <1>5, <1>6, <1>7, <2>1, <3>1 DEF ExecutorLogsOK
  <2>2. CASE x \in X /\ x.id # e.id
    <3>1. ExecutorLogsOK(L, x, r)
      BY <1>4, <1>6, <1>14, <2>2 DEF RunLogsOK
    <3> QED BY <1>6, <2>2, <3>1 DEF ExecutorLogsOK
  <2> QED BY <1>10, <2>1, <2>2
<1>15. RunLogsOK(L, Y, n)
  BY <1>13, <1>14 DEF RunLogsOK
<1>16. \A x : x.run # r.id => (x \in db'.executortask <=> x \in db.executortask)
  BY <1>1, <1>7, <1>8, <1>10, <1>11 DEF X
<1>17. \A a, b \in db'.executortask : a.id = b.id => a = b
  BY <1>7, <1>8, <1>9, <1>10
<1> QED BY <1>1, <1>6, <1>8, <1>15, <1>16, <1>17, ReplacedRun

(* The logs of a fetched task are stored as it says they are. *)
LEMMA FetchedLogs ==
    ASSUME NEW T, NEW c, NEW r, RunOK(T, r, c), NEW t \in DOMAIN r.tasks,
           r.tasks[t].status \in FinishedStatuses, NEW parts,
           NEW L, NEW M, L \subseteq M, NEW X, RunLogsOK(L, X, r),
           \/ \A part \in parts : RS!logPath(t, part) \in M
           \/ \A x \in X : x.run = r.id => x.id # t
    PROVE  RunLogsOK(M, X, [r EXCEPT !.tasks[t] = withFetched(@, parts)])
<1> DEFINE rt == r.tasks[t]
           nt == withFetched(rt, parts)
           n == [r EXCEPT !.tasks[t] = withFetched(@, parts)]
<1>1. /\ nt.status = rt.status
      /\ nt.setup = (rt.setup \/ "setup" \in parts)
      /\ nt.step = (rt.step \/ "step" \in parts)
  <2>1. DOMAIN rt = {"status", "wait", "appr", "approvers", "setup", "step", "arch"}
    BY DEF RunOK, TaskOK
  <2> HIDE DEF rt
  <2> QED BY <2>1 DEF withFetched
<1>2. /\ n.id = r.id /\ n.phase = r.phase /\ DOMAIN n.tasks = DOMAIN r.tasks
      /\ n.tasks[t] = nt
      /\ \A u \in DOMAIN r.tasks : u # t => n.tasks[u] = r.tasks[u]
  <2>1. DOMAIN r = {"id", "seq", "counter", "group", "name", "rc", "sha", "phase", "result", "stop",
                   "archived", "tasks"}
    BY DEF RunOK
  <2> HIDE DEF nt
  <2> QED BY <2>1 DEF nt
<1>3. /\ \A u \in DOMAIN r.tasks : /\ TaskLogsOK(L, r.phase, u, r.tasks[u])
                                   /\ Awaited(r, u) => \E x \in X : x.run = r.id /\ x.id = u
      /\ \A x \in X : x.run = r.id => ExecutorLogsOK(L, x, r)
  BY DEF RunLogsOK
<1>4. /\ \A u \in DOMAIN r.tasks : TaskLogsOK(M, r.phase, u, r.tasks[u])
      /\ \A x \in X : x.run = r.id => ExecutorLogsOK(M, x, r)
  BY <1>3, StoredMore DEF TaskLogsOK, ExecutorLogsOK
<1>5. rt.status # "notstarted"
  BY DEF FinishedStatuses
<1> HIDE DEF nt, n, rt
<1>6. TaskLogsOK(M, n.phase, t, nt) /\ (Awaited(n, t) => Awaited(r, t))
  <2>1. Stored(M, t, rt) \/ rt.status \notin Executed
    BY <1>4 DEF TaskLogsOK, rt
  <2>2. CASE \A part \in parts : RS!logPath(t, part) \in M
    <3>1. rt.status \in Executed => Stored(M, t, nt)
      BY <1>1, <2>1, <2>2 DEF Stored
    <3>2. Awaited(n, t) => Awaited(r, t)
      BY <1>1, <1>2 DEF Awaited, RS!LogsFetchFinished, rt
    <3> QED BY <1>1, <1>5, <3>1, <3>2 DEF TaskLogsOK
  <2>3. CASE \A x \in X : x.run = r.id => x.id # t
    <3>1. rt.status \in Executed => rt.setup /\ rt.step
      BY <1>3, <2>3 DEF Awaited, RS!LogsFetchFinished, rt
    <3>2. rt.status \in Executed => Stored(M, t, nt) /\ nt.setup /\ nt.step
      BY <1>1, <2>1, <3>1 DEF Stored
    <3>3. ~Awaited(n, t)
      BY <1>1, <1>2, <3>2 DEF Awaited, RS!LogsFetchFinished
    <3> QED BY <1>1, <1>5, <3>2, <3>3 DEF TaskLogsOK
  <2> QED BY <2>2, <2>3
<1>7. ASSUME NEW u \in DOMAIN n.tasks
      PROVE  /\ TaskLogsOK(M, n.phase, u, n.tasks[u])
             /\ Awaited(n, u) => \E x \in X : x.run = n.id /\ x.id = u
  <2>1. CASE u = t
    BY <1>2, <1>3, <1>6, <2>1
  <2>2. CASE u # t
    BY <1>2, <1>3, <1>4, <2>2 DEF Awaited
  <2> QED BY <2>1, <2>2
<1>8. ASSUME NEW x \in X, x.run = n.id PROVE ExecutorLogsOK(M, x, n)
  <2>1. ExecutorLogsOK(M, x, r)
    BY <1>2, <1>4, <1>8
  <2>2. CASE x.id = t
    <3>1. \A part \in parts : RS!logPath(t, part) \in M
      BY <1>2, <1>8, <2>2
    <3>2. x.phase = "notstarted" => Stored(M, t, nt)
      BY <1>1, <2>1, <2>2, <3>1 DEF ExecutorLogsOK, Stored, rt
    <3> QED BY <1>2, <2>1, <2>2, <3>2 DEF ExecutorLogsOK
  <2>3. CASE x.id # t
    BY <1>2, <2>1, <2>3 DEF ExecutorLogsOK
  <2> QED BY <2>2, <2>3
<1>9. RunLogsOK(M, X, n)
  BY <1>7, <1>8 DEF RunLogsOK
<1> QED BY <1>9 DEF n

LEMMA TaskFetcherLogs ==
    ASSUME DatabaseOK(Approved, db), LogsOK(Logs, db), TaskFetcher
    PROVE  LogsOK(Logs', db') /\ Logs \subseteq Logs'
<1> DEFINE n(r, t, parts) == [r EXCEPT !.tasks[t] = withFetched(@, parts)]
<1>1. PICK r, t, parts :
        /\ r \in db.run /\ t \in DOMAIN r.tasks /\ r.tasks[t].status \in FinishedStatuses
        /\ \E got : parts \subseteq got /\ objects' = objects \cup fetched(r, t, got)
        /\ Do(RS!UpdateRun(db, n(r, t, parts)))
  BY Zenon DEF TaskFetcher, RS!GetUnarchivedRuns, RS!fetchRuns
<1>2. deleted' = deleted /\ missing' = missing
  BY DEF TaskFetcher, history
<1> DEFINE M == Logs'
<1>3. Logs \subseteq M
  BY <1>1, <1>2 DEF Logs
<1>4. PICK c \in db.runconfig : RunOK(Approved, r, c)
  BY <1>1 DEF DatabaseOK
<1>5. RunLogsOK(Logs, db.executortask, r)
  BY <1>1, LogsOfRun
<1>6. \/ \A part \in parts : RS!logPath(t, part) \in M
      \/ \A x \in db.executortask : x.run = r.id => x.id # t
  <2>1. CASE t \in Scheduled(r)
    BY <1>1, <1>2, <2>1 DEF Logs, fetched
  <2>2. CASE t \notin Scheduled(r)
    BY <2>2 DEF Scheduled, RS!GetExecutorTasksByRun, RS!fetchExecutorTasks
  <2> QED BY <2>1, <2>2
<1> HIDE DEF M
<1>7. RunLogsOK(M, db.executortask, n(r, t, parts))
  BY <1>1, <1>3, <1>4, <1>5, <1>6, FetchedLogs
<1>8. n(r, t, parts).id = r.id
  BY <1>4 DEF RunOK
<1>9. Shape(db) /\ db' = RS!UpdateRun(db, n(r, t, parts))
  BY <1>1 DEF Do, DatabaseOK, Shape
<1> DEFINE m == n(r, t, parts)
<1>10. RunLogsOK(M, db.executortask, m) /\ m.id = r.id /\ db' = RS!UpdateRun(db, m) /\ r \in db.run
  BY <1>1, <1>7, <1>8, <1>9
<1> HIDE DEF m
<1>11. /\ db'.run = {o \in db.run : o.id # m.id} \cup {m}
       /\ db'.executortask = db.executortask
  BY <1>9, <1>10, UpdatedRows
<1>12. \A a, b \in db'.executortask : a.id = b.id => a = b
  BY <1>11 DEF LogsOK
<1>13. RunLogsOK(M, db'.executortask, m)
  BY <1>10, <1>11
<1>14. LogsOK(M, db')
  BY <1>3, <1>10, <1>11, <1>12, <1>13, ReplacedRun
<1> QED BY <1>3, <1>14 DEF M

(* An executor task goes when nothing is awaited from it any more. *)
LEMMA DropExecutorTaskLogs ==
    ASSUME DatabaseOK(Approved, db), NEW L, LogsOK(L, db), DropExecutorTask
    PROVE  LogsOK(L, db')
<1>1. PICK r, t : /\ r \in db.run /\ t \in Scheduled(r) /\ RS!LogsFetchFinished(r.tasks[t])
                  /\ Do(RS!DeleteExecutorTask(db, t))
  BY Zenon DEF DropExecutorTask, RS!GetUnarchivedRuns, RS!fetchRuns
<1> DEFINE X == db.executortask
<1>2. db' = RS!without(db, "executortask", {t}) /\ Shape(db)
  BY <1>1, RefusedNotOK DEF Do, RS!DeleteExecutorTask, RS!delete, DatabaseOK, Shape
<1>3. db'.run = db.run /\ db'.executortask = {o \in X : o.id # t}
  BY <1>2, WithoutShape DEF RS!Tables
<1>4. PICK e \in X : e.run = r.id /\ e.id = t
  BY <1>1 DEF Scheduled, RS!GetExecutorTasksByRun, RS!fetchExecutorTasks
<1>5. \A a, b \in X : a.id = b.id => a = b
  BY DEF LogsOK
<1>6. RunLogsOK(L, X, r)
  BY <1>1, LogsOfRun
<1> HIDE DEF X
<1>7. \A u \in DOMAIN r.tasks : Awaited(r, u) => u # t
  BY <1>1 DEF Awaited
<1>8. RunLogsOK(L, db'.executortask, r)
  BY <1>3, <1>6, <1>7 DEF RunLogsOK
<1>9. \A x : x.run # r.id => (x \in db'.executortask <=> x \in db.executortask)
  BY <1>3, <1>4, <1>5 DEF X
<1>10. \A a, b \in db'.executortask : a.id = b.id => a = b
  BY <1>3, <1>5
<1> QED BY <1>1, <1>3, <1>8, <1>9, <1>10, ChangedTasks

LEMMA ArchiverLogs ==
    ASSUME DatabaseOK(Approved, db), NEW L, LogsOK(L, db), finishedRunArchiver
    PROVE  LogsOK(L, db')
<1>1. PICK r \in db.run : Do(RS!UpdateRun(db, [r EXCEPT !.archived = TRUE]))
  BY Zenon DEF finishedRunArchiver, RS!GetUnarchivedRuns, RS!fetchRuns
<1> DEFINE n == [r EXCEPT !.archived = TRUE]
<1>2. SameLogs(r, n) /\ n.id = r.id
  BY DEF DatabaseOK, RunOK, SameLogs
<1>3. db' = RS!UpdateRun(db, n) /\ Shape(db)
  BY <1>1 DEF Do, DatabaseOK, Shape
<1> HIDE DEF n
<1>4. db'.run = {o \in db.run : o.id # n.id} \cup {n} /\ db'.executortask = db.executortask
  BY <1>2, <1>3, UpdatedRows
<1> QED BY <1>2, <1>4, SameLogsKept

-----------------------------------------------------------------------------
(* The requests *)

LEMMA ApplyLogs ==
    ASSUME DatabaseOK(Approved, db), NEW L, LogsOK(L, db), NEW p, PlanOK(Approved, db.next, p),
           p.call \in {"cancel", "stop", "approve", "save"},
           p.call = "save" => LoggedRun(L, p.rb.run)
    PROVE  LogsGood(L, apply(p))
<1>1. CASE p.call = "cancel"
  <2>1. apply(p) = RS!ChangeRunPhase(db, p.run, "cancelled", {})
    BY <1>1 DEF apply, RS!RunActionsHandler
  <2> QED BY <2>1, ChangeRunPhaseLogs
<1>2. CASE p.call = "stop"
  <2>1. apply(p) = RS!StopRun(db, p.run, {})
    BY <1>2 DEF apply, RS!RunActionsHandler
  <2> QED BY <2>1, StopRunLogs
<1>3. CASE p.call = "approve"
  <2>1. apply(p) = RS!RunTaskSetAnnotations(db, p.run, p.task, p.arg, p.token)
    BY <1>3 DEF apply, RS!RunTaskActionsHandler
  <2> QED BY <2>1, SetAnnotationsLogs
<1>4. CASE p.call = "save"
  <2>1. apply(p) = RS!saveRun(db, p.rb, {})
    BY <1>4 DEF apply
  <2>2. RunOK(Approved, p.rb.run, p.rb.rc)
    BY <1>4 DEF PlanOK
  <2> QED BY <1>4, <2>1, <2>2, SaveRunLogs
<1> QED BY <1>1, <1>2, <1>3, <1>4

LEMMA CreateLogs ==
    ASSUME DatabaseOK(Approved, db), NEW L, LogsOK(L, db), NEW p, PlanOK(Approved, db.next, p),
           NEW i \in p.todo
    PROVE  LogsGood(L, create(p.rq, i))
<1>1. i # 0 => IsFiniteSet(DOMAIN p.rq.config.runs[i].tasks)
  BY DEF PlanOK
<1> QED BY <1>1, CreateHandlerLogs DEF create

(* After a step that adds logs, one that doesn't, and one that ends a session. *)
LEMMA LogsGrow ==
    ASSUME LogsInv, NumbersInv', Logs \subseteq Logs', LogsOK(Logs', db'), s' = s
    PROVE  LogsInv'
<1>1. LoggedSessions(Logs', s)
  BY LoggedMore DEF LogsInv, LoggedSessions
<1> QED BY <1>1 DEF LogsInv

LEMMA LogsStep ==
    ASSUME LogsInv, NumbersInv', objects' = objects, deleted' = deleted, missing' = missing, LogsOK(Logs, db'),
           LoggedSessions(Logs, s')
    PROVE  LogsInv'
<1>1. Logs' = Logs
  BY DEF Logs
<1> QED BY <1>1 DEF LogsInv

LEMMA LoggedEnd ==
    ASSUME NEW L, DOMAIN s = Clients, LoggedSessions(L, s), NEW c \in Clients, end(c)
    PROVE  LoggedSessions(L, s')
BY DEF LoggedSessions, end, Idle

LEMMA LogsEnd ==
    ASSUME LogsInv, NumbersInv', objects' = objects, deleted' = deleted, missing' = missing, LogsOK(Logs, db'),
           NEW c \in Clients, end(c)
    PROVE  LogsInv'
<1>1. DOMAIN s = Clients
  BY DEF LogsInv, NumbersInv, ApprovalInv, SessionsOK
<1>2. LoggedSessions(Logs, s')
  BY <1>1, LoggedEnd DEF LogsInv
<1> QED BY <1>2, LogsStep

LEMMA AtCallLogs ==
    ASSUME LogsInv, NEW c \in Clients, NEW call, AtCall(c, call)
    PROVE  /\ DOMAIN s = Clients /\ s[c].on /\ DOMAIN s[c] = {"on", "plan"} /\ s[c].plan.call = call
           /\ PlanOK(Approved, db.next, s[c].plan)
           /\ s[c].plan.call = "save" => LoggedRun(Logs, s[c].plan.rb.run)
           /\ DatabaseOK(Approved, db) /\ LogsOK(Logs, db)
<1>1. NumbersInv /\ DatabaseOK(Approved, db)
  BY DEF LogsInv, NumbersInv, ApprovalInv
<1> QED BY <1>1, AtCallNumbers DEF LogsInv, LoggedSessions

LEMMA CallLogs ==
    ASSUME LogsInv, NumbersInv', NEW c \in Clients, Call(c)
    PROVE  LogsInv'
<1> DEFINE p == s[c].plan
<1>1. /\ p.call \in {"cancel", "stop", "approve", "save"} /\ PlanOK(Approved, db.next, p)
      /\ p.call = "save" => LoggedRun(Logs, p.rb.run)
      /\ DatabaseOK(Approved, db) /\ LogsOK(Logs, db)
  BY AtCallLogs DEF Call
<1>2. LogsGood(Logs, apply(p))
  BY <1>1, ApplyLogs
<1>3. LogsOK(Logs, db')
  BY <1>1, <1>2 DEF Call, commit, LogsGood
<1> QED BY <1>3, LogsEnd DEF Call

LEMMA CallLostLogs ==
    ASSUME LogsInv, NumbersInv', NEW c \in Clients, CallLost(c)
    PROVE  LogsInv'
<1> DEFINE p == s[c].plan
<1>1. /\ p.call \in {"approve", "save", "create"} /\ PlanOK(Approved, db.next, p)
      /\ p.call = "save" => LoggedRun(Logs, p.rb.run)
      /\ DatabaseOK(Approved, db) /\ LogsOK(Logs, db)
  BY AtCallLogs DEF CallLost
<1>2. p.call # "create" => LogsGood(Logs, apply(p))
  BY <1>1, ApplyLogs
<1>3. \A i \in p.todo : LogsGood(Logs, create(p.rq, i))
  BY <1>1, CreateLogs
<1> HIDE DEF p
<1>4. LogsOK(Logs, db')
  <2>1. CASE db' = db
    BY <1>1, <2>1
  <2>2. CASE p.call # "create" /\ RS!IsOK(apply(p)) /\ db' = apply(p)
    BY <1>2, <2>2 DEF LogsGood
  <2>3. CASE p.call = "create" /\ \E i \in p.todo : RS!IsOK(create(p.rq, i)) /\ db' = create(p.rq, i)
    BY <1>3, <2>3 DEF LogsGood
  <2> QED BY <2>1, <2>2, <2>3 DEF CallLost, commit, nextOf, p
<1> QED BY <1>4, LogsEnd DEF CallLost

LEMMA CreateNextLogs ==
    ASSUME LogsInv, NumbersInv', NEW c \in Clients, CreateNext(c)
    PROVE  LogsInv'
<1> DEFINE p == s[c].plan
<1>1. AtCall(c, "create") /\ objects' = objects /\ deleted' = deleted /\ missing' = missing
  BY DEF CreateNext
<1>2. /\ DOMAIN s = Clients /\ s[c].on /\ DOMAIN s[c] = {"on", "plan"} /\ p.call = "create"
      /\ PlanOK(Approved, db.next, p) /\ DatabaseOK(Approved, db) /\ LogsOK(Logs, db)
  BY <1>1, AtCallLogs
<1>3. CASE db' = db /\ end(c)
  BY <1>1, <1>2, <1>3, LogsEnd
<1>4. CASE ~(db' = db /\ end(c))
  <2>1. PICK i \in nextOf(p.todo) : /\ RS!IsOK(create(p.rq, i)) /\ db' = create(p.rq, i)
                                    /\ end(c) \/ s' = [s EXCEPT ![c].plan.todo = @ \ {i}]
    BY <1>4 DEF CreateNext
  <2>2. i \in p.todo
    BY DEF nextOf
  <2>3. LogsOK(Logs, db')
    BY <1>2, <2>1, <2>2, CreateLogs DEF LogsGood
  <2> SUFFICES ASSUME ~end(c) PROVE LogsInv'
    BY <1>1, <2>3, LogsEnd
  <2> DEFINE q == [p EXCEPT !.todo = p.todo \ {i}]
             x == [s[c] EXCEPT !.plan = q]
  <2>4. s' = [s EXCEPT ![c] = x]
    BY <2>1
  <2>5. q.call = "create"
    BY <1>2 DEF PlanOK, NoPlan
  <2>6. x.plan = q
    BY <1>2
  <2> HIDE DEF q, x
  <2>7. LoggedSessions(Logs, s')
    BY <1>2, <2>4, <2>5, <2>6 DEF LoggedSessions, LogsInv
  <2> QED BY <1>1, <2>3, <2>7, LogsStep
<1> QED BY <1>3, <1>4

LEMMA RecreateLogs ==
    ASSUME LogsInv, NumbersInv', NEW c \in Clients, RecreateRun(c)
    PROVE  LogsInv'
<1> DEFINE p == s[c].plan
<1>1. AtCall(c, "restart") /\ objects' = objects /\ deleted' = deleted /\ missing' = missing
  BY DEF RecreateRun, history
<1>2. /\ DOMAIN s = Clients /\ s[c].on /\ DOMAIN s[c] = {"on", "plan"}
      /\ PlanOK(Approved, db.next, p) /\ DatabaseOK(Approved, db) /\ LogsOK(Logs, db)
  BY <1>1, AtCallLogs
<1>3. CASE db' = db /\ end(c)
  BY <1>1, <1>2, <1>3, LogsEnd
<1>4. CASE ~(db' = db /\ end(c))
  <2>1. PICK a \in RS!recreateRun(db, p.run, p.arg) :
          s' = [s EXCEPT ![c].plan.call = "save", ![c].plan.rb = a.rb] /\ db' = a.d
    BY <1>4 DEF RecreateRun
  <2>2. LoggedRun(Logs, a.rb.run)
    BY <1>2, <2>1, RecreateRunLogs
  <2>3. LogsOK(Logs, db')
    BY <1>2, <2>1, RecreateRunOK, SameTables
  <2> DEFINE q == [p EXCEPT !.call = "save", !.rb = a.rb]
             x == [s[c] EXCEPT !.plan = q]
  <2>4. s' = [s EXCEPT ![c] = x]
    BY <1>2, <2>1
  <2>5. q.call = "save" /\ q.rb = a.rb
    BY <1>2 DEF PlanOK, NoPlan
  <2>6. x.plan = q
    BY <1>2
  <2> HIDE DEF q, x
  <2>7. LoggedSessions(Logs, s')
    BY <1>2, <2>2, <2>4, <2>5, <2>6 DEF LoggedSessions, LogsInv
  <2> QED BY <1>1, <2>3, <2>7, LogsStep
<1> QED BY <1>3, <1>4

LEMMA ArriveLogs ==
    ASSUME LogsInv, NumbersInv', NEW c \in Clients, Arrive(c)
    PROVE  LogsInv'
<1>1. PICK rq, p : p \in Route(db, rq, cfg) /\ s' = [s EXCEPT ![c] = [on |-> TRUE, plan |-> p]]
  BY DEF Arrive
<1>2. db' = db /\ objects' = objects /\ deleted' = deleted /\ missing' = missing
  BY DEF Arrive
<1>3. FiniteConfig(cfg) /\ DOMAIN s = Clients /\ LogsOK(Logs, db) /\ LoggedSessions(Logs, s)
  BY DEF LogsInv, NumbersInv, ApprovalInv, SessionsOK
<1>4. p.call # "save"
  BY <1>1, <1>3, RouteOK DEF RoutedOK
<1>5. LoggedSessions(Logs, s')
  BY <1>1, <1>3, <1>4 DEF LoggedSessions
<1> QED BY <1>2, <1>3, <1>5, LogsStep

LEMMA DeleteLogsCallLogs ==
    ASSUME LogsInv, NumbersInv', NEW c \in Clients, DeleteLogsCall(c)
    PROVE  LogsInv'
<1> DEFINE p == s[c].plan
           kept == RS!LogsDeleteHandler(db, objects,
                       [run |-> p.run, task |-> p.task, part |-> p.arg])
<1>1. /\ db' = db /\ end(c) /\ objects' = kept /\ deleted' = deleted \cup (objects \ kept)
      /\ missing' = missing
  BY DEF DeleteLogsCall
<1> HIDE DEF kept
<1>2. Logs \subseteq Logs'
  BY <1>1 DEF Logs
<1>3. DOMAIN s = Clients /\ LogsOK(Logs, db) /\ LoggedSessions(Logs, s)
  BY DEF LogsInv, NumbersInv, ApprovalInv, SessionsOK
<1>4. LoggedSessions(Logs', s)
  BY <1>2, <1>3, LoggedMore DEF LoggedSessions
<1>5. LoggedSessions(Logs', s')
  BY <1>1, <1>3, <1>4, LoggedEnd
<1>6. LogsOK(Logs', db')
  BY <1>1, <1>2, <1>3, LogsMore
<1> QED BY <1>5, <1>6 DEF LogsInv

LEMMA ReadLogsLogs ==
    ASSUME LogsInv, NumbersInv', NEW c \in Clients, ReadLogs(c)
    PROVE  LogsInv'
<1>1. db' = db /\ objects' = objects /\ deleted' = deleted /\ missing' = missing
  BY DEF ReadLogs, history
<1>2. ApprovalInv /\ DOMAIN s = Clients /\ LogsOK(Logs, db) /\ LoggedSessions(Logs, s)
  BY DEF LogsInv, NumbersInv, ApprovalInv, SessionsOK
<1>3. CASE end(c)
  BY <1>1, <1>2, <1>3, LogsEnd
<1>4. CASE ~end(c)
  <2>1. PICK x : s' = [s EXCEPT ![c] = x] /\ x.plan.call = "executorlog"
    BY <1>2, <1>4, ReadLogsPlan
  <2>2. LoggedSessions(Logs, s')
    BY <1>2, <2>1 DEF LoggedSessions
  <2> QED BY <1>1, <1>2, <2>2, LogsStep
<1> QED BY <1>3, <1>4

LEMMA InitialLogs == ASSUME Init PROVE LogsInv
<1>1. NumbersInv
  BY InitialNumbers
<1>2. /\ scene \in DOMAIN Scenarios /\ db = Start(Scenarios[scene].start)
      /\ s = [c \in Clients |-> Idle]
  BY DEF Init
<1>3. LogsOK({}, db)
  BY <1>2, LogsAssumption
<1>4. LogsOK(Logs, db)
  BY <1>3, LogsMore
<1>5. LoggedSessions(Logs, s)
  BY <1>2 DEF LoggedSessions, Idle
<1> QED BY <1>1, <1>4, <1>5 DEF LogsInv

LEMMA LogsInvKept == ASSUME LogsInv, [Next]_vars PROVE LogsInv'
<1>1. DatabaseOK(Approved, db) /\ LogsOK(Logs, db) /\ LoggedSessions(Logs, s) /\ NumbersInv
  BY DEF LogsInv, NumbersInv, ApprovalInv
<1>2. NumbersInv'
  BY <1>1, NumbersInvKept
<1>3. ASSUME LogsOK(Logs, db'), objects' = objects, deleted' = deleted, missing' = missing, s' = s PROVE LogsInv'
  BY <1>1, <1>2, <1>3, LogsStep
<1>4. ASSUME db' = db, objects' = objects, deleted' = deleted, missing' = missing, s' = s PROVE LogsInv'
  BY <1>1, <1>3, <1>4
<1>5. ASSUME NEW c \in Clients, Arrive(c) PROVE LogsInv'
  BY <1>2, <1>5, ArriveLogs
<1>6. ASSUME NEW c \in Clients, Call(c) PROVE LogsInv'
  BY <1>2, <1>6, CallLogs
<1>7. ASSUME NEW c \in Clients, CreateNext(c) PROVE LogsInv'
  BY <1>2, <1>7, CreateNextLogs
<1>8. ASSUME NEW c \in Clients, RecreateRun(c) PROVE LogsInv'
  BY <1>2, <1>8, RecreateLogs
<1>9. ASSUME NEW c \in Clients, DeleteLogsCall(c) PROVE LogsInv'
  BY <1>2, <1>9, DeleteLogsCallLogs
<1>10. ASSUME NEW c \in Clients, CallLost(c) PROVE LogsInv'
  BY <1>2, <1>10, CallLostLogs
<1>11. CASE StartRun
  BY <1>1, <1>3, <1>11, StartRunLogs DEF StartRun, history
<1>12. CASE ReadApprovals
  BY <1>1, <1>3, <1>12, ReadApprovalsLogs DEF ReadApprovals, history
<1>13. CASE ApproveTask
  BY <1>1, <1>3, <1>13, ApproveTaskLogs DEF ApproveTask, history
<1>14. CASE compactChangeGroups
  BY <1>1, <1>3, <1>14, CompactLogs DEF compactChangeGroups, history
<1>15. CASE AdvanceRun
  BY <1>1, <1>3, <1>15, AdvanceRunLogs DEF AdvanceRun, history
<1>16. CASE SubmitTask
  BY <1>1, <1>3, <1>16, SubmitTaskLogs DEF SubmitTask, history
<1>17. CASE TaskEnds
  <2>1. s' = s /\ Logs \subseteq Logs'
    BY <1>17 DEF TaskEnds, history, Logs
  <2>2. LogsOK(Logs', db)
    BY <1>1, <2>1, LogsMore
  <2>3. LogsOK(Logs', db')
    BY <1>1, <1>17, <2>2, TaskEndsLogs
  <2> QED BY <1>2, <2>1, <2>3, LogsGrow
<1>18. CASE TaskFetcher
  <2>1. LogsOK(Logs', db') /\ Logs \subseteq Logs' /\ s' = s
    BY <1>1, <1>18, TaskFetcherLogs DEF TaskFetcher
  <2> QED BY <1>2, <2>1, LogsGrow
<1>19. CASE DropExecutorTask
  BY <1>1, <1>3, <1>19, DropExecutorTaskLogs DEF DropExecutorTask, history
<1>20. CASE finishedRunArchiver
  BY <1>1, <1>3, <1>20, ArchiverLogs DEF finishedRunArchiver, history
<1>21. ASSUME NEW n \in Notifiers, Connect(n) \/ SendRunEvents(n) \/ Disconnect(n)
       PROVE  LogsInv'
  BY <1>4, <1>21 DEF Connect, SendRunEvents, Disconnect, history
<1>22. ASSUME NEW n \in Notifiers, HandleEvent(n) \/ EventFails(n) PROVE LogsInv'
  BY <1>4, <1>22 DEF HandleEvent, EventFails, history
<1>23. CASE UNCHANGED vars
  BY <1>4, <1>23 DEF vars, history
<1>24. ASSUME NEW c \in Clients, ReadLogs(c) PROVE LogsInv'
  BY <1>2, <1>24, ReadLogsLogs
<1>25. ASSUME NEW c \in Clients, ReadExecutorLog(c) PROVE LogsInv'
  BY <1>1, <1>2, <1>25, LogsEnd DEF ReadExecutorLog, history
<1>26. CASE ExecutorLoses
  <2>1. db' = db /\ s' = s /\ Logs \subseteq Logs'
    BY <1>26 DEF ExecutorLoses, history, Logs
  <2>2. LogsOK(Logs', db')
    BY <1>1, <2>1, LogsMore
  <2> QED BY <1>2, <2>1, <2>2, LogsGrow
<1> QED BY <1>5, <1>6, <1>7, <1>8, <1>9, <1>10, <1>11, <1>12, <1>13, <1>14, <1>15, <1>16, <1>17,
           <1>18, <1>19, <1>20, <1>21, <1>22, <1>23, <1>24, <1>25, <1>26 DEF Next

-----------------------------------------------------------------------------
(* What the logs say of a request for one of them *)

(* A task that was executed has its executor task, or its log is stored. *)
LEMMA LogSomewhere ==
    ASSUME LogsInv, NEW r \in db.run, NEW t \in DOMAIN r.tasks, NEW part \in RS!LogParts,
           r.tasks[t].status \in Executed, RS!logPath(t, part) \notin deleted,
           RS!logPath(t, part) \in missing => r.tasks[t].step /\ RS!logPath(t, part) \in objects
    PROVE  /\ r.tasks[t].step => RS!logPath(t, part) \in objects
                                 \/ (part = "setup" /\ ~r.tasks[t].setup)
           /\ \/ r.tasks[t].step /\ RS!logPath(t, part) \in objects
              \/ RS!readExecutorLog(db, missing, r.id, t, part) = "executor"
<1> DEFINE path == RS!logPath(t, part)
<1>1. LogsOK(Logs, db)
  BY DEF LogsInv
<1>2. TaskLogsOK(Logs, r.phase, t, r.tasks[t])
  BY <1>1 DEF LogsOK
<1>3. part \in {"setup", "step"}
  BY DEF RS!LogParts
<1>4. r.tasks[t].step /\ (part = "step" \/ r.tasks[t].setup) => path \in objects
  BY <1>2, <1>3 DEF TaskLogsOK, Stored, Logs
<1>5. CASE path \in objects /\ r.tasks[t].step
  BY <1>5
<1>6. CASE ~(path \in objects /\ r.tasks[t].step)
  <2>1. Awaited(r, t)
    BY <1>3, <1>4, <1>6 DEF Awaited, RS!LogsFetchFinished
  <2>2. PICK x \in db.executortask : x.run = r.id /\ x.id = t
    BY <1>1, <2>1 DEF LogsOK
  <2>3. RS!GetExecutorTaskByRunTask(db, r.id, t) # {}
    BY <2>2 DEF RS!GetExecutorTaskByRunTask, RS!fetchExecutorTasks
  <2>4. RS!readExecutorLog(db, missing, r.id, t, part) = "executor"
    BY <1>6, <2>3 DEF RS!readExecutorLog
  <2> QED BY <1>3, <1>4, <2>4
<1> QED BY <1>5, <1>6

(* What a request that finds the run is told. *)
LEMMA ServedLog ==
    ASSUME LogsInv, NEW r \in db.run, NEW t \in DOMAIN r.tasks, NEW part \in RS!LogParts,
           NEW objs
    PROVE  RS!readTaskLogs(db, objs, r.id, t, part) =
             IF ~r.tasks[t].step THEN "executor"
             ELSE IF RS!logPath(t, part) \in objs THEN "store" ELSE "notexist"
<1> DEFINE runs == {o \in RS!GetRun(db, r.id) : t \in DOMAIN o.tasks /\ part \in RS!LogParts}
<1>1. DatabaseOK(Approved, db)
  BY DEF LogsInv, NumbersInv, ApprovalInv
<1>2. runs = {r}
  BY <1>1 DEF DatabaseOK, RS!GetRun, RS!fetchRuns
<1>3. RS!The(runs) = r
  BY <1>2 DEF RS!The
<1> QED BY <1>2, <1>3 DEF RS!readTaskLogs

LEMMA LogsInvGivesServed == ASSUME LogsInv PROVE LogsServed
<1> DEFINE path(t, part) == RS!logPath(t, part)
           request(r, t, part) == [base |-> GroupTypeIDFromRunGroup(r.group),
                                   number |-> r.counter, task |-> t, part |-> part]
<1> SUFFICES ASSUME NEW r \in db.run, NEW t \in DOMAIN r.tasks, NEW part \in RS!LogParts,
                    r.tasks[t].status \in Executed, path(t, part) \notin deleted,
                    path(t, part) \in missing => r.tasks[t].step /\ path(t, part) \in objects
             PROVE  /\ \/ part = "setup" /\ r.tasks[t].step /\ ~r.tasks[t].setup
                       \/ {logAnswer(p) : p \in GetLogs(db, request(r, t, part))}
                            \in {{"store"}, {"executor"}}
                    /\ \A c \in Clients :
                         /\ AtCall(c, "executorlog") /\ s[c].plan.run = r.id
                         /\ s[c].plan.task = t /\ s[c].plan.arg = part
                         => \/ r.tasks[t].step /\ path(t, part) \in objects
                            \/ executorAnswer(s[c].plan) = "executor"
  BY Zenon DEF LogsServed
<1>1. /\ r.tasks[t].step => path(t, part) \in objects \/ (part = "setup" /\ ~r.tasks[t].setup)
      /\ \/ r.tasks[t].step /\ path(t, part) \in objects
         \/ RS!readExecutorLog(db, missing, r.id, t, part) = "executor"
  BY LogSomewhere
<1>2. \A p : p.run = r.id /\ p.task = t /\ p.arg = part =>
              executorAnswer(p) = RS!readExecutorLog(db, missing, r.id, t, part)
  BY DEF executorAnswer
<1>3. ASSUME ~(part = "setup" /\ r.tasks[t].step /\ ~r.tasks[t].setup)
      PROVE  {logAnswer(p) : p \in GetLogs(db, request(r, t, part))} \in {{"store"}, {"executor"}}
  <2> DEFINE rq == request(r, t, part)
             p == Plan("logs", r.id, t, part)
  <2>1. /\ rq.base = GroupTypeIDFromRunGroup(r.group) /\ rq.number = r.counter
        /\ rq.task = t /\ rq.part = part
    OBVIOUS
  <2> HIDE DEF rq
  <2>2. PICK a : GetRun(db, rq) = {a} /\ a.run = r
    BY <2>1, FoundByNumber DEF LogsInv
  <2>3. GetLogs(db, rq) = {p}
    BY <2>1, <2>2 DEF GetLogs, GetRun
  <2>4. p.run = r.id /\ p.task = t /\ p.arg = part
    BY DEF Plan, NoPlan
  <2> HIDE DEF p
  <2>5. RS!LogsHandler(db, objects, [run |-> p.run, task |-> p.task, part |-> p.arg])
          = RS!readTaskLogs(db, objects, r.id, t, part)
    BY <2>4 DEF RS!LogsHandler
  <2>6. logAnswer(p) \in {"store", "executor"}
    BY <1>1, <1>2, <1>3, <2>4, <2>5, ServedLog DEF logAnswer
  <2>7. {logAnswer(x) : x \in GetLogs(db, rq)} = {logAnswer(p)}
    BY <2>3
  <2> QED BY <2>6, <2>7 DEF rq
<1> QED BY <1>1, <1>2, <1>3

-----------------------------------------------------------------------------
(* In every reachable state the gateway answers a request for the log of a  *)
(* task that was executed, from the executor or from the object store,      *)
(* until the log is deleted: however the task's end, the rounds of the      *)
(* fetcher, the removal of the executor task, restarts that keep the task,  *)
(* and deletions interleave, and whichever fetches fail.  One whose second  *)
(* read finds no executor task any more finds the log in the object store   *)
(* when it is made again.  The logs that the executor lost before they were *)
(* fetched are excepted, and the setup log while it is not fetched and the  *)
(* step's is.                                                               *)
THEOREM LogsAlwaysServed == Spec => []LogsServed
<1>1. Init => LogsInv
  BY InitialLogs
<1>2. LogsInv /\ [Next]_vars => LogsInv'
  BY LogsInvKept
<1>3. LogsInv => LogsServed
  BY LogsInvGivesServed
<1> QED BY <1>1, <1>2, <1>3, PTL DEF Spec

-----------------------------------------------------------------------------
(* COMMIT STATUSES *)

(* A connection has been sent the events up to its cursor; those in `sent'   *)
(* are still to be handled.                                                  *)
handled(c) == c.cursor - Len(c.sent)
StreamOK(d, c) ==
    /\ DOMAIN c = {"on", "start", "cursor", "sent", "missed"}
    /\ c.start \in Nat /\ c.cursor \in Nat /\ c.sent \in Seq(d.runevent)
    /\ c.start <= handled(c) /\ c.cursor <= eventsOf(d)
    /\ \A i \in DOMAIN c.sent : c.sent[i].id = handled(c) + i

(* Of the events handled with a status for a commit's context, the last is *)
(* the one posted, unless it is of a user's run or its report failed.      *)
TellsStatus(d, e, x) == e \in d.runevent /\ x \in Reports(d) /\ x.id = e.run /\ commitStatus(e) # ""
Latest(d, e, x, h) ==
    \A f, y : TellsStatus(d, f, y) /\ statusKey(y) = statusKey(x) /\ f.id <= h => f.id <= e.id
PostedOK(d, p, c) ==
    \A e, x : TellsStatus(d, e, x) /\ x.group[1] # "user" /\ e.id > c.start /\ e.id <= handled(c)
              /\ Latest(d, e, x, handled(c)) /\ e.id \notin c.missed
              => [key |-> statusKey(x), status |-> commitStatus(e)] \in p

SavedReports(ss) ==
    \A c \in Clients : ss[c].on /\ ss[c].plan.call = "save" => ReportOK(ss[c].plan.rb.run)

StatusInv ==
    /\ NumbersInv /\ EventsOK(db) /\ SavedReports(s)
    /\ DOMAIN conn = Notifiers
    /\ \A n \in Notifiers : conn[n].on =>
         lock = {n} /\ StreamOK(db, conn[n]) /\ PostedOK(db, posted, conn[n])

-----------------------------------------------------------------------------
(* A step from d to e keeps the events and what is reported of the runs, or *)
(* tells of v: a run that is new, or has a new phase or result.             *)
KeepsEvents(d, e) ==
    /\ Reports(e) = Reports(d) /\ e.runevent = d.runevent /\ eventsOf(e) = eventsOf(d)

SameReport(x, v) == x.sha = v.sha /\ x.name = v.name /\ x.group = v.group
Tells(d, e, v) ==
    /\ eventsOf(e) = eventsOf(d) + 1
    /\ \E ev : /\ ev.id = eventsOf(d) + 1 /\ ev.run = v.id
               /\ ev.phase = v.phase /\ ev.result = v.result
               /\ e.runevent = d.runevent \cup {ev}
    /\ Reports(e) = {x \in Reports(d) : x.id # v.id} \cup {v}
    /\ ReportOK(v)
    /\ \A x \in Reports(d) : x.id = v.id =>
          SameReport(x, v) /\ (commitStatus(v) = "" => statusNow(x) = statusNow(v))
Moves(d, e) == KeepsEvents(d, e) \/ \E v : Tells(d, e, v)

LEMMA StatusOfReport ==
    ASSUME NEW v, ReportOK(v), commitStatus(v) # ""
    PROVE  commitStatus(v) = statusNow(v)
<1>1. CASE v.phase = "setuperror"
  <2>1. commitStatus(v) = "error"
    BY <1>1 DEF commitStatus
  <2>2. statusNow(v) = "error"
    BY <1>1 DEF statusNow
  <2> QED BY <2>1, <2>2
<1>2. CASE v.phase = "queued"
  BY <1>2 DEF commitStatus, statusNow
<1>3. CASE v.phase = "cancelled"
  <2>1. commitStatus(v) = "error"
    BY <1>3 DEF commitStatus
  <2>2. statusNow(v) = "error"
    BY <1>3 DEF statusNow
  <2> QED BY <2>1, <2>2
<1>4. CASE v.phase = "running"
  BY <1>4 DEF commitStatus, statusNow
<1>5. CASE v.phase = "finished"
  BY <1>5 DEF ReportOK, commitStatus, statusNow
<1> QED BY <1>1, <1>2, <1>3, <1>4, <1>5 DEF ReportOK

LEMMA EventsKept ==
    ASSUME NEW d, EventsOK(d), \A a, b \in Reports(d) : a.id = b.id => a = b, NEW e, Moves(d, e)
    PROVE  EventsOK(e)
<1>1. CASE KeepsEvents(d, e)
  BY <1>1 DEF KeepsEvents, EventsOK, told
<1>2. ASSUME NEW v, Tells(d, e, v) PROVE EventsOK(e)
  <2> DEFINE m == eventsOf(d)
  <2>1. PICK ev : /\ ev.id = m + 1 /\ ev.run = v.id
                  /\ ev.phase = v.phase /\ ev.result = v.result
                  /\ e.runevent = d.runevent \cup {ev}
    BY <1>2 DEF Tells
  <2>2. m \in Nat /\ eventsOf(e) = m + 1
    BY <1>2 DEF Tells, EventsOK
  <2>3. \A x \in Reports(e) : x = v \/ (x \in Reports(d) /\ x.id # v.id)
    BY <1>2 DEF Tells
  <2>4. v \in Reports(e) /\ \A x \in Reports(d) : x.id # v.id => x \in Reports(e)
    BY <1>2 DEF Tells
  <2>5. ReportOK(v)
    BY <1>2 DEF Tells
  <2>6. \A f \in d.runevent : f.id \in 1 .. m /\ \E x \in Reports(d) : x.id = f.run
    BY DEF EventsOK
  <2>7. commitStatus(ev) = commitStatus(v)
    BY <2>1 DEF commitStatus
  <2> HIDE DEF m
  <2>8. ASSUME NEW f \in e.runevent
        PROVE  f.id \in 1 .. m + 1 /\ \E x \in Reports(e) : x.id = f.run
    <3>1. CASE f = ev
      BY <2>1, <2>2, <2>4, <3>1
    <3>2. CASE f \in d.runevent
      BY <2>2, <2>4, <2>6, <3>2
    <3> QED BY <2>1, <3>1, <3>2
  <2>9. ASSUME NEW a \in e.runevent, NEW b \in e.runevent, a.id = b.id PROVE a = b
    <3>1. \A f \in d.runevent : f.id # ev.id
      BY <2>1, <2>2, <2>6
    <3> QED BY <2>1, <2>9, <3>1 DEF EventsOK
  <2>10. ASSUME NEW i \in 1 .. m + 1 PROVE \E f \in e.runevent : f.id = i
    <3>1. CASE i = m + 1
      BY <2>1, <3>1
    <3>2. CASE i # m + 1
      <4>1. i \in 1 .. m
        BY <2>2, <3>2
      <4> QED BY <2>1, <4>1 DEF EventsOK, m
    <3> QED BY <3>1, <3>2
  <2>11. ASSUME NEW x \in Reports(e), NEW f \in told(e, x.id),
                \A g \in told(e, x.id) : g.id <= f.id
         PROVE  commitStatus(f) = statusNow(x)
    <3>1. CASE x # v
      <4>1. x \in Reports(d) /\ x.id # v.id
        BY <2>3, <3>1
      <4>2. told(e, x.id) = told(d, x.id)
        BY <2>1, <4>1 DEF told
      <4> QED BY <2>11, <4>1, <4>2 DEF EventsOK
    <3>2. CASE x = v /\ commitStatus(v) # ""
      <4>1. ev \in told(e, x.id)
        BY <2>1, <2>7, <3>2 DEF told
      <4>2. f = ev
        <5>1. ev.id <= f.id
          BY <2>11, <4>1
        <5>2. f \in e.runevent
          BY DEF told
        <5> QED BY <2>1, <2>2, <2>6, <5>1, <5>2
      <4> QED BY <2>5, <2>7, <3>2, <4>2, StatusOfReport
    <3>3. CASE x = v /\ commitStatus(v) = ""
      <4>1. told(e, x.id) = told(d, x.id)
        BY <2>1, <2>7, <3>3 DEF told
      <4>2. f \in d.runevent /\ f.run = x.id
        BY <4>1 DEF told
      <4>3. PICK y \in Reports(d) : y.id = x.id
        BY <2>6, <4>2
      <4>4. statusNow(y) = statusNow(v)
        BY <1>2, <3>3, <4>3 DEF Tells
      <4>5. commitStatus(f) = statusNow(y)
        BY <2>11, <4>1, <4>3 DEF EventsOK
      <4> QED BY <3>3, <4>4, <4>5
    <3> QED BY <3>1, <3>2, <3>3
  <2>12. \A x \in Reports(e) : ReportOK(x)
    BY <2>3, <2>5 DEF EventsOK
  <2> QED BY <2>2, <2>8, <2>9, <2>10, <2>11, <2>12 DEF EventsOK, m
<1> QED BY <1>1, <1>2 DEF Moves

(* What was handled of the stream and posted stays so. *)
LEMMA StreamKept ==
    ASSUME NEW d, EventsOK(d), NEW e, Moves(d, e), NEW c, StreamOK(d, c), NEW p, PostedOK(d, p, c)
    PROVE  StreamOK(e, c) /\ PostedOK(e, p, c)
<1>1. CASE KeepsEvents(d, e)
  BY <1>1 DEF KeepsEvents, StreamOK, PostedOK, TellsStatus, Latest
<1>2. ASSUME NEW v, Tells(d, e, v) PROVE StreamOK(e, c) /\ PostedOK(e, p, c)
  <2> DEFINE m == eventsOf(d)
             h == handled(c)
  <2>1. PICK ev : ev.id = m + 1 /\ ev.run = v.id /\ e.runevent = d.runevent \cup {ev}
    BY <1>2 DEF Tells
  <2>2. m \in Nat /\ eventsOf(e) = m + 1
    BY <1>2 DEF Tells, EventsOK
  <2>3. /\ c.start \in Nat /\ c.cursor \in Nat /\ c.sent \in Seq(d.runevent)
        /\ c.start <= h /\ c.cursor <= m /\ h \in Int /\ h <= m
    BY <2>2 DEF StreamOK, handled
  <2>4. c.sent \in Seq(e.runevent)
    BY <2>1, <2>3
  <2>5. StreamOK(e, c)
    BY <2>2, <2>3, <2>4 DEF StreamOK
  <2>6. ASSUME NEW x \in Reports(e) PROVE x = v \/ x \in Reports(d)
    BY <1>2 DEF Tells
  <2>7. ASSUME NEW x \in Reports(d)
        PROVE  \E y \in Reports(e) : y.id = x.id /\ SameReport(x, y)
    <3>1. CASE x.id = v.id
      <4>1. v \in Reports(e) /\ SameReport(x, v)
        BY <1>2, <3>1 DEF Tells
      <4> QED BY <3>1, <4>1
    <3>2. CASE x.id # v.id
      BY <1>2, <3>2 DEF Tells, SameReport
    <3> QED BY <3>1, <3>2
  <2>8. ASSUME NEW f \in d.runevent PROVE \E x \in Reports(d) : x.id = f.run
    BY DEF EventsOK
  <2> HIDE DEF m, h
  <2>9. ASSUME NEW f, NEW y, TellsStatus(e, f, y), f.id <= h
        PROVE  \E x : TellsStatus(d, f, x) /\ SameReport(x, y)
    <3>1. f \in d.runevent
      <4>1. f \in e.runevent
        BY <2>9 DEF TellsStatus
      <4>2. f # ev
        BY <2>1, <2>2, <2>3, <2>9
      <4> QED BY <2>1, <4>1, <4>2
    <3>2. y \in Reports(e) /\ y.id = f.run /\ commitStatus(f) # ""
      BY <2>9 DEF TellsStatus
    <3>3. CASE y = v
      <4>1. PICK x \in Reports(d) : x.id = f.run
        BY <2>8, <3>1
      <4>2. SameReport(x, v)
        BY <1>2, <3>2, <3>3, <4>1 DEF Tells
      <4> QED BY <3>1, <3>2, <3>3, <4>1, <4>2 DEF TellsStatus
    <3>4. CASE y \in Reports(d)
      BY <3>1, <3>2, <3>4 DEF TellsStatus, SameReport
    <3> QED BY <2>6, <3>2, <3>3, <3>4
  <2>10. ASSUME NEW f, NEW y, TellsStatus(d, f, y)
         PROVE  \E x : TellsStatus(e, f, x) /\ SameReport(y, x)
    BY <2>1, <2>7, <2>10 DEF TellsStatus
  <2>11. ASSUME NEW f, NEW y, TellsStatus(e, f, y), y.group[1] # "user", f.id > c.start, f.id <= h,
                Latest(e, f, y, h), f.id \notin c.missed
         PROVE  [key |-> statusKey(y), status |-> commitStatus(f)] \in p
    <3>1. PICK x : TellsStatus(d, f, x) /\ SameReport(x, y)
      BY <2>9, <2>11
    <3>2. statusKey(x) = statusKey(y) /\ x.group = y.group
      BY <3>1 DEF SameReport, statusKey
    <3>3. Latest(d, f, x, h)
      <4> SUFFICES ASSUME NEW g, NEW z, TellsStatus(d, g, z), statusKey(z) = statusKey(x), g.id <= h
                   PROVE  g.id <= f.id
        BY DEF Latest
      <4>1. PICK w : TellsStatus(e, g, w) /\ SameReport(z, w)
        BY <2>10
      <4>2. statusKey(w) = statusKey(y)
        BY <3>2, <4>1 DEF SameReport, statusKey
      <4> QED BY <2>11, <4>1, <4>2 DEF Latest
    <3> QED BY <2>11, <3>1, <3>2, <3>3 DEF PostedOK, h
  <2> QED BY <2>5, <2>11 DEF PostedOK, h
<1> QED BY <1>1, <1>2 DEF Moves

LEMMA KeptEventsTwice ==
    ASSUME NEW c, NEW d, KeepsEvents(c, d), NEW e, KeepsEvents(d, e)
    PROVE  KeepsEvents(c, e)
BY DEF KeepsEvents

LEMMA MovesAfter ==
    ASSUME NEW c, NEW d, KeepsEvents(c, d), NEW e, Moves(d, e)
    PROVE  Moves(c, e)
<1>1. CASE KeepsEvents(d, e)
  BY <1>1, KeptEventsTwice DEF Moves
<1>2. ASSUME NEW v, Tells(d, e, v) PROVE Tells(c, e, v)
  BY <1>2 DEF Tells, KeepsEvents
<1> QED BY <1>1, <1>2 DEF Moves

(* A write to another table. *)
LEMMA WriteEvents ==
    ASSUME NEW d, Shape(d), NEW rows, NEW k \in RS!Tables \ {"run", "sequence", "runevent"}
    PROVE  KeepsEvents(d, RS!write(d, k, rows))
<1>1. {"run", "sequence", "runevent"} \subseteq RS!Tables
  BY DEF RS!Tables
<1> DEFINE e == RS!write(d, k, rows)
<1>2. e.run = d.run /\ e.sequence = d.sequence /\ e.runevent = d.runevent
  BY <1>1, WriteShape
<1> HIDE DEF e
<1>3. KeepsEvents(d, e)
  BY <1>2 DEF KeepsEvents, Reports, eventsOf, RS!GetSequence, RS!fetchSequences
<1> QED BY <1>3 DEF e

LEMMA WithoutEvents ==
    ASSUME NEW d, Shape(d), NEW ids, NEW k \in RS!Tables \ {"run", "sequence", "runevent"}
    PROVE  KeepsEvents(d, RS!without(d, k, ids))
<1>1. {"run", "sequence", "runevent"} \subseteq RS!Tables
  BY DEF RS!Tables
<1> DEFINE e == RS!without(d, k, ids)
<1>2. e.run = d.run /\ e.sequence = d.sequence /\ e.runevent = d.runevent
  BY <1>1, WithoutShape
<1> HIDE DEF e
<1>3. KeepsEvents(d, e)
  BY <1>2 DEF KeepsEvents, Reports, eventsOf, RS!GetSequence, RS!fetchSequences
<1> QED BY <1>3 DEF e

LEMMA FreshEvents ==
    ASSUME NEW d, Shape(d), NEW n
    PROVE  KeepsEvents(d, RS!Fresh(d, n))
BY DEF Shape, KeepsEvents, RS!Fresh, RS!Tables, Reports, eventsOf, RS!GetSequence,
       RS!fetchSequences

LEMMA ChangeGroupsEvents ==
    ASSUME NEW d, Shape(d), d.next \in Nat, NEW token, RS!IsOK(RS!UpdateChangeGroups(d, token))
    PROVE  KeepsEvents(d, RS!UpdateChangeGroups(d, token))
<1> DEFINE d1 == RS!Fresh(d, 1)
           rows == {[id |-> o.id, value |-> d.next] : o \in token}
           d2 == RS!write(d1, "changegroup", rows)
<1>1. KeepsEvents(d, d)
  BY DEF KeepsEvents
<1>2. KeepsEvents(d, d1) /\ Shape(d1)
  BY FreshEvents, FreshSame DEF Same
<1>3. KeepsEvents(d1, d2)
  BY <1>2, WriteEvents DEF RS!Tables
<1>4. RS!UpdateChangeGroups(d, token) \in {d, d2, RS!Refused}
  BY <1>2, ShapeOK DEF RS!UpdateChangeGroups, RS!InsertOrUpdateChangeGroup, RS!insertOrUpdate
<1> QED BY <1>1, <1>2, <1>3, <1>4, KeptEventsTwice, RefusedNotOK

LEMMA GroupTokensEvents ==
    ASSUME NEW d, Shape(d), d.next \in Nat, NEW names
    PROVE  KeepsEvents(d, RS!GetChangeGroupsUpdateTokens(d, names))
<1> DEFINE d1 == RS!Fresh(d, 1)
           rows == {[id |-> n, value |-> d.next] :
                      n \in {x \in names : ~RS!HasID(d, "changegroup", x)}}
           d2 == RS!write(d1, "changegroup", rows)
<1>1. KeepsEvents(d, d)
  BY DEF KeepsEvents
<1>2. KeepsEvents(d, d1) /\ Shape(d1)
  BY FreshEvents, FreshSame DEF Same
<1>3. KeepsEvents(d1, d2)
  BY <1>2, WriteEvents DEF RS!Tables
<1>4. RS!GetChangeGroupsUpdateTokens(d, names) \in {d, d2}
  BY <1>2, ShapeOK
  DEF RS!GetChangeGroupsUpdateTokens, RS!InsertOrUpdateChangeGroup, RS!insertOrUpdate
<1> QED BY <1>1, <1>2, <1>3, <1>4, KeptEventsTwice

(* An event has the next number. *)
LEMMA EventAdded ==
    ASSUME NEW d, Shape(d), NEW run, RS!IsOK(RS!withEvent(d, run))
    PROVE  /\ RS!withEvent(d, run).run = d.run
           /\ eventsOf(RS!withEvent(d, run)) = eventsOf(d) + 1
           /\ \E ev : /\ ev.id = eventsOf(d) + 1 /\ ev.run = run.id
                      /\ ev.phase = run.phase /\ ev.result = run.result
                      /\ RS!withEvent(d, run).runevent = d.runevent \cup {ev}
<1> DEFINE seq == RS!NextSequence(d, "runevent")
           ev == RS!NewRunEvent(d, run)
           d1 == RS!write(d, "sequence", {seq})
           d2 == RS!write(d1, "runevent", {ev})
           e == RS!withEvent(d, run)
<1>1. /\ seq.id = "runevent" /\ seq.value = eventsOf(d) + 1
      /\ RS!valueOf({seq}) = eventsOf(d) + 1
  BY NextRow DEF RS!NextSequence, eventsOf
<1>2. ev.id = eventsOf(d) + 1 /\ ev.run = run.id /\ ev.phase = run.phase /\ ev.result = run.result
  BY <1>1 DEF RS!NewRunEvent
<1>3. RS!InsertOrUpdateSequence(d, seq) = d1
  BY ShapeOK DEF RS!InsertOrUpdateSequence, RS!insertOrUpdate
<1> HIDE DEF seq, ev
<1>4. /\ Shape(d1) /\ d1.run = d.run /\ d1.runevent = d.runevent
      /\ d1.sequence = {o \in d.sequence : o.id # seq.id} \cup {seq}
  BY WriteShape DEF RS!Tables
<1> HIDE DEF d1
<1>5. e = RS!InsertRunEvent(d1, ev)
  BY <1>3 DEF RS!withEvent, seq, ev
<1>6. e = d2 /\ ~RS!HasID(d1, "runevent", ev.id)
  BY <1>5, RefusedNotOK DEF RS!InsertRunEvent, RS!insert
<1> HIDE DEF e
<1>7. /\ e.run = d1.run /\ e.sequence = d1.sequence
      /\ e.runevent = {o \in d1.runevent : o.id # ev.id} \cup {ev}
  BY <1>4, <1>6, WriteShape DEF RS!Tables
<1>8. {o \in d1.runevent : o.id # ev.id} = d.runevent
  BY <1>4, <1>6 DEF RS!HasID
<1>9. RS!GetSequence(e, "runevent") = {seq}
  BY <1>1, <1>4, <1>7 DEF RS!GetSequence, RS!fetchSequences
<1>10. eventsOf(e) = eventsOf(d) + 1
  BY <1>1, <1>9 DEF eventsOf
<1>11. e.run = d.run /\ e.runevent = d.runevent \cup {ev}
  BY <1>4, <1>7, <1>8
<1> QED BY <1>2, <1>10, <1>11 DEF e

(* A run that takes the place of another. *)
LEMMA UpdateRunReports ==
    ASSUME NEW d, Shape(d), NEW r \in d.run, NEW n, n.id = r.id
    PROVE  LET e == RS!UpdateRun(d, n)
           IN  /\ Shape(e) /\ e.next = d.next /\ e.runevent = d.runevent
               /\ eventsOf(e) = eventsOf(d)
               /\ Reports(e) = {x \in Reports(d) : x.id # n.id} \cup {Report(n)}
<1> DEFINE e == RS!write(d, "run", {n})
<1>1. RS!UpdateRun(d, n) = e
  BY ShapeOK DEF RS!UpdateRun, RS!update, RS!HasID
<1>2. /\ Shape(e) /\ e.run = {o \in d.run : o.id # n.id} \cup {n} /\ e.next = d.next
      /\ e.sequence = d.sequence /\ e.runevent = d.runevent
  BY WriteShape DEF RS!Tables
<1> HIDE DEF e
<1>3. \A o : Report(o).id = o.id
  BY DEF Report
<1>4. Reports(e) = {x \in Reports(d) : x.id # n.id} \cup {Report(n)}
  BY <1>2, <1>3 DEF Reports
<1> QED BY <1>1, <1>2, <1>4 DEF eventsOf, RS!GetSequence, RS!fetchSequences, e

LEMMA UpdateRunSame ==
    ASSUME NEW d, Shape(d), \A a, b \in d.run : a.id = b.id => a = b,
           NEW r \in d.run, NEW n, Report(n) = Report(r)
    PROVE  LET e == RS!UpdateRun(d, n)
           IN  Shape(e) /\ e.next = d.next /\ KeepsEvents(d, e)
<1> DEFINE e == RS!UpdateRun(d, n)
<1>1. n.id = r.id
  BY DEF Report
<1>2. /\ Shape(e) /\ e.next = d.next /\ e.runevent = d.runevent /\ eventsOf(e) = eventsOf(d)
      /\ Reports(e) = {x \in Reports(d) : x.id # n.id} \cup {Report(n)}
  BY <1>1, UpdateRunReports
<1> HIDE DEF e
<1>3. ASSUME NEW x \in Reports(d), x.id = n.id PROVE x = Report(n)
  <2>1. PICK o \in d.run : x = Report(o)
    BY DEF Reports
  <2>2. o.id = r.id
    BY <1>1, <1>3, <2>1 DEF Report
  <2> QED BY <2>1, <2>2
<1>4. Report(n) \in Reports(d)
  BY DEF Reports
<1>5. Reports(e) = Reports(d)
  BY <1>2, <1>3, <1>4
<1> QED BY <1>2, <1>5 DEF KeepsEvents, e

(* A run with a new phase or result, and its event. *)
LEMMA UpdateRunTells ==
    ASSUME NEW d, Shape(d), \A a, b \in d.run : a.id = b.id => a = b, NEW r \in d.run,
           NEW n, n.id = r.id, SameReport(r, n), ReportOK(n),
           commitStatus(n) = "" => statusNow(r) = statusNow(n),
           RS!IsOK(RS!withEvent(RS!UpdateRun(d, n), n))
    PROVE  Tells(d, RS!withEvent(RS!UpdateRun(d, n), n), Report(n))
<1> DEFINE d1 == RS!UpdateRun(d, n)
           e == RS!withEvent(d1, n)
           v == Report(n)
<1>1. /\ Shape(d1) /\ d1.runevent = d.runevent /\ eventsOf(d1) = eventsOf(d)
      /\ Reports(d1) = {x \in Reports(d) : x.id # n.id} \cup {v}
  BY UpdateRunReports
<1> HIDE DEF d1
<1>2. /\ e.run = d1.run /\ eventsOf(e) = eventsOf(d1) + 1
      /\ \E ev : /\ ev.id = eventsOf(d1) + 1 /\ ev.run = n.id
                 /\ ev.phase = n.phase /\ ev.result = n.result
                 /\ e.runevent = d1.runevent \cup {ev}
  BY <1>1, EventAdded DEF d1
<1>3. v.id = n.id /\ v.phase = n.phase /\ v.result = n.result
  BY DEF Report
<1>4. commitStatus(v) = commitStatus(n) /\ statusNow(v) = statusNow(n) /\ ReportOK(v)
  BY <1>3 DEF commitStatus, statusNow, ReportOK
<1>5. ASSUME NEW x \in Reports(d), x.id = v.id
      PROVE  SameReport(x, v) /\ (commitStatus(v) = "" => statusNow(x) = statusNow(v))
  <2>1. PICK o \in d.run : x = Report(o)
    BY DEF Reports
  <2>2. o = r
    BY <1>3, <1>5, <2>1 DEF Report
  <2>3. statusNow(x) = statusNow(r)
    BY <2>1, <2>2 DEF Report, statusNow
  <2>4. SameReport(x, v)
    BY <2>1, <2>2 DEF Report, SameReport
  <2> QED BY <1>4, <2>3, <2>4
<1>6. Reports(e) = Reports(d1)
  BY <1>2 DEF Reports
<1> HIDE DEF e, v
<1>7. Tells(d, e, v)
  BY <1>1, <1>2, <1>3, <1>4, <1>5, <1>6 DEF Tells
<1> QED BY <1>7 DEF e, v, d1

-----------------------------------------------------------------------------
(* Changes of a run *)

(* e, if it isn't an error, keeps d's events or adds one *)
MovesGood(d, e) == RS!IsOK(e) => Moves(d, e)

(* `new' takes the place of r: what is reported of it is the same, or its   *)
(* phase is another one.                                                    *)
Changes(r, new) ==
    /\ new.id = r.id /\ SameReport(r, new) /\ new.result = r.result
    /\ new.phase # r.phase => /\ ReportOK(new)
                              /\ commitStatus(new) = "" => statusNow(r) = statusNow(new)

LEMMA ChangeRunMoves ==
    ASSUME NEW T, NEW d, DatabaseOK(T, d), NEW id, NEW token, NEW allowed \in BOOLEAN, NEW new,
           RS!GetRun(d, id) # {} /\ allowed => Changes(RS!The(RS!GetRun(d, id)), new)
    PROVE  MovesGood(d, RS!changeRun(d, id, token, allowed, new))
<1> DEFINE r == RS!The(RS!GetRun(d, id))
           d1 == RS!UpdateChangeGroups(d, token)
           d2 == RS!UpdateRun(d1, new)
           e == RS!changeRun(d, id, token, allowed, new)
<1> SUFFICES ASSUME RS!IsOK(e) PROVE Moves(d, e)
  BY DEF MovesGood
<1>1. RS!GetRun(d, id) # {} /\ allowed
  BY RefusedNotOK DEF RS!changeRun
<1>2. r \in d.run /\ Changes(r, new)
  BY <1>1, RunFound
<1>3. e = IF new.phase = r.phase THEN d2 ELSE RS!withEvent(d2, new)
  BY <1>1 DEF RS!changeRun
<1>4. RS!IsOK(d1)
  <2> SUFFICES ASSUME ~RS!IsOK(d1) PROVE FALSE
    OBVIOUS
  <2>1. ~RS!IsOK(d2)
    BY RefusedNotOK DEF RS!UpdateRun, RS!update
  <2> QED BY <1>3, <2>1, EventRefused
<1>5. Shape(d) /\ d.next \in Nat /\ \A a, b \in d.run : a.id = b.id => a = b
  BY DEF Shape, DatabaseOK
<1>6. Same(d, d1) /\ KeepsEvents(d, d1)
  BY <1>4, <1>5, ChangeGroupsSame, ChangeGroupsEvents
<1>7. Shape(d1) /\ r \in d1.run /\ \A a, b \in d1.run : a.id = b.id => a = b
  BY <1>2, <1>5, <1>6 DEF Same
<1> HIDE DEF r, d1
<1>8. CASE new.phase = r.phase
  <2>1. Report(new) = Report(r)
    BY <1>2, <1>8 DEF Changes, SameReport, Report
  <2>2. KeepsEvents(d1, e)
    BY <1>3, <1>7, <1>8, <2>1, UpdateRunSame
  <2> QED BY <1>6, <2>2, KeptEventsTwice DEF Moves
<1>9. CASE new.phase # r.phase
  <2>1. Tells(d1, e, Report(new))
    BY <1>2, <1>3, <1>7, <1>9, UpdateRunTells DEF Changes
  <2>2. Moves(d1, e)
    BY <2>1 DEF Moves
  <2> QED BY <1>6, <2>2, MovesAfter
<1> QED BY <1>8, <1>9

LEMMA ChangeRunPhaseMoves ==
    ASSUME NEW T, NEW d, DatabaseOK(T, d), EventsOK(d), NEW id, NEW phase, NEW token
    PROVE  MovesGood(d, RS!ChangeRunPhase(d, id, phase, token))
<1> DEFINE r == RS!The(RS!GetRun(d, id))
           new == RS!ChangePhase(r, phase)
           allowed == phase \in {"running", "cancelled"} /\ r.phase = "queued"
<1>1. ASSUME RS!GetRun(d, id) # {}, allowed PROVE Changes(r, new)
  <2>1. r \in d.run
    BY <1>1, RunFound
  <2>2. /\ new.id = r.id /\ new.sha = r.sha /\ new.name = r.name /\ new.group = r.group
        /\ new.result = r.result /\ new.phase = phase
    BY <2>1 DEF DatabaseOK, RunOK, RS!ChangePhase
  <2>3. ReportOK(Report(r))
    BY <2>1 DEF EventsOK, Reports
  <2>4. ReportOK(new)
    BY <1>1, <2>2, <2>3 DEF ReportOK, Report
  <2> HIDE DEF new
  <2>5. CASE phase = "running"
    <3>1. statusNow(r) = "pending"
      BY <1>1 DEF statusNow
    <3>2. statusNow(new) = "pending"
      BY <2>2, <2>5 DEF statusNow
    <3> QED BY <2>2, <2>4, <3>1, <3>2 DEF Changes, SameReport
  <2>6. CASE phase = "cancelled"
    <3>1. commitStatus(new) = "error"
      BY <2>2, <2>6 DEF commitStatus
    <3> QED BY <2>2, <2>4, <3>1 DEF Changes, SameReport
  <2> QED BY <1>1, <2>5, <2>6
<1>2. allowed \in BOOLEAN
  OBVIOUS
<1> QED BY <1>1, <1>2, ChangeRunMoves DEF RS!ChangeRunPhase

(* A run that differs in other fields. *)
LEMMA OtherFields ==
    ASSUME NEW r, NEW new, Report(new) = Report(r)
    PROVE  Changes(r, new)
<1>1. /\ new.id = r.id /\ new.sha = r.sha /\ new.name = r.name /\ new.group = r.group
      /\ new.phase = r.phase /\ new.result = r.result
  BY DEF Report
<1> QED BY <1>1 DEF Changes, SameReport

LEMMA StopRunMoves ==
    ASSUME NEW T, NEW d, DatabaseOK(T, d), NEW id, NEW token
    PROVE  MovesGood(d, RS!StopRun(d, id, token))
<1> DEFINE r == RS!The(RS!GetRun(d, id))
           new == [r EXCEPT !.stop = TRUE,
                      !.tasks = [t \in DOMAIN @ |-> [@[t] EXCEPT !.wait = FALSE]]]
<1>1. ASSUME RS!GetRun(d, id) # {} PROVE Report(new) = Report(r)
  <2>1. r \in d.run
    BY <1>1, RunFound
  <2> QED BY <2>1 DEF DatabaseOK, RunOK, Report
<1>2. (r.phase = "running") \in BOOLEAN
  OBVIOUS
<1> QED BY <1>1, <1>2, OtherFields, ChangeRunMoves DEF RS!StopRun

LEMMA SetAnnotationsMoves ==
    ASSUME NEW T, NEW d, DatabaseOK(T, d), NEW id, NEW t, NEW approvers, NEW token
    PROVE  MovesGood(d, RS!RunTaskSetAnnotations(d, id, t, approvers, token))
<1> DEFINE r == RS!The(RS!GetRun(d, id))
           new == [r EXCEPT !.tasks[t].approvers = approvers]
<1>1. ASSUME RS!GetRun(d, id) # {} PROVE Report(new) = Report(r)
  <2>1. r \in d.run
    BY <1>1, RunFound
  <2> QED BY <2>1 DEF DatabaseOK, RunOK, Report
<1>2. (t \in DOMAIN r.tasks) \in BOOLEAN
  OBVIOUS
<1> QED BY <1>1, <1>2, OtherFields, ChangeRunMoves DEF RS!RunTaskSetAnnotations

LEMMA ApproveRunTaskMoves ==
    ASSUME NEW T, NEW d, DatabaseOK(T, d), NEW id, NEW t, NEW token
    PROVE  MovesGood(d, RS!ApproveRunTask(d, id, t, token))
<1> DEFINE r == RS!The(RS!GetRun(d, id))
           new == [r EXCEPT !.tasks[t].wait = FALSE, !.tasks[t].appr = TRUE]
<1>1. ASSUME RS!GetRun(d, id) # {} PROVE Report(new) = Report(r)
  <2>1. r \in d.run
    BY <1>1, RunFound
  <2> QED BY <2>1 DEF DatabaseOK, RunOK, Report
<1>2. (t \in DOMAIN r.tasks /\ r.tasks[t].wait /\ ~r.tasks[t].appr) \in BOOLEAN
  OBVIOUS
<1> QED BY <1>1, <1>2, OtherFields, ChangeRunMoves DEF RS!ApproveRunTask

-----------------------------------------------------------------------------
(* New runs *)

LEMMA SaveRunMoves ==
    ASSUME NEW T, NEW d, DatabaseOK(T, d), NEW rb, NEW token, NEW c, RunOK(T, rb.run, c),
           ReportOK(rb.run), RS!IsOK(RS!saveRun(d, rb, token))
    PROVE  Moves(d, RS!saveRun(d, rb, token))
<1> DEFINE g == rb.run.group
           seq == RS!NextSequence(d, "run")
           counter == RS!NextRunCounter(d, RS!getRunCounterGroupID(g))
           run == [rb.run EXCEPT !.id = d.next, !.rc = d.next, !.seq = seq.value,
                                 !.counter = counter.value]
           rc == [rb.rc EXCEPT !.id = d.next]
           d0 == RS!Fresh(d, 1)
           d1 == RS!UpdateChangeGroups(d0, token)
           d2 == RS!write(d1, "sequence", {seq})
           d3 == RS!write(d2, "runcounter", {counter})
           d4 == RS!write(d3, "run", {run})
           d5 == RS!write(d4, "runconfig", {rc})
           e == RS!saveRun(d, rb, token)
           v == Report(run)
<1>1. Shape(d) /\ d.next \in Nat /\ \A r \in d.run : r.id # d.next
  BY DEF Shape, DatabaseOK
<1>2. Same(d, d0) /\ KeepsEvents(d, d0)
  BY <1>1, FreshSame, FreshEvents
<1> DEFINE i5 == RS!InsertRunConfig(RS!InsertRun(RS!InsertOrUpdateRunCounter(
                    RS!InsertOrUpdateSequence(d1, seq), counter), run), rc)
<1>3. e \in {RS!Refused, RS!withEvent(i5, run)}
  BY DEF RS!saveRun
<1>4. e = RS!withEvent(i5, run) /\ RS!IsOK(i5)
  BY <1>3, RefusedNotOK, EventRefused
<1>5. RS!IsOK(d1)
  BY <1>4, RefusedNotOK DEF RS!InsertRunConfig, RS!InsertRun, RS!InsertOrUpdateRunCounter,
     RS!InsertOrUpdateSequence, RS!insert, RS!insertOrUpdate
<1>6. Same(d0, d1) /\ KeepsEvents(d0, d1)
  BY <1>2, <1>5, ChangeGroupsSame, ChangeGroupsEvents DEF Same
<1>7. Same(d1, d2)
  BY <1>6, WriteSame DEF Same, RS!Tables
<1>8. Same(d2, d3)
  BY <1>7, WriteSame DEF Same, RS!Tables
<1>9. RS!IsOK(d2) /\ RS!IsOK(d3)
  BY <1>7, <1>8, ShapeOK DEF Same
<1>10. Shape(d3) /\ Shape(d4) /\ Shape(d5)
  BY <1>8, WriteShape DEF Same, RS!Tables
<1>11. seq.id = "run"
  BY NextRow DEF RS!NextSequence
<1> HIDE DEF seq, counter, d0, d1
<1>12. i5 = d5
  <2>1. RS!InsertOrUpdateRunCounter(RS!InsertOrUpdateSequence(d1, seq), counter) = d3
    BY <1>5, <1>9 DEF RS!InsertOrUpdateRunCounter, RS!InsertOrUpdateSequence, RS!insertOrUpdate
  <2> HIDE DEF d2, d3, run, rc
  <2>2. RS!InsertRun(d3, run) \in {RS!Refused, d4}
    BY DEF RS!InsertRun, RS!insert
  <2>3. RS!InsertRunConfig(d4, rc) \in {RS!Refused, d5}
    BY DEF RS!InsertRunConfig, RS!insert
  <2>4. RS!InsertRunConfig(RS!Refused, rc) = RS!Refused
    BY RefusedNotOK DEF RS!InsertRunConfig, RS!insert
  <2> QED BY <1>4, <2>1, <2>2, <2>3, <2>4, RefusedNotOK
<1>13. run.id = d.next /\ run.phase = rb.run.phase /\ run.result = rb.run.result
  BY DEF RunOK
<1>14. d2.sequence = {o \in d1.sequence : o.id # "run"} \cup {seq} /\ d2.runevent = d1.runevent
  BY <1>6, <1>11, WriteShape DEF RS!Tables, Same
<1> HIDE DEF d2
<1>15. KeepsEvents(d1, d2)
  <2>1. RS!GetSequence(d2, "runevent") = RS!GetSequence(d1, "runevent")
    BY <1>11, <1>14 DEF RS!GetSequence, RS!fetchSequences
  <2>2. Reports(d2) = Reports(d1)
    BY <1>7 DEF Same, Reports
  <2> QED BY <1>14, <2>1, <2>2 DEF KeepsEvents, eventsOf
<1>16. KeepsEvents(d2, d3)
  BY <1>7, WriteEvents DEF RS!Tables, Same
<1> HIDE DEF run, rc, d3
<1>17. KeepsEvents(d, d3)
  BY <1>2, <1>6, <1>15, <1>16, KeptEventsTwice
<1>18. /\ d4.run = {o \in d3.run : o.id # run.id} \cup {run}
       /\ d4.sequence = d3.sequence /\ d4.runevent = d3.runevent
  BY <1>10, WriteShape DEF RS!Tables
<1> HIDE DEF d4
<1>19. d5.run = d4.run /\ d5.sequence = d4.sequence /\ d5.runevent = d4.runevent
  BY <1>10, WriteShape DEF RS!Tables
<1> HIDE DEF d5
<1>20. v.id = run.id /\ v.phase = run.phase /\ v.result = run.result
  BY DEF Report
<1>21. ASSUME NEW x \in Reports(d) PROVE x.id # v.id
  BY <1>1, <1>13, <1>20 DEF Reports, Report
<1>22. Reports(d5) = Reports(d3) \cup {v}
  <2>1. d3.run = d.run
    BY <1>2, <1>6, <1>7, <1>8 DEF Same
  <2>2. d5.run = d3.run \cup {run}
    BY <1>1, <1>13, <1>18, <1>19, <2>1
  <2> QED BY <2>2 DEF Reports
<1>23. d5.runevent = d.runevent /\ eventsOf(d5) = eventsOf(d) /\ Reports(d3) = Reports(d)
  <2>1. RS!GetSequence(d5, "runevent") = RS!GetSequence(d3, "runevent")
    BY <1>18, <1>19 DEF RS!GetSequence, RS!fetchSequences
  <2> QED BY <1>17, <1>18, <1>19, <2>1 DEF KeepsEvents, eventsOf
<1>24. /\ e.run = d5.run /\ eventsOf(e) = eventsOf(d5) + 1
       /\ \E ev : /\ ev.id = eventsOf(d5) + 1 /\ ev.run = run.id
                  /\ ev.phase = run.phase /\ ev.result = run.result
                  /\ e.runevent = d5.runevent \cup {ev}
  BY <1>4, <1>10, <1>12, EventAdded
<1>25. Reports(e) = {x \in Reports(d) : x.id # v.id} \cup {v}
  <2>1. Reports(e) = Reports(d5)
    BY <1>24 DEF Reports
  <2> QED BY <1>21, <1>22, <1>23, <2>1
<1>26. ReportOK(v)
  BY <1>13, <1>20 DEF ReportOK
<1> HIDE DEF e, v
<1>27. Tells(d, e, v)
  BY <1>20, <1>21, <1>23, <1>24, <1>25, <1>26 DEF Tells
<1> QED BY <1>27 DEF Moves, e

LEMMA CreateRunMoves ==
    ASSUME NEW T, NEW d, DatabaseOK(T, d), NEW rq, NEW token, IsFiniteSet(DOMAIN rq.tasks),
           \A t \in DOMAIN rq.tasks : /\ t \in Nat /\ t < d.next + Cardinality(DOMAIN rq.tasks)
                                      /\ "approval" \in DOMAIN rq.tasks[t],
           RS!IsOK(RS!CreateRun(d, rq, token))
    PROVE  Moves(d, RS!CreateRun(d, rq, token))
<1> DEFINE n == Cardinality(DOMAIN rq.tasks)
           e == RS!Fresh(d, n)
           rb == RS!newRun(rq)
<1>1. n \in Nat /\ Shape(d) /\ d.next \in Nat
  BY FS_CardinalityType DEF Shape, DatabaseOK
<1>2. RS!CreateRun(d, rq, token) = RS!saveRun(e, rb, token) /\ rb # RS!Refused
  BY SameCardinality, RefusedNotOK DEF RS!CreateRun
<1>3. Same(d, e) /\ e.next = d.next + n /\ KeepsEvents(d, e)
  BY <1>1, FreshSame, FreshEvents
<1>4. DatabaseOK(T, e)
  BY <1>3, SameOK
<1>5. e.next \in Nat /\ \A t \in DOMAIN rq.tasks : t < e.next
  BY <1>1, <1>3
<1> HIDE DEF e, n
<1>6. RunOK(T, rb.run, rb.rc)
  BY <1>2, <1>5, NewRunOK
<1>7. ReportOK(rb.run)
  <2> DEFINE rc == [id |-> 0, name |-> rq.name, group |-> rq.group, tasks |-> rq.tasks,
                    levels |-> RS!GenTasksLevels(rq.tasks),
                    errors |-> \/ rq.errors \/ ~RS!CheckRunConfigTasks(rq.tasks)
                               \/ ~RS!levelsOK(RS!GenTasksLevels(rq.tasks))]
             run == RS!genRun(rc, rq.sha)
  <2>1. rb.run = run
    BY <1>2 DEF RS!newRun
  <2> HIDE DEF rc
  <2>2. run.phase \in {"setuperror", "queued"} /\ run.result = "unknown"
    BY DEF RS!genRun
  <2> QED BY <2>1, <2>2 DEF ReportOK
<1> HIDE DEF rb
<1>8. Moves(e, RS!saveRun(e, rb, token))
  BY <1>2, <1>4, <1>6, <1>7, SaveRunMoves
<1> QED BY <1>2, <1>3, <1>8, MovesAfter

LEMMA CreateHandlerMoves ==
    ASSUME NEW T, NEW d, DatabaseOK(T, d), NEW rq, NEW i,
           i # 0 => IsFiniteSet(DOMAIN rq.config.runs[i].tasks)
    PROVE  MovesGood(d, RS!RunCreateHandler(d, genCreateRequest(rq, i, d.next)))
<1> DEFINE g == genCreateRequest(rq, i, d.next)
           run == rq.config.runs[i]
           n == Cardinality(DOMAIN run.tasks)
<1> SUFFICES ASSUME RS!IsOK(RS!CreateRun(d, g, g.token)) PROVE Moves(d, RS!CreateRun(d, g, g.token))
  BY DEF MovesGood, RS!RunCreateHandler
<1>1. d.next \in Nat
  BY DEF DatabaseOK
<1>2. CASE i = 0
  <2>1. DOMAIN g.tasks = {}
    BY <1>2, CreateRequest DEF RS!NoTasks
  <2>2. IsFiniteSet(DOMAIN g.tasks)
    BY <2>1, FS_EmptySet
  <2> HIDE DEF g
  <2> QED BY <2>1, <2>2, CreateRunMoves
<1>3. CASE i # 0
  <2>1. n \in Nat
    BY <1>3, FS_CardinalityType
  <2>2. g.tasks = RS!GenRunConfigTasks(run, d.next, rq.refType, rq.name, rq.ref)
    BY <1>3 DEF genCreateRequest
  <2>3. DOMAIN g.tasks = d.next .. d.next + n - 1
    BY <2>2, SameCardinality DEF RS!GenRunConfigTasks
  <2>4. \A t \in DOMAIN g.tasks : "approval" \in DOMAIN g.tasks[t]
    BY <2>2, GeneratedTask
  <2>5. IsFiniteSet(DOMAIN g.tasks) /\ Cardinality(DOMAIN g.tasks) = n
    <3> HIDE DEF n, g
    <3>1. d.next \in Int /\ d.next + n - 1 \in Int
      BY <1>1, <2>1
    <3>2. IsFiniteSet(d.next .. d.next + n - 1)
      BY <3>1, FS_Interval
    <3>3. Cardinality(d.next .. d.next + n - 1) =
             IF d.next > d.next + n - 1 THEN 0 ELSE (d.next + n - 1) - d.next + 1
      BY <3>1, FS_Interval
    <3> QED BY <1>1, <2>1, <2>3, <3>2, <3>3
  <2>6. \A t \in DOMAIN g.tasks : t \in Nat /\ t < d.next + n
    BY <1>1, <2>1, <2>3
  <2> HIDE DEF g, n
  <2> QED BY <2>4, <2>5, <2>6, CreateRunMoves
<1> QED BY <1>2, <1>3

(* A restarted run waits for its turn. *)
LEMMA RecreateRunMoves ==
    ASSUME NEW T, NEW d, DatabaseOK(T, d), NEW id, NEW fromStart,
           NEW a \in RS!recreateRun(d, id, fromStart)
    PROVE  KeepsEvents(d, a.d) /\ ReportOK(a.rb.run)
<1> DEFINE new(r, c) == RS!recreatedTasks(r, c, fromStart)
<1>1. PICK r \in d.run, c \in d.runconfig :
        /\ c.id = r.rc
        /\ a = [rb |-> RS!withNewIDs(r, c, new(r, c), d.next),
                d |-> RS!Fresh(d, RS!Cardinality(new(r, c)))]
  BY DEF RS!recreateRun, RS!GetRun, RS!fetchRuns, RS!GetRunConfig, RS!fetchRunConfigs
<1>2. Shape(d) /\ RunOK(T, r, c)
  BY <1>1 DEF DatabaseOK, Shape
<1> DEFINE ts == new(r, c)
           run == RS!withNewIDs(r, c, ts, d.next).run
<1>3. a.rb = RS!withNewIDs(r, c, ts, d.next) /\ a.d = RS!Fresh(d, RS!Cardinality(ts))
  BY <1>1
<1> HIDE DEF ts
<1>4. run.phase = "queued" /\ run.result = "unknown"
  BY <1>2 DEF RS!withNewIDs, RunOK
<1> QED BY <1>2, <1>3, <1>4, FreshEvents DEF ReportOK

-----------------------------------------------------------------------------
(* The services' loops *)

LEMMA DoMoves ==
    ASSUME NEW e, MovesGood(db, e), Do(e)
    PROVE  Moves(db, db')
BY DEF MovesGood, Do

LEMMA StartRunMoves ==
    ASSUME DatabaseOK(Approved, db), EventsOK(db), StartRun
    PROVE  Moves(db, db')
<1>1. PICK r : Do(RS!RunActionsHandler(db, r.id, [action |-> "changephase", phase |-> "running",
                                                  token |-> {}]))
  BY DEF StartRun
<1>2. Do(RS!ChangeRunPhase(db, r.id, "running", {}))
  BY <1>1 DEF RS!RunActionsHandler
<1> QED BY <1>2, ChangeRunPhaseMoves, DoMoves

LEMMA ReadApprovalsMoves ==
    ASSUME DatabaseOK(Approved, db), ReadApprovals
    PROVE  Moves(db, db')
<1>1. PICK r \in db.run : \E a \in RS!RunHandler(db, r.id, {approvalGroup(r.id)}) : db' = a.d
  BY DEF ReadApprovals
<1>2. db' = RS!GetChangeGroupsUpdateTokens(db, {approvalGroup(r.id)})
  BY <1>1 DEF RS!RunHandler, RS!answer
<1>3. Shape(db) /\ db.next \in Nat
  BY DEF DatabaseOK, Shape
<1> QED BY <1>2, <1>3, GroupTokensEvents DEF Moves

LEMMA ApproveTaskMoves ==
    ASSUME DatabaseOK(Approved, db), ApproveTask
    PROVE  Moves(db, db')
<1>1. CASE db' = db
  BY <1>1 DEF KeepsEvents, Moves
<1>2. CASE db' # db
  <2>1. PICK t \in appr.todo : \E e \in {RS!RunTaskActionsHandler(db, appr.run.id, t,
                              [action |-> "approve", token |-> appr.token])} :
          RS!IsOK(e) /\ db' = e
    BY <1>2 DEF ApproveTask
  <2>2. Do(RS!ApproveRunTask(db, appr.run.id, t, appr.token))
    BY <2>1 DEF RS!RunTaskActionsHandler, Do
  <2> QED BY <2>2, ApproveRunTaskMoves, DoMoves
<1> QED BY <1>1, <1>2

LEMMA CompactMoves ==
    ASSUME DatabaseOK(Approved, db), compactChangeGroups
    PROVE  Moves(db, db')
<1>1. PICK names : Do(RS!DeleteChangeGroup(db, names))
  BY DEF compactChangeGroups
<1>2. Shape(db)
  BY DEF DatabaseOK, Shape
<1>3. db' = RS!without(db, "changegroup", names)
  BY <1>1, RefusedNotOK DEF Do, RS!DeleteChangeGroup, RS!delete
<1> QED BY <1>2, <1>3, WithoutEvents DEF RS!Tables, Moves

LEMMA ExecutorTasksEvents ==
    ASSUME NEW T, NEW d, DatabaseOK(T, d), NEW rows, RS!IsOK(RS!UpdateExecutorTask(d, rows))
    PROVE  LET e == RS!UpdateExecutorTask(d, rows)
           IN  KeepsEvents(d, e) /\ Shape(e) /\ e.run = d.run
<1>1. Shape(d)
  BY DEF DatabaseOK, Shape
<1>2. RS!UpdateExecutorTask(d, rows) = RS!write(d, "executortask", rows)
  BY RefusedNotOK DEF RS!UpdateExecutorTask, RS!update
<1>3. KeepsEvents(d, RS!write(d, "executortask", rows))
  BY <1>1, WriteEvents DEF RS!Tables
<1>4. Shape(RS!write(d, "executortask", rows)) /\ RS!write(d, "executortask", rows).run = d.run
  BY <1>1, WriteShape DEF RS!Tables
<1> QED BY <1>2, <1>3, <1>4

(* The result comes with the run's end or before it. *)
LEMMA AdvancedReport ==
    ASSUME NEW T, NEW run, NEW c, RunOK(T, run, c), ReportOK(run), NEW rc, NEW S
    PROVE  LET n == advanceRun(run, rc, S)
           IN  /\ n.id = run.id /\ SameReport(run, n) /\ ReportOK(n)
               /\ commitStatus(n) = "" => statusNow(run) = statusNow(n)
               /\ Report(advanceRunTasks(n, rc, S)) = Report(n)
<1> DEFINE n == advanceRun(run, rc, S)
           result == runResult(run, rc)
           early == run.result = "unknown" /\ result = "success"
           over == result # "unknown" /\ ~early /\ allFinished(run) /\ S = {}
           phase == IF over THEN "finished" ELSE run.phase
<1>1. result \in {"unknown", "success", "failed", "stopped"}
  BY DEF runResult, ReportOK
<1>2. run.phase = "finished" => result = run.result
  BY DEF runResult
<1>3. /\ DOMAIN n = DOMAIN run /\ n.id = run.id /\ SameReport(run, n)
      /\ n.result = result /\ n.phase = phase
  BY DEF advanceRun, RunOK, SameReport
<1> HIDE DEF n, result, early
<1>4. over => result # "unknown"
  OBVIOUS
<1> HIDE DEF over
<1>5. ReportOK(n)
  BY <1>1, <1>2, <1>3, <1>4 DEF ReportOK
<1>6. ASSUME commitStatus(n) = "" PROVE statusNow(run) = statusNow(n)
  <2>1. n.phase # "finished"
    BY <1>5, <1>6 DEF ReportOK, commitStatus
  <2>2. n.phase = run.phase
    BY <1>3, <2>1
  <2>3. n.phase \notin {"setuperror", "cancelled"}
    BY <1>6 DEF commitStatus
  <2>4. n.phase \in {"queued", "running"}
    BY <1>5, <2>1, <2>3 DEF ReportOK
  <2> QED BY <2>2, <2>4 DEF statusNow
<1>7. Report(advanceRunTasks(n, rc, S)) = Report(n)
  BY <1>3 DEF advanceRunTasks, Report, RunOK
<1> QED BY <1>3, <1>5, <1>6, <1>7 DEF n

LEMMA AdvanceRunMoves ==
    ASSUME DatabaseOK(Approved, db), EventsOK(db), AdvanceRun
    PROVE  Moves(db, db')
<1> DEFINE rows(r) == IF r.stop
                      THEN {[e EXCEPT !.stop = TRUE] : e \in RS!GetExecutorTasksByRun(db, r.id)}
                      ELSE {}
           write(r, n) == RS!UpdateRun(RS!UpdateExecutorTask(db, rows(r)), n)
<1>1. PICK r, rc, a, n :
        /\ r \in db.run /\ a = advanceRun(r, rc, Scheduled(r))
        /\ n = IF a.phase = "running" THEN advanceRunTasks(a, rc, Scheduled(r)) ELSE a
        /\ Do(IF n.phase = r.phase /\ n.result = r.result THEN write(r, n)
              ELSE RS!withEvent(write(r, n), n))
  BY Zenon DEF AdvanceRun, RS!GetUnarchivedRuns, RS!fetchRuns
<1>2. PICK c \in db.runconfig : RunOK(Approved, r, c)
  BY <1>1 DEF DatabaseOK
<1>3. ReportOK(r)
  <2>1. Report(r) \in Reports(db)
    BY <1>1 DEF Reports
  <2>2. ReportOK(Report(r))
    BY <2>1 DEF EventsOK
  <2> QED BY <2>2 DEF ReportOK, Report
<1>4. /\ n.id = r.id /\ SameReport(r, n) /\ ReportOK(n)
      /\ commitStatus(n) = "" => statusNow(r) = statusNow(n)
  <2>1. /\ a.id = r.id /\ SameReport(r, a) /\ ReportOK(a)
        /\ commitStatus(a) = "" => statusNow(r) = statusNow(a)
        /\ Report(advanceRunTasks(a, rc, Scheduled(r))) = Report(a)
    BY <1>1, <1>2, <1>3, AdvancedReport
  <2>2. Report(n) = Report(a)
    BY <1>1, <2>1
  <2>3. /\ n.id = a.id /\ n.sha = a.sha /\ n.name = a.name /\ n.group = a.group
        /\ n.phase = a.phase /\ n.result = a.result
    BY <2>2 DEF Report
  <2>4. commitStatus(n) = commitStatus(a) /\ statusNow(n) = statusNow(a)
    BY <2>3 DEF commitStatus, statusNow
  <2> QED BY <2>1, <2>3, <2>4 DEF SameReport, ReportOK
<1> DEFINE d1 == RS!UpdateExecutorTask(db, rows(r))
           d2 == RS!UpdateRun(d1, n)
<1>5. Do(IF n.phase = r.phase /\ n.result = r.result THEN d2 ELSE RS!withEvent(d2, n))
  BY <1>1
<1>6. RS!IsOK(d2)
  BY <1>5, EventRefused DEF Do
<1>7. RS!IsOK(d1)
  BY <1>6, RefusedNotOK DEF RS!UpdateRun, RS!update
<1>8. KeepsEvents(db, d1) /\ Shape(d1) /\ d1.run = db.run
  BY <1>7, ExecutorTasksEvents
<1>9. r \in d1.run /\ \A x, y \in d1.run : x.id = y.id => x = y
  BY <1>1, <1>8 DEF DatabaseOK
<1> HIDE DEF d1
<1>10. CASE n.phase = r.phase /\ n.result = r.result
  <2>1. Report(n) = Report(r)
    BY <1>4, <1>10 DEF Report, SameReport
  <2>2. KeepsEvents(d1, d2)
    BY <1>8, <1>9, <2>1, UpdateRunSame
  <2>3. db' = d2
    BY <1>5, <1>10 DEF Do
  <2> QED BY <1>8, <2>2, <2>3, KeptEventsTwice DEF Moves
<1>11. CASE ~(n.phase = r.phase /\ n.result = r.result)
  <2>1. RS!IsOK(RS!withEvent(d2, n)) /\ db' = RS!withEvent(d2, n)
    BY <1>5, <1>11 DEF Do
  <2>2. Tells(d1, db', Report(n))
    BY <1>4, <1>8, <1>9, <2>1, UpdateRunTells
  <2>3. Moves(d1, db')
    BY <2>2 DEF Moves
  <2> QED BY <1>8, <2>3, MovesAfter
<1> QED BY <1>10, <1>11

LEMMA SubmitTaskMoves ==
    ASSUME DatabaseOK(Approved, db), SubmitTask
    PROVE  Moves(db, db')
<1>1. PICK x : Do(RS!InsertExecutorTask(db, x))
  BY Zenon DEF SubmitTask
<1>2. db' = RS!write(db, "executortask", {x}) /\ Shape(db)
  BY <1>1, RefusedNotOK DEF Do, RS!InsertExecutorTask, RS!insert, DatabaseOK, Shape
<1> QED BY <1>2, WriteEvents DEF RS!Tables, Moves

LEMMA TaskEndsMoves ==
    ASSUME DatabaseOK(Approved, db), TaskEnds
    PROVE  Moves(db, db')
<1>1. PICK e, p, r :
        /\ r \in db.run
        /\ Do(RS!UpdateRun(RS!UpdateExecutorTask(db, {[e EXCEPT !.phase = p]}),
                           [r EXCEPT !.tasks[e.id].status = p]))
  BY Zenon DEF TaskEnds, RS!GetRun, RS!fetchRuns
<1> DEFINE n == [r EXCEPT !.tasks[e.id].status = p]
           d1 == RS!UpdateExecutorTask(db, {[e EXCEPT !.phase = p]})
<1>2. Report(n) = Report(r)
  BY <1>1 DEF DatabaseOK, RunOK, Report
<1>3. RS!IsOK(RS!UpdateRun(d1, n)) /\ db' = RS!UpdateRun(d1, n)
  BY <1>1 DEF Do
<1>4. RS!IsOK(d1)
  BY <1>3, RefusedNotOK DEF RS!UpdateRun, RS!update
<1>5. KeepsEvents(db, d1) /\ Shape(d1) /\ d1.run = db.run
  BY <1>4, ExecutorTasksEvents
<1>6. r \in d1.run /\ \A x, y \in d1.run : x.id = y.id => x = y
  BY <1>1, <1>5 DEF DatabaseOK
<1> HIDE DEF n, d1
<1>7. KeepsEvents(d1, db')
  BY <1>2, <1>3, <1>5, <1>6, UpdateRunSame
<1> QED BY <1>5, <1>7, KeptEventsTwice DEF Moves

LEMMA SavedRunMoves ==
    ASSUME DatabaseOK(Approved, db), NEW r \in db.run, NEW n, Report(n) = Report(r),
           Do(RS!UpdateRun(db, n))
    PROVE  Moves(db, db')
<1>1. Shape(db) /\ \A a, b \in db.run : a.id = b.id => a = b
  BY DEF DatabaseOK, Shape
<1> QED BY <1>1, UpdateRunSame DEF Do, Moves

LEMMA TaskFetcherMoves ==
    ASSUME DatabaseOK(Approved, db), TaskFetcher
    PROVE  Moves(db, db')
<1>1. PICK r, t, parts :
        /\ r \in db.run /\ t \in DOMAIN r.tasks
        /\ Do(RS!UpdateRun(db, [r EXCEPT !.tasks[t] = withFetched(@, parts)]))
  BY Zenon DEF TaskFetcher, RS!GetUnarchivedRuns, RS!fetchRuns
<1> DEFINE n == [r EXCEPT !.tasks[t] = withFetched(r.tasks[t], parts)]
<1>2. Report(n) = Report(r)
  BY <1>1 DEF DatabaseOK, RunOK, Report
<1> QED BY <1>1, <1>2, SavedRunMoves

LEMMA DropExecutorTaskMoves ==
    ASSUME DatabaseOK(Approved, db), DropExecutorTask
    PROVE  Moves(db, db')
<1>1. PICK t : Do(RS!DeleteExecutorTask(db, t))
  BY DEF DropExecutorTask
<1>2. db' = RS!without(db, "executortask", {t}) /\ Shape(db)
  BY <1>1, RefusedNotOK DEF Do, RS!DeleteExecutorTask, RS!delete, DatabaseOK, Shape
<1> QED BY <1>2, WithoutEvents DEF RS!Tables, Moves

LEMMA ArchiverMoves ==
    ASSUME DatabaseOK(Approved, db), finishedRunArchiver
    PROVE  Moves(db, db')
<1>1. PICK r \in db.run : Do(RS!UpdateRun(db, [r EXCEPT !.archived = TRUE]))
  BY Zenon DEF finishedRunArchiver, RS!GetUnarchivedRuns, RS!fetchRuns
<1> DEFINE n == [r EXCEPT !.archived = TRUE]
<1>2. Report(n) = Report(r)
  BY DEF DatabaseOK, RunOK, Report
<1> QED BY <1>1, <1>2, SavedRunMoves

-----------------------------------------------------------------------------
(* The gateway's calls *)

LEMMA ApplyMoves ==
    ASSUME DatabaseOK(Approved, db), EventsOK(db), NEW p, PlanOK(Approved, db.next, p),
           p.call \in {"cancel", "stop", "approve", "save"},
           p.call = "save" => ReportOK(p.rb.run)
    PROVE  MovesGood(db, apply(p))
<1>1. CASE p.call = "cancel"
  <2>1. apply(p) = RS!ChangeRunPhase(db, p.run, "cancelled", {})
    BY <1>1 DEF apply, RS!RunActionsHandler
  <2> QED BY <2>1, ChangeRunPhaseMoves
<1>2. CASE p.call = "stop"
  <2>1. apply(p) = RS!StopRun(db, p.run, {})
    BY <1>2 DEF apply, RS!RunActionsHandler
  <2> QED BY <2>1, StopRunMoves
<1>3. CASE p.call = "approve"
  <2>1. apply(p) = RS!RunTaskSetAnnotations(db, p.run, p.task, p.arg, p.token)
    BY <1>3 DEF apply, RS!RunTaskActionsHandler
  <2> QED BY <2>1, SetAnnotationsMoves
<1>4. CASE p.call = "save"
  <2>1. apply(p) = RS!saveRun(db, p.rb, {})
    BY <1>4 DEF apply
  <2>2. RunOK(Approved, p.rb.run, p.rb.rc)
    BY <1>4 DEF PlanOK
  <2> QED BY <1>4, <2>1, <2>2, SaveRunMoves DEF MovesGood
<1> QED BY <1>1, <1>2, <1>3, <1>4

LEMMA CreateMoves ==
    ASSUME DatabaseOK(Approved, db), NEW p, PlanOK(Approved, db.next, p), NEW i \in p.todo
    PROVE  MovesGood(db, create(p.rq, i))
<1>1. i # 0 => IsFiniteSet(DOMAIN p.rq.config.runs[i].tasks)
  BY DEF PlanOK
<1> QED BY <1>1, CreateHandlerMoves DEF create

(* After a step of the runservice, and after one that ends a session. *)
LEMMA StatusStep ==
    ASSUME StatusInv, NumbersInv', Moves(db, db'), SavedReports(s'),
           conn' = conn, lock' = lock, posted' = posted
    PROVE  StatusInv'
<1>1. DatabaseOK(Approved, db) /\ EventsOK(db)
  BY DEF StatusInv, NumbersInv, ApprovalInv
<1>2. ASSUME NEW a \in Reports(db), NEW b \in Reports(db), a.id = b.id PROVE a = b
  <2>1. PICK q \in db.run : a = Report(q)
    BY DEF Reports
  <2>2. PICK r \in db.run : b = Report(r)
    BY DEF Reports
  <2>3. q.id = r.id
    BY <1>2, <2>1, <2>2 DEF Report
  <2> QED BY <1>1, <2>1, <2>2, <2>3 DEF DatabaseOK
<1>3. EventsOK(db')
  BY <1>1, <1>2, EventsKept
<1>4. ASSUME NEW n \in Notifiers, conn[n].on
      PROVE  lock = {n} /\ StreamOK(db', conn[n]) /\ PostedOK(db', posted, conn[n])
  BY <1>1, <1>4, StreamKept DEF StatusInv
<1> QED BY <1>3, <1>4 DEF StatusInv

LEMMA NoMove == ASSUME db' = db PROVE Moves(db, db')
BY DEF Moves, KeepsEvents

LEMMA StatusEnd ==
    ASSUME StatusInv, NumbersInv', Moves(db, db'), conn' = conn, lock' = lock, posted' = posted,
           NEW c \in Clients, end(c)
    PROVE  StatusInv'
<1>1. DOMAIN s = Clients
  BY DEF StatusInv, NumbersInv, ApprovalInv, SessionsOK
<1>2. SavedReports(s')
  BY <1>1 DEF StatusInv, SavedReports, end, Idle
<1> QED BY <1>2, StatusStep

LEMMA AtCallStatus ==
    ASSUME StatusInv, NEW c \in Clients, NEW call, AtCall(c, call)
    PROVE  /\ DOMAIN s = Clients /\ s[c].on /\ DOMAIN s[c] = {"on", "plan"} /\ s[c].plan.call = call
           /\ PlanOK(Approved, db.next, s[c].plan)
           /\ s[c].plan.call = "save" => ReportOK(s[c].plan.rb.run)
           /\ DatabaseOK(Approved, db) /\ EventsOK(db)
<1>1. NumbersInv /\ DatabaseOK(Approved, db)
  BY DEF StatusInv, NumbersInv, ApprovalInv
<1> QED BY <1>1, AtCallNumbers DEF StatusInv, SavedReports

LEMMA CallStatus ==
    ASSUME StatusInv, NumbersInv', NEW c \in Clients, Call(c)
    PROVE  StatusInv'
<1> DEFINE p == s[c].plan
<1>1. /\ p.call \in {"cancel", "stop", "approve", "save"} /\ PlanOK(Approved, db.next, p)
      /\ p.call = "save" => ReportOK(p.rb.run)
      /\ DatabaseOK(Approved, db) /\ EventsOK(db)
  BY AtCallStatus DEF Call
<1>2. MovesGood(db, apply(p))
  BY <1>1, ApplyMoves
<1>3. Moves(db, db')
  BY <1>2, NoMove DEF Call, commit, MovesGood
<1>4. conn' = conn /\ lock' = lock /\ posted' = posted
  BY DEF Call
<1> QED BY <1>3, <1>4, StatusEnd DEF Call

LEMMA CallLostStatus ==
    ASSUME StatusInv, NumbersInv', NEW c \in Clients, CallLost(c)
    PROVE  StatusInv'
<1> DEFINE p == s[c].plan
<1>1. /\ p.call \in {"approve", "save", "create"} /\ PlanOK(Approved, db.next, p)
      /\ p.call = "save" => ReportOK(p.rb.run)
      /\ DatabaseOK(Approved, db) /\ EventsOK(db)
  BY AtCallStatus DEF CallLost
<1>2. p.call # "create" => MovesGood(db, apply(p))
  BY <1>1, ApplyMoves
<1>3. \A i \in p.todo : MovesGood(db, create(p.rq, i))
  BY <1>1, CreateMoves
<1> HIDE DEF p
<1>4. Moves(db, db')
  <2>1. CASE db' = db
    BY <2>1, NoMove
  <2>2. CASE p.call # "create" /\ RS!IsOK(apply(p)) /\ db' = apply(p)
    BY <1>2, <2>2 DEF MovesGood
  <2>3. CASE p.call = "create" /\ \E i \in p.todo : RS!IsOK(create(p.rq, i)) /\ db' = create(p.rq, i)
    BY <1>3, <2>3 DEF MovesGood
  <2> QED BY <2>1, <2>2, <2>3 DEF CallLost, commit, nextOf, p
<1>5. conn' = conn /\ lock' = lock /\ posted' = posted
  BY DEF CallLost
<1> QED BY <1>4, <1>5, StatusEnd DEF CallLost

LEMMA CreateNextStatus ==
    ASSUME StatusInv, NumbersInv', NEW c \in Clients, CreateNext(c)
    PROVE  StatusInv'
<1> DEFINE p == s[c].plan
<1>1. AtCall(c, "create") /\ conn' = conn /\ lock' = lock /\ posted' = posted
  BY DEF CreateNext
<1>2. /\ DOMAIN s = Clients /\ s[c].on /\ DOMAIN s[c] = {"on", "plan"} /\ p.call = "create"
      /\ PlanOK(Approved, db.next, p) /\ DatabaseOK(Approved, db)
  BY <1>1, AtCallStatus
<1>3. CASE db' = db /\ end(c)
  BY <1>1, <1>3, NoMove, StatusEnd
<1>4. CASE ~(db' = db /\ end(c))
  <2>1. PICK i \in nextOf(p.todo) : /\ RS!IsOK(create(p.rq, i)) /\ db' = create(p.rq, i)
                                    /\ end(c) \/ s' = [s EXCEPT ![c].plan.todo = @ \ {i}]
    BY <1>4 DEF CreateNext
  <2>2. i \in p.todo
    BY DEF nextOf
  <2>3. Moves(db, db')
    BY <1>2, <2>1, <2>2, CreateMoves DEF MovesGood
  <2> SUFFICES ASSUME ~end(c) PROVE StatusInv'
    BY <1>1, <2>3, StatusEnd
  <2> DEFINE q == [p EXCEPT !.todo = p.todo \ {i}]
             x == [s[c] EXCEPT !.plan = q]
  <2>4. s' = [s EXCEPT ![c] = x]
    BY <2>1
  <2>5. q.call = "create"
    BY <1>2 DEF PlanOK, NoPlan
  <2>6. x.plan = q
    BY <1>2
  <2> HIDE DEF q, x
  <2>7. SavedReports(s')
    BY <1>2, <2>4, <2>5, <2>6 DEF SavedReports, StatusInv
  <2> QED BY <1>1, <2>3, <2>7, StatusStep
<1> QED BY <1>3, <1>4

LEMMA RecreateStatus ==
    ASSUME StatusInv, NumbersInv', NEW c \in Clients, RecreateRun(c)
    PROVE  StatusInv'
<1> DEFINE p == s[c].plan
<1>1. AtCall(c, "restart") /\ conn' = conn /\ lock' = lock /\ posted' = posted
  BY DEF RecreateRun, history
<1>2. /\ DOMAIN s = Clients /\ s[c].on /\ DOMAIN s[c] = {"on", "plan"}
      /\ PlanOK(Approved, db.next, p) /\ DatabaseOK(Approved, db)
  BY <1>1, AtCallStatus
<1>3. CASE db' = db /\ end(c)
  BY <1>1, <1>3, NoMove, StatusEnd
<1>4. CASE ~(db' = db /\ end(c))
  <2>1. PICK a \in RS!recreateRun(db, p.run, p.arg) :
          s' = [s EXCEPT ![c].plan.call = "save", ![c].plan.rb = a.rb] /\ db' = a.d
    BY <1>4 DEF RecreateRun
  <2>2. ReportOK(a.rb.run) /\ Moves(db, db')
    BY <1>2, <2>1, RecreateRunMoves DEF Moves
  <2> DEFINE q == [p EXCEPT !.call = "save", !.rb = a.rb]
             x == [s[c] EXCEPT !.plan = q]
  <2>4. s' = [s EXCEPT ![c] = x]
    BY <1>2, <2>1
  <2>5. q.call = "save" /\ q.rb = a.rb
    BY <1>2 DEF PlanOK, NoPlan
  <2>6. x.plan = q
    BY <1>2
  <2> HIDE DEF q, x
  <2>7. SavedReports(s')
    BY <1>2, <2>2, <2>4, <2>5, <2>6 DEF SavedReports, StatusInv
  <2> QED BY <1>1, <2>2, <2>7, StatusStep
<1> QED BY <1>3, <1>4

LEMMA ArriveStatus ==
    ASSUME StatusInv, NumbersInv', NEW c \in Clients, Arrive(c)
    PROVE  StatusInv'
<1>1. PICK rq, p : p \in Route(db, rq, cfg) /\ s' = [s EXCEPT ![c] = [on |-> TRUE, plan |-> p]]
  BY DEF Arrive
<1>2. db' = db /\ conn' = conn /\ lock' = lock /\ posted' = posted
  BY DEF Arrive, history
<1>3. FiniteConfig(cfg) /\ DOMAIN s = Clients /\ SavedReports(s)
  BY DEF StatusInv, NumbersInv, ApprovalInv, SessionsOK
<1>4. p.call # "save"
  BY <1>1, <1>3, RouteOK DEF RoutedOK
<1>5. SavedReports(s')
  BY <1>1, <1>3, <1>4 DEF SavedReports
<1> QED BY <1>2, <1>5, NoMove, StatusStep

LEMMA ReadLogsStatus ==
    ASSUME StatusInv, NumbersInv', NEW c \in Clients, ReadLogs(c)
    PROVE  StatusInv'
<1>1. db' = db /\ conn' = conn /\ lock' = lock /\ posted' = posted
  BY DEF ReadLogs, history
<1>2. ApprovalInv /\ DOMAIN s = Clients /\ SavedReports(s)
  BY DEF StatusInv, NumbersInv, ApprovalInv, SessionsOK
<1>3. CASE end(c)
  BY <1>1, <1>3, NoMove, StatusEnd
<1>4. CASE ~end(c)
  <2>1. PICK x : s' = [s EXCEPT ![c] = x] /\ x.plan.call = "executorlog"
    BY <1>2, <1>4, ReadLogsPlan
  <2>2. SavedReports(s')
    BY <1>2, <2>1 DEF SavedReports
  <2> QED BY <1>1, <2>2, NoMove, StatusStep
<1> QED BY <1>3, <1>4

LEMMA DeleteLogsCallStatus ==
    ASSUME StatusInv, NumbersInv', NEW c \in Clients, DeleteLogsCall(c)
    PROVE  StatusInv'
<1>1. db' = db /\ end(c) /\ conn' = conn /\ lock' = lock /\ posted' = posted
  BY DEF DeleteLogsCall
<1> QED BY <1>1, NoMove, StatusEnd

-----------------------------------------------------------------------------
(* The stream of events *)

(* How many events there are between two numbers. *)
LEMMA EventsBetween ==
    ASSUME NEW d, EventsOK(d), NEW lo \in Nat, NEW hi \in 1 .. eventsOf(d) + 1,
           NEW Y, Y = {e \in d.runevent : e.id > lo /\ e.id < hi}
    PROVE  IsFiniteSet(Y) /\ Cardinality(Y) = IF lo + 1 > hi - 1 THEN 0 ELSE hi - 1 - lo
<1> DEFINE I == lo + 1 .. hi - 1
           f == [i \in I |-> CHOOSE e \in Y : e.id = i]
           m == eventsOf(d)
<1>1. m \in Nat /\ hi \in Nat /\ hi - 1 <= m
  BY DEF EventsOK
<1>2. ASSUME NEW i \in I PROVE f[i] \in Y /\ f[i].id = i
  <2>1. i \in 1 .. m
    BY <1>1
  <2>2. PICK e \in d.runevent : e.id = i
    BY <2>1 DEF EventsOK
  <2>3. e \in Y
    BY <2>2
  <2> QED BY <2>2, <2>3
<1>3. ASSUME NEW e \in Y PROVE \E i \in I : f[i] = e
  <2>1. e.id \in I
    BY <1>1 DEF EventsOK
  <2>2. f[e.id] \in d.runevent /\ f[e.id].id = e.id /\ e \in d.runevent
    BY <1>2, <2>1
  <2>3. f[e.id] = e
    BY <2>2 DEF EventsOK
  <2> QED BY <2>1, <2>3
<1>4. DOMAIN f = I
  OBVIOUS
<1> HIDE DEF f
<1>5. f \in [I -> Y]
  <2>1. f = [i \in I |-> f[i]]
    BY DEF f
  <2> QED BY <1>2, <1>4, <2>1
<1> HIDE DEF I
<1>6. f \in Bijection(I, Y)
  BY <1>2, <1>3, <1>5 DEF Bijection, Injection, Surjection, IsInjective
<1>7. ExistsBijection(I, Y)
  BY <1>6 DEF ExistsBijection
<1>8. lo + 1 \in Int /\ hi - 1 \in Int
  BY <1>1
<1>9. IsFiniteSet(I) /\ Cardinality(I) = IF lo + 1 > hi - 1 THEN 0 ELSE (hi - 1) - (lo + 1) + 1
  BY <1>8, FS_Interval DEF I
<1>10. IsFiniteSet(Y) /\ Cardinality(Y) = Cardinality(I)
  BY <1>7, <1>9, FS_Bijection
<1>11. Cardinality(Y) = IF lo + 1 > hi - 1 THEN 0 ELSE hi - 1 - lo
  BY <1>1, <1>9, <1>10
<1> QED BY <1>10, <1>11

LEMMA EventsCounted ==
    ASSUME NEW d, EventsOK(d)
    PROVE  Cardinality(d.runevent) = eventsOf(d)
<1> DEFINE m == eventsOf(d)
           Y == {e \in d.runevent : e.id > 0 /\ e.id < m + 1}
<1>1. m \in Nat /\ \A e \in d.runevent : e.id \in 1 .. m
  BY DEF EventsOK
<1>2. Y = d.runevent
  BY <1>1
<1>3. m + 1 \in 1 .. eventsOf(d) + 1 /\ 0 \in Nat
  BY <1>1
<1> HIDE DEF Y
<1>4. Cardinality(Y) = IF 0 + 1 > (m + 1) - 1 THEN 0 ELSE (m + 1) - 1 - 0
  BY <1>3, EventsBetween DEF Y
<1> HIDE DEF m
<1>5. Cardinality(Y) = m
  BY <1>1, <1>4
<1> QED BY <1>2, <1>5 DEF m

(* A round reads the next events, up to the limit, in their order. *)
LEMMA NextEvents ==
    ASSUME NEW d, EventsOK(d), NEW cursor \in Nat, cursor <= eventsOf(d)
    PROVE  LET p == RS!sendRunEvents(d, cursor)
           IN  /\ p \in Seq(d.runevent) /\ cursor + Len(p) <= eventsOf(d)
               /\ \A i \in 1 .. Len(p) : p[i].id = cursor + i
<1> DEFINE m == eventsOf(d)
           L == MaxRunEventsLimit
           k == IF m - cursor < L THEN m - cursor ELSE L
           X == {o \in d.runevent : o.id > cursor}
           S == {o \in d.runevent : o.id > cursor /\ o.id < cursor + k + 1}
           upto(o) == {x \in S : x.id <= o.id}
           p == RS!sendRunEvents(d, cursor)
<1>1. m \in Nat /\ L \in Nat \ {0} /\ \A e \in d.runevent : e.id \in 1 .. m
  BY EventsAssumption DEF EventsOK
<1>2. k \in Nat /\ cursor + k <= m /\ k <= L /\ (k < L => cursor + k = m)
  BY <1>1
<1> HIDE DEF k, L
<1>3. RS!GetRunEventsFromSequence(d, cursor, L) = S
  <2> DEFINE before(o) == {x \in X : x.id < o.id}
  <2>1. ASSUME NEW o \in X PROVE Cardinality(before(o)) < L <=> o \in S
    <3>1. before(o) = {x \in d.runevent : x.id > cursor /\ x.id < o.id}
      OBVIOUS
    <3>2. o.id \in 1 .. m /\ o.id > cursor
      BY <1>1
    <3>3. o.id \in 1 .. eventsOf(d) + 1
      BY <1>1, <3>2
    <3> HIDE DEF before
    <3>4. Cardinality(before(o)) = IF cursor + 1 > o.id - 1 THEN 0 ELSE o.id - 1 - cursor
      BY <3>1, <3>3, EventsBetween
    <3>5. Cardinality(before(o)) = o.id - 1 - cursor
      BY <1>1, <3>2, <3>4
    <3>6. o \in S <=> o.id < cursor + k + 1
      BY <3>2
    <3> HIDE DEF X, S
    <3> QED BY <1>1, <1>2, <3>2, <3>5, <3>6
  <2>2. RS!GetRunEventsFromSequence(d, cursor, L) = {o \in X : Cardinality(before(o)) < L}
    BY <1>1, SameCardinality DEF RS!GetRunEventsFromSequence, RS!fetchRunEvents, RS!page
  <2> HIDE DEF before
  <2> QED BY <2>1, <2>2
<1>4. p = [i \in 1 .. RS!Cardinality(S) |-> CHOOSE o \in S : RS!Cardinality(upto(o)) = i]
  <2>1. p = RS!byID(S)
    BY <1>3 DEF RS!sendRunEvents, L
  <2> HIDE DEF S, p
  <2> QED BY <2>1 DEF RS!byID
<1>5. RS!Cardinality(S) = k
  <2>1. cursor + k + 1 \in 1 .. eventsOf(d) + 1
    BY <1>1, <1>2
  <2> HIDE DEF S
  <2>2. Cardinality(S) = IF cursor + 1 > (cursor + k + 1) - 1 THEN 0 ELSE (cursor + k + 1) - 1 - cursor
    BY <2>1, EventsBetween DEF S
  <2> QED BY <1>2, <2>2, SameCardinality
<1>6. ASSUME NEW o \in S PROVE RS!Cardinality(upto(o)) = o.id - cursor
  <2>1. o.id \in 1 .. m /\ o.id > cursor /\ o.id < cursor + k + 1
    BY <1>1
  <2>2. upto(o) = {x \in d.runevent : x.id > cursor /\ x.id < o.id + 1}
    BY <1>1, <1>2, <2>1
  <2>3. o.id + 1 \in 1 .. eventsOf(d) + 1
    BY <1>1, <2>1
  <2> HIDE DEF upto, S
  <2>4. Cardinality(upto(o)) = IF cursor + 1 > (o.id + 1) - 1 THEN 0 ELSE (o.id + 1) - 1 - cursor
    BY <2>2, <2>3, EventsBetween
  <2> QED BY <1>1, <2>1, <2>4, SameCardinality
<1>7. ASSUME NEW i \in 1 .. k PROVE p[i] \in S /\ p[i].id = cursor + i
  <2>1. cursor + i \in 1 .. m
    BY <1>1, <1>2
  <2>2. PICK e \in d.runevent : e.id = cursor + i
    BY <2>1 DEF EventsOK
  <2>3. e \in S
    BY <1>2, <2>2
  <2> HIDE DEF S, upto
  <2>4. RS!Cardinality(upto(e)) = i
    BY <1>2, <1>6, <2>2, <2>3
  <2>5. p[i] = CHOOSE o \in S : RS!Cardinality(upto(o)) = i
    BY <1>4, <1>5
  <2>6. p[i] \in S /\ RS!Cardinality(upto(p[i])) = i
    BY <2>3, <2>4, <2>5
  <2>7. p[i].id - cursor = i /\ p[i].id \in Nat
    BY <1>1, <1>6, <2>6 DEF S
  <2> QED BY <1>2, <2>6, <2>7
<1> HIDE DEF S, p
<1>8. p \in [1 .. k -> d.runevent] /\ DOMAIN p = 1 .. k
  BY <1>4, <1>5, <1>7 DEF S
<1>9. p \in Seq(d.runevent) /\ Len(p) = k
  BY <1>2, <1>8
<1> QED BY <1>2, <1>7, <1>9 DEF p

LEMMA OnlyOne ==
    ASSUME StatusInv, NEW n \in Notifiers, conn[n].on
    PROVE  \A o \in Notifiers : conn[o].on => o = n
BY DEF StatusInv

LEMMA ConnectStatus ==
    ASSUME StatusInv, NumbersInv', NEW n \in Notifiers, Connect(n)
    PROVE  StatusInv'
<1> DEFINE start == RS!startSequence(db, 0)
           c == [on |-> TRUE, start |-> start, cursor |-> start, sent |-> <<>>, missed |-> {}]
<1>1. /\ lock = {} /\ lock' = {n} /\ conn' = [conn EXCEPT ![n] = c]
      /\ db' = db /\ s' = s /\ posted' = posted
  BY DEF Connect, history
<1>2. EventsOK(db) /\ SavedReports(s) /\ DOMAIN conn = Notifiers
  BY DEF StatusInv
<1>3. \A o \in Notifiers : ~conn[o].on
  BY <1>1 DEF StatusInv
<1>4. start \in 0 .. eventsOf(db)
  <2> DEFINE E == RS!GetLastRunEvent(db)
  <2>1. E \subseteq db.runevent
    BY DEF RS!GetLastRunEvent, RS!fetchRunEvents, RS!page
  <2> HIDE DEF E
  <2>2. E # {} => RS!The(E) \in db.runevent
    BY <2>1 DEF RS!The
  <2>3. start = IF E # {} THEN RS!The(E).id ELSE 0
    BY DEF RS!startSequence, E
  <2> QED BY <1>2, <2>2, <2>3 DEF EventsOK
<1> HIDE DEF start
<1>5. eventsOf(db) \in Nat /\ start \in Nat /\ start <= eventsOf(db)
  BY <1>2, <1>4 DEF EventsOK
<1>6. StreamOK(db, c)
  <2>1. Len(c.sent) = 0 /\ c.sent \in Seq(db.runevent) /\ DOMAIN c.sent = {}
    OBVIOUS
  <2>2. handled(c) = start
    BY <1>5, <2>1 DEF handled
  <2> QED BY <1>5, <2>1, <2>2 DEF StreamOK
<1>7. PostedOK(db, posted, c)
  <2>1. handled(c) = start /\ c.start = start
    BY <1>5 DEF handled
  <2> HIDE DEF c
  <2>2. ASSUME NEW e, NEW x, TellsStatus(db, e, x), e.id > start, e.id <= start PROVE FALSE
    <3>1. e \in db.runevent
      BY <2>2 DEF TellsStatus
    <3>2. e.id \in Nat
      BY <1>2, <3>1 DEF EventsOK
    <3> QED BY <1>5, <2>2, <3>2
  <2> QED BY <2>1, <2>2 DEF PostedOK
<1>8. c.on = TRUE
  OBVIOUS
<1> HIDE DEF c
<1>9. ASSUME NEW o \in Notifiers, conn'[o].on
      PROVE  o = n /\ conn'[o] = c
  BY <1>1, <1>2, <1>3, <1>9
<1> QED BY <1>1, <1>2, <1>6, <1>7, <1>9 DEF StatusInv

LEMMA SendRunEventsStatus ==
    ASSUME StatusInv, NumbersInv', NEW n \in Notifiers, SendRunEvents(n)
    PROVE  StatusInv'
<1> DEFINE b == conn[n]
           p == RS!sendRunEvents(db, b.cursor)
           c == conn'[n]
<1>1. b.on /\ p # <<>> /\ conn' = [conn EXCEPT ![n].cursor = Last(p).id, ![n].sent = b.sent \o p]
      /\ lock' = lock /\ db' = db /\ s' = s /\ posted' = posted
  BY DEF SendRunEvents, history
<1>2. /\ EventsOK(db) /\ SavedReports(s) /\ DOMAIN conn = Notifiers
      /\ lock = {n} /\ StreamOK(db, b) /\ PostedOK(db, posted, b)
  BY <1>1 DEF StatusInv
<1> DEFINE m == eventsOf(db)
<1>3. /\ DOMAIN b = {"on", "start", "cursor", "sent", "missed"} /\ b.start \in Nat /\ b.cursor \in Nat
      /\ b.sent \in Seq(db.runevent) /\ b.start <= handled(b) /\ b.cursor <= m /\ m \in Nat
      /\ \A i \in DOMAIN b.sent : b.sent[i].id = handled(b) + i
  BY <1>2 DEF StreamOK, EventsOK
<1>4. /\ p \in Seq(db.runevent) /\ b.cursor + Len(p) <= m
      /\ \A i \in 1 .. Len(p) : p[i].id = b.cursor + i
  BY <1>2, <1>3, NextEvents
<1> HIDE DEF p
<1>5. Len(p) \in Nat \ {0}
  BY <1>1, <1>4, EmptySeq
<1>6. Last(p).id = b.cursor + Len(p)
  BY <1>4, <1>5 DEF Last
<1>7. c.on = b.on /\ c.start = b.start /\ c.cursor = b.cursor + Len(p) /\ c.sent = b.sent \o p
      /\ c.missed = b.missed /\ DOMAIN c = DOMAIN b /\ \A o \in Notifiers : o # n => conn'[o] = conn[o]
  BY <1>1, <1>2, <1>3, <1>6
<1>8. DOMAIN conn' = Notifiers
  BY <1>1, <1>2
<1> HIDE DEF b, c, m
<1>9. c.sent \in Seq(db.runevent) /\ Len(c.sent) = Len(b.sent) + Len(p)
      /\ DOMAIN c.sent = 1 .. Len(b.sent) + Len(p) /\ Len(b.sent) \in Nat
  BY <1>3, <1>4, <1>7
<1>10. handled(c) = handled(b) /\ handled(b) \in Int
  BY <1>3, <1>5, <1>7, <1>9 DEF handled
<1>11. ASSUME NEW i \in DOMAIN c.sent PROVE c.sent[i].id = handled(c) + i
  <2>1. CASE i <= Len(b.sent)
    <3>1. c.sent[i] = b.sent[i] /\ i \in DOMAIN b.sent
      BY <1>3, <1>4, <1>7, <1>9, <2>1
    <3> QED BY <1>3, <1>10, <3>1
  <2>2. CASE i > Len(b.sent)
    <3>1. c.sent[i] = p[i - Len(b.sent)] /\ i - Len(b.sent) \in 1 .. Len(p)
      BY <1>3, <1>4, <1>5, <1>7, <1>9, <2>2
    <3>2. c.sent[i].id = b.cursor + (i - Len(b.sent))
      BY <1>4, <3>1
    <3>3. i \in Nat
      BY <1>9
    <3> QED BY <1>3, <1>9, <1>10, <3>2, <3>3 DEF handled
  <2> QED BY <1>9, <2>1, <2>2
<1>12. StreamOK(db, c)
  BY <1>3, <1>4, <1>5, <1>7, <1>9, <1>10, <1>11 DEF StreamOK, m
<1>13. PostedOK(db, posted, c)
  BY <1>2, <1>7, <1>10 DEF PostedOK
<1>14. ASSUME NEW o \in Notifiers, conn'[o].on PROVE o = n
  BY <1>1, <1>7, <1>14, OnlyOne DEF b
<1> QED BY <1>1, <1>2, <1>8, <1>12, <1>13, <1>14 DEF StatusInv, c

(* What the notifier posts for an event it handles. *)
Post(p, r, ev) ==
    {x \in p : x.key # statusKey(r)} \cup {[key |-> statusKey(r), status |-> commitStatus(ev)]}
Handles(d, ev, p, q) ==
    \/ commitStatus(ev) = "" /\ q = p
    \/ /\ commitStatus(ev) # ""
       /\ \E y \in Reports(d) : /\ y.id = ev.run
                                 /\ q = IF y.group[1] = "user" THEN p ELSE Post(p, y, ev)

(* An event is handled, or its report fails and it is never tried again. *)
LEMMA HandledPosted ==
    ASSUME NEW d, EventsOK(d), \A a, b \in Reports(d) : a.id = b.id => a = b, NEW p, NEW q,
           NEW b, b.start \in Nat, handled(b) \in Nat, PostedOK(d, p, b),
           NEW c, c.start = b.start, handled(c) = handled(b) + 1, b.missed \subseteq c.missed,
           NEW ev \in d.runevent, ev.id = handled(b) + 1,
           Handles(d, ev, p, q) \/ (q = p /\ ev.id \in c.missed)
    PROVE  PostedOK(d, q, c)
<1> DEFINE h == handled(b)
<1> SUFFICES ASSUME NEW e, NEW x, TellsStatus(d, e, x), x.group[1] # "user", e.id > b.start,
                    e.id <= h + 1, Latest(d, e, x, h + 1), e.id \notin c.missed
             PROVE  [key |-> statusKey(x), status |-> commitStatus(e)] \in q
  BY DEF PostedOK
<1>1. e \in d.runevent /\ x \in Reports(d) /\ x.id = e.run
  BY DEF TellsStatus
<1>2. e.id \in Nat /\ \A f \in d.runevent : f.id \in Nat
  BY <1>1 DEF EventsOK
<1>3. CASE e = ev
  <2>1. PICK y \in Reports(d) : y.id = ev.run /\ q = IF y.group[1] = "user" THEN p
                                                     ELSE Post(p, y, ev)
    BY <1>3 DEF Handles, TellsStatus
  <2>2. x = y
    BY <1>1, <1>3, <2>1
  <2>3. q = Post(p, x, e)
    BY <1>3, <2>1, <2>2
  <2> QED BY <2>3 DEF Post
<1>4. CASE e # ev
  <2>1. e.id # h + 1
    BY <1>1, <1>4 DEF EventsOK
  <2>2. e.id <= h
    BY <1>2, <2>1
  <2>3. Latest(d, e, x, h)
    <3> SUFFICES ASSUME NEW f, NEW z, TellsStatus(d, f, z), statusKey(z) = statusKey(x), f.id <= h
                 PROVE  f.id <= e.id
      BY DEF Latest
    <3>1. f \in d.runevent
      BY DEF TellsStatus
    <3>2. f.id <= h + 1
      BY <1>2, <3>1
    <3> QED BY <3>2 DEF Latest
  <2> DEFINE post == [key |-> statusKey(x), status |-> commitStatus(e)]
  <2>4. post \in p
    BY <2>2, <2>3 DEF PostedOK
  <2>5. CASE q = p
    BY <2>4, <2>5
  <2>6. CASE q # p
    <3>1. PICK y \in Reports(d) : y.id = ev.run /\ q = Post(p, y, ev)
      BY <2>6 DEF Handles
    <3>2. TellsStatus(d, ev, y)
      BY <2>6, <3>1 DEF Handles, TellsStatus
    <3>3. statusKey(y) # statusKey(x)
      <4> SUFFICES ASSUME statusKey(y) = statusKey(x) PROVE FALSE
        OBVIOUS
      <4>1. ev.id <= h + 1
        BY <1>2
      <4>2. ev.id <= e.id
        BY <3>2, <4>1 DEF Latest
      <4> QED BY <1>2, <2>2, <4>2
    <3>4. post.key = statusKey(x)
      OBVIOUS
    <3> HIDE DEF post
    <3>5. post \in q
      BY <2>4, <3>1, <3>3, <3>4 DEF Post
    <3> QED BY <3>5 DEF post
  <2> QED BY <2>5, <2>6
<1> QED BY <1>3, <1>4

(* The event at the head of the stream is over, its status posted or missed. *)
LEMMA EventOver ==
    ASSUME StatusInv, NumbersInv', NEW n \in Notifiers, NEW m, lock' = lock, db' = db, s' = s,
           conn[n].on, conn[n].sent # <<>>,
           conn' = [conn EXCEPT ![n].sent = Tail(@), ![n].missed = @ \cup m],
           \/ Handles(db, Head(conn[n].sent), posted, posted')
           \/ posted' = posted /\ Head(conn[n].sent).id \in m
    PROVE  StatusInv'
<1> DEFINE b == conn[n]
           c == conn'[n]
           ev == Head(b.sent)
<1>1. b.on /\ b.sent # <<>>
  OBVIOUS
<1>2. /\ EventsOK(db) /\ SavedReports(s) /\ DOMAIN conn = Notifiers
      /\ lock = {n} /\ StreamOK(db, b) /\ PostedOK(db, posted, b)
  BY <1>1 DEF StatusInv
<1>3. /\ DOMAIN b = {"on", "start", "cursor", "sent", "missed"} /\ b.start \in Nat /\ b.cursor \in Nat
      /\ b.sent \in Seq(db.runevent) /\ b.start <= handled(b) /\ b.cursor <= eventsOf(db)
      /\ \A i \in DOMAIN b.sent : b.sent[i].id = handled(b) + i
  BY <1>2 DEF StreamOK
<1>4. /\ c.on = b.on /\ c.start = b.start /\ c.cursor = b.cursor /\ c.sent = Tail(b.sent)
      /\ c.missed = b.missed \cup m /\ DOMAIN c = DOMAIN b /\ \A o \in Notifiers : o # n => conn'[o] = conn[o]
  BY <1>1, <1>2, <1>3
<1>5. DOMAIN conn' = Notifiers
  BY <1>1, <1>2
<1>6. /\ Len(b.sent) \in Nat \ {0} /\ ev = b.sent[1] /\ ev \in db.runevent
      /\ c.sent \in Seq(db.runevent) /\ Len(c.sent) = Len(b.sent) - 1
      /\ \A i \in 1 .. Len(b.sent) - 1 : c.sent[i] = b.sent[i + 1]
  <2> DEFINE u == b.sent
  <2>1. u \in Seq(db.runevent) /\ u # <<>>
    BY <1>1, <1>3
  <2>2. c.sent = Tail(u)
    BY <1>4
  <2> HIDE DEF u, b, c
  <2>3. Len(u) \in Nat \ {0} /\ Head(u) = u[1] /\ u[1] \in db.runevent
    BY <2>1, EmptySeq
  <2>4. /\ Tail(u) \in Seq(db.runevent) /\ Len(Tail(u)) = Len(u) - 1
        /\ \A i \in 1 .. Len(u) - 1 : Tail(u)[i] = u[i + 1]
    BY <2>1, HeadTailProperties
  <2> QED BY <2>2, <2>3, <2>4 DEF u
<1>7. ASSUME NEW x \in Reports(db), NEW y \in Reports(db), x.id = y.id PROVE x = y
  <2>1. \A q, r \in db.run : q.id = r.id => q = r
    BY DEF StatusInv, NumbersInv, ApprovalInv, DatabaseOK
  <2>2. PICK q \in db.run : x = Report(q)
    BY DEF Reports
  <2>3. PICK r \in db.run : y = Report(r)
    BY DEF Reports
  <2>4. q.id = r.id
    BY <1>7, <2>2, <2>3 DEF Report
  <2> QED BY <2>1, <2>2, <2>3, <2>4
<1>8. Handles(db, ev, posted, posted') \/ (posted' = posted /\ ev.id \in c.missed)
  BY <1>4
<1> HIDE DEF b, c, ev
<1>9. handled(c) = handled(b) + 1 /\ handled(b) \in Nat /\ handled(c) \in Nat
  BY <1>3, <1>4, <1>6 DEF handled
<1>10. StreamOK(db, c)
  <2>1. ASSUME NEW i \in DOMAIN c.sent PROVE c.sent[i].id = handled(c) + i
    <3>1. i \in 1 .. Len(b.sent) - 1
      BY <1>6
    <3>2. i + 1 \in DOMAIN b.sent
      BY <1>3, <1>6, <3>1
    <3>3. c.sent[i].id = handled(b) + (i + 1)
      BY <1>3, <1>6, <3>1, <3>2
    <3> QED BY <1>9, <3>1, <3>3
  <2> QED BY <1>3, <1>4, <1>6, <1>9, <2>1 DEF StreamOK
<1>11. ev.id = handled(b) + 1
  <2>1. 1 \in DOMAIN b.sent
    BY <1>3, <1>6
  <2> QED BY <1>3, <1>6, <2>1
<1>12. PostedOK(db, posted', c)
  BY <1>2, <1>3, <1>4, <1>6, <1>7, <1>8, <1>9, <1>11, HandledPosted
<1>13. ASSUME NEW o \in Notifiers, conn'[o].on PROVE o = n
  BY <1>1, <1>4, <1>13, OnlyOne DEF b
<1> QED BY <1>1, <1>2, <1>5, <1>10, <1>12, <1>13 DEF StatusInv, c

LEMMA HandleEventStatus ==
    ASSUME StatusInv, NumbersInv', NEW n \in Notifiers, HandleEvent(n)
    PROVE  StatusInv'
<1> DEFINE b == conn[n]
           ev == Head(b.sent)
<1>1. b.on /\ b.sent # <<>> /\ conn' = [conn EXCEPT ![n].sent = Tail(b.sent)]
      /\ lock' = lock /\ db' = db /\ s' = s
  BY DEF HandleEvent
<1>2. Handles(db, ev, posted, posted')
  <2>1. CASE commitStatus(ev) = ""
    BY <2>1 DEF HandleEvent, Handles
  <2>2. CASE commitStatus(ev) # ""
    <3>1. PICK a \in RS!RunHandler(db, ev.run, {}) :
            posted' = IF GroupTypeIDFromRunGroup(a.run.group)[1] = "user" THEN posted
                      ELSE Post(posted, a.run, ev)
      BY <2>2 DEF HandleEvent, Post
    <3>2. a.run \in db.run /\ a.run.id = ev.run
      BY <3>1 DEF RS!RunHandler, RS!answer, RS!GetRun, RS!fetchRuns
    <3>3. GroupOK(Bases(scene), a.run.group)
      <4>1. Number(a.run) \in Numbers(db) /\ Number(a.run).group = a.run.group
        BY <3>2 DEF Numbers, Number
      <4> QED BY <4>1 DEF StatusInv, NumbersInv, NumbersOK
    <3>4. GroupTypeIDFromRunGroup(a.run.group)[1] = a.run.group[1]
      BY <3>3, PairPath
    <3> DEFINE y == Report(a.run)
    <3>5. y \in Reports(db)
      BY <3>2 DEF Reports
    <3>6. y.id = ev.run /\ y.group = a.run.group /\ statusKey(y) = statusKey(a.run)
      BY <3>2 DEF Report, statusKey
    <3>7. Post(posted, y, ev) = Post(posted, a.run, ev)
      BY <3>6 DEF Post
    <3> HIDE DEF y, ev
    <3> QED BY <2>2, <3>1, <3>4, <3>5, <3>6, <3>7 DEF Handles
  <2> QED BY <2>1, <2>2
<1>3. conn' = [conn EXCEPT ![n].sent = Tail(@), ![n].missed = @ \cup {}]
  <2>1. DOMAIN conn = Notifiers /\ DOMAIN b = {"on", "start", "cursor", "sent", "missed"}
    BY <1>1 DEF StatusInv, StreamOK
  <2> QED BY <1>1, <2>1
<1> QED BY <1>1, <1>2, <1>3, EventOver

LEMMA EventFailsStatus ==
    ASSUME StatusInv, NumbersInv', NEW n \in Notifiers, EventFails(n)
    PROVE  StatusInv'
<1> DEFINE m == {Head(conn[n].sent).id}
<1>1. /\ conn[n].on /\ conn[n].sent # <<>>
      /\ conn' = [conn EXCEPT ![n].sent = Tail(@), ![n].missed = @ \cup m]
      /\ lock' = lock /\ db' = db /\ s' = s /\ posted' = posted
  BY DEF EventFails, history
<1>2. Head(conn[n].sent).id \in m
  OBVIOUS
<1> HIDE DEF m
<1> QED BY <1>1, <1>2, EventOver

LEMMA DisconnectStatus ==
    ASSUME StatusInv, NumbersInv', NEW n \in Notifiers, Disconnect(n)
    PROVE  StatusInv'
<1>1. /\ conn[n].on /\ conn' = [conn EXCEPT ![n] = Idle] /\ db' = db /\ s' = s
  BY DEF Disconnect, history
<1>2. EventsOK(db) /\ SavedReports(s) /\ DOMAIN conn = Notifiers
  BY DEF StatusInv
<1>3. \A o \in Notifiers : ~conn'[o].on
  BY <1>1, <1>2, OnlyOne DEF Idle
<1> QED BY <1>1, <1>2, <1>3 DEF StatusInv

LEMMA InitialStatus == ASSUME Init PROVE StatusInv
<1>1. NumbersInv
  BY InitialNumbers
<1>2. /\ scene \in DOMAIN Scenarios /\ db = Start(Scenarios[scene].start)
      /\ s = [c \in Clients |-> Idle] /\ conn = [n \in Notifiers |-> Idle]
  BY DEF Init
<1>3. EventsOK(db)
  BY <1>2, EventsAssumption
<1>4. SavedReports(s) /\ DOMAIN conn = Notifiers /\ \A n \in Notifiers : ~conn[n].on
  BY <1>2 DEF SavedReports, Idle
<1> QED BY <1>1, <1>3, <1>4 DEF StatusInv

LEMMA StatusInvKept == ASSUME StatusInv, [Next]_vars PROVE StatusInv'
<1>1. DatabaseOK(Approved, db) /\ EventsOK(db) /\ SavedReports(s) /\ NumbersInv
  BY DEF StatusInv, NumbersInv, ApprovalInv
<1>2. NumbersInv'
  BY <1>1, NumbersInvKept
<1>3. ASSUME Moves(db, db'), s' = s, conn' = conn, lock' = lock, posted' = posted
      PROVE  StatusInv'
  BY <1>1, <1>2, <1>3, StatusStep
<1>4. ASSUME NEW c \in Clients, Arrive(c) PROVE StatusInv'
  BY <1>2, <1>4, ArriveStatus
<1>5. ASSUME NEW c \in Clients, Call(c) PROVE StatusInv'
  BY <1>2, <1>5, CallStatus
<1>6. ASSUME NEW c \in Clients, CreateNext(c) PROVE StatusInv'
  BY <1>2, <1>6, CreateNextStatus
<1>7. ASSUME NEW c \in Clients, RecreateRun(c) PROVE StatusInv'
  BY <1>2, <1>7, RecreateStatus
<1>8. ASSUME NEW c \in Clients, DeleteLogsCall(c) PROVE StatusInv'
  BY <1>2, <1>8, DeleteLogsCallStatus
<1>9. ASSUME NEW c \in Clients, CallLost(c) PROVE StatusInv'
  BY <1>2, <1>9, CallLostStatus
<1>10. CASE StartRun
  BY <1>1, <1>3, <1>10, StartRunMoves DEF StartRun, history
<1>11. CASE ReadApprovals
  BY <1>1, <1>3, <1>11, ReadApprovalsMoves DEF ReadApprovals, history
<1>12. CASE ApproveTask
  BY <1>1, <1>3, <1>12, ApproveTaskMoves DEF ApproveTask, history
<1>13. CASE compactChangeGroups
  BY <1>1, <1>3, <1>13, CompactMoves DEF compactChangeGroups, history
<1>14. CASE AdvanceRun
  BY <1>1, <1>3, <1>14, AdvanceRunMoves DEF AdvanceRun, history
<1>15. CASE SubmitTask
  BY <1>1, <1>3, <1>15, SubmitTaskMoves DEF SubmitTask, history
<1>16. CASE TaskEnds
  BY <1>1, <1>3, <1>16, TaskEndsMoves DEF TaskEnds, history
<1>17. CASE TaskFetcher
  BY <1>1, <1>3, <1>17, TaskFetcherMoves DEF TaskFetcher, history
<1>18. CASE DropExecutorTask
  BY <1>1, <1>3, <1>18, DropExecutorTaskMoves DEF DropExecutorTask, history
<1>19. CASE finishedRunArchiver
  BY <1>1, <1>3, <1>19, ArchiverMoves DEF finishedRunArchiver, history
<1>20. ASSUME NEW n \in Notifiers, Connect(n) PROVE StatusInv'
  BY <1>2, <1>20, ConnectStatus
<1>21. ASSUME NEW n \in Notifiers, SendRunEvents(n) PROVE StatusInv'
  BY <1>2, <1>21, SendRunEventsStatus
<1>22. ASSUME NEW n \in Notifiers, HandleEvent(n) PROVE StatusInv'
  BY <1>2, <1>22, HandleEventStatus
<1>23. ASSUME NEW n \in Notifiers, Disconnect(n) PROVE StatusInv'
  BY <1>2, <1>23, DisconnectStatus
<1>24. CASE UNCHANGED vars
  BY <1>3, <1>24, NoMove DEF vars, history
<1>25. ASSUME NEW c \in Clients, ReadLogs(c) PROVE StatusInv'
  BY <1>2, <1>25, ReadLogsStatus
<1>26. ASSUME NEW c \in Clients, ReadExecutorLog(c) PROVE StatusInv'
  BY <1>2, <1>26, NoMove, StatusEnd DEF ReadExecutorLog, history
<1>27. CASE ExecutorLoses
  BY <1>3, <1>27, NoMove DEF ExecutorLoses, history
<1>28. ASSUME NEW n \in Notifiers, EventFails(n) PROVE StatusInv'
  BY <1>2, <1>28, EventFailsStatus
<1> QED BY <1>4, <1>5, <1>6, <1>7, <1>8, <1>9, <1>10, <1>11, <1>12, <1>13, <1>14, <1>15, <1>16,
           <1>17, <1>18, <1>19, <1>20, <1>21, <1>22, <1>23, <1>24, <1>25, <1>26, <1>27,
           <1>28 DEF Next

-----------------------------------------------------------------------------
(* What the stream says of the status of a commit *)

LEMMA LastEvent ==
    ASSUME NEW d, EventsOK(d), NEW Y, Y \subseteq d.runevent, Y # {}
    PROVE  \E y \in Y : \A z \in Y : z.id <= y.id
<1> DEFINE m == eventsOf(d)
           T == {m - e.id : e \in Y}
<1>1. m \in Nat /\ \A e \in Y : e.id \in 1 .. m
  BY DEF EventsOK
<1>2. T \subseteq Nat /\ T # {}
  BY <1>1
<1>3. \A e \in Y : m - e.id \in T
  OBVIOUS
<1>4. \A t \in T : \E e \in Y : t = m - e.id
  OBVIOUS
<1> HIDE DEF T, m
<1>5. PICK t \in T : \A u \in T : t <= u
  BY <1>2, LeastNatural
<1>6. PICK y \in Y : t = m - y.id
  BY <1>4
<1>7. ASSUME NEW z \in Y PROVE z.id <= y.id
  <2>1. m - y.id <= m - z.id
    BY <1>3, <1>5, <1>6
  <2> QED BY <1>1, <2>1
<1> QED BY <1>7

LEMMA StatusGivesCurrent == ASSUME StatusInv PROVE CommitStatusCurrent
<1> DEFINE mine(r) == UNION {told(db, x.id) : x \in {y \in db.run : statusKey(y) = statusKey(r)}}
           last(r) == CHOOSE e \in mine(r) : \A f \in mine(r) : f.id <= e.id
<1> SUFFICES ASSUME NEW n \in Notifiers, conn[n].on, conn[n].sent = <<>>, NEW r \in db.run,
                    conn[n].cursor = Cardinality(db.runevent), mine(r) # {},
                    last(r).run = r.id, last(r).id > conn[n].start,
                    last(r).id \notin conn[n].missed, r.group[1] # "user"
             PROVE  [key |-> statusKey(r), status |-> statusNow(r)] \in posted
  BY DEF CommitStatusCurrent
<1> DEFINE c == conn[n]
           e == last(r)
           x == Report(r)
           m == eventsOf(db)
<1>1. EventsOK(db) /\ StreamOK(db, c) /\ PostedOK(db, posted, c)
  BY DEF StatusInv
<1>2. mine(r) \subseteq db.runevent
  BY DEF told
<1>3. ASSUME NEW q \in db.run, statusKey(q) = statusKey(r), NEW f \in told(db, q.id)
      PROVE  f \in mine(r)
  BY <1>3
<1>4. ASSUME NEW f \in mine(r) PROVE commitStatus(f) # ""
  BY DEF told
<1> HIDE DEF mine
<1>5. e \in mine(r) /\ \A f \in mine(r) : f.id <= e.id
  <2>1. \E y \in mine(r) : \A z \in mine(r) : z.id <= y.id
    BY <1>1, <1>2, LastEvent
  <2> QED BY <2>1
<1>6. e.run = r.id /\ e.id > c.start /\ e.id \notin c.missed
  OBVIOUS
<1> HIDE DEF last
<1>7. x \in Reports(db) /\ x.id = r.id /\ x.group = r.group /\ statusKey(x) = statusKey(r)
      /\ statusNow(x) = statusNow(r)
  BY DEF Reports, Report, statusKey, statusNow
<1>8. TellsStatus(db, e, x)
  BY <1>2, <1>4, <1>5, <1>6, <1>7 DEF TellsStatus
<1>9. handled(c) = m /\ m \in Nat
  <2>1. c.cursor = m
    BY <1>1, EventsCounted
  <2>2. m \in Nat
    BY <1>1 DEF EventsOK
  <2>3. Len(c.sent) = 0
    OBVIOUS
  <2> HIDE DEF c, m
  <2> QED BY <2>1, <2>2, <2>3 DEF handled
<1>10. e.id <= handled(c)
  BY <1>1, <1>2, <1>5, <1>9 DEF EventsOK
<1>11. Latest(db, e, x, handled(c))
  <2> SUFFICES ASSUME NEW f, NEW y, TellsStatus(db, f, y), statusKey(y) = statusKey(x)
               PROVE  f.id <= e.id
    BY DEF Latest
  <2>1. PICK q \in db.run : y = Report(q)
    BY DEF TellsStatus, Reports
  <2>2. q.id = y.id /\ statusKey(q) = statusKey(r)
    BY <1>7, <2>1 DEF Report, statusKey
  <2>3. f \in told(db, q.id)
    BY <2>2 DEF TellsStatus, told
  <2> QED BY <1>3, <1>5, <2>2, <2>3
<1>12. [key |-> statusKey(x), status |-> commitStatus(e)] \in posted
  BY <1>1, <1>6, <1>7, <1>8, <1>10, <1>11 DEF PostedOK
<1>13. commitStatus(e) = statusNow(x)
  <2>1. e \in told(db, x.id)
    BY <1>8 DEF TellsStatus, told
  <2>2. \A f \in told(db, x.id) : f.id <= e.id
    BY <1>3, <1>5, <1>7
  <2> QED BY <1>1, <1>7, <2>1, <2>2 DEF EventsOK
<1> QED BY <1>7, <1>12, <1>13

-----------------------------------------------------------------------------
(* In every reachable state in which the notifier has handled all events,   *)
(* the status posted for a commit in the context of a run's name is that of *)
(* the run that changed last, as the run is now, if its last change came    *)
(* after the connection and the report of it didn't fail: however the       *)
(* events of several runs of the commit, the pages in which they are sent,  *)
(* failed reports of others, connections that break and the requests        *)
(* interleave, and whatever the limit of a page.                            *)
THEOREM CommitStatusAlwaysCurrent == Spec => []CommitStatusCurrent
<1>1. Init => StatusInv
  BY InitialStatus
<1>2. StatusInv /\ [Next]_vars => StatusInv'
  BY StatusInvKept
<1>3. StatusInv => CommitStatusCurrent
  BY StatusGivesCurrent
<1> QED BY <1>1, <1>2, <1>3, PTL DEF Spec
===============================================================================
