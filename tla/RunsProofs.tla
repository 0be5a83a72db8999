------------------------------ MODULE RunsProofs ------------------------------
(***************************************************************************)
(* A proof about Runs: whatever requests come and in whatever order the    *)
(* services make their calls, a task that needs an approval is executed    *)
(* only if an owner asked for it.                                          *)
(***************************************************************************)
EXTENDS Runs, FiniteSetTheorems, TLAPS

(* The tasks whose approval an owner asked for. *)
Approved == {a.task : a \in {x \in asked : x.user \in Owners}}

PlanOK(T, n, p) ==
    /\ DOMAIN p = DOMAIN NoPlan
    /\ p.call = "approve" => p.task \in T
    /\ p.call = "save" => RunConfigOK(n, p.rb.rc) /\ RunOK(T, p.rb.run, p.rb.rc)
    /\ \A i \in p.todo : i # 0 => IsFiniteSet(DOMAIN p.rq.config.runs[i].tasks)

SessionOK(T, n, x) == x.on => DOMAIN x = {"on", "plan"} /\ PlanOK(T, n, x.plan)
SessionsOK(T, n, ss) == DOMAIN ss = Clients /\ \A c \in Clients : SessionOK(T, n, ss[c])

(* The scheduler has read the approvers of the tasks it is about to approve. *)
LoopOK(T, a) ==
    a.on => /\ DOMAIN a = {"on", "run", "token", "todo"}
            /\ \A t \in a.todo : hasApprovers(a.run.tasks[t]) => t \in T

ApprovalInv ==
    /\ DatabaseOK(Approved, db) /\ FiniteConfig(cfg)
    /\ SessionsOK(Approved, db.next, s) /\ LoopOK(Approved, appr)

LEMMA SameCardinality == ASSUME NEW S PROVE RS!Cardinality(S) = Cardinality(S)
BY DEF RS!Cardinality, Cardinality

-----------------------------------------------------------------------------
(* Writes *)

Shape(d) == DOMAIN d = RS!Tables \cup {"next"}

LEMMA ShapeOK == ASSUME NEW d, Shape(d) PROVE RS!IsOK(d)
BY DEF Shape, RS!IsOK, RS!Refused, RS!Tables

LEMMA RefusedNotOK == ~RS!IsOK(RS!Refused)
BY DEF RS!IsOK

LEMMA WriteShape ==
    ASSUME NEW d, Shape(d), NEW k \in RS!Tables, NEW rows
    PROVE  /\ Shape(RS!write(d, k, rows))
           /\ RS!write(d, k, rows)[k] = {o \in d[k] : \A new \in rows : o.id # new.id} \cup rows
           /\ \A j \in RS!Tables \cup {"next"} : j # k => RS!write(d, k, rows)[j] = d[j]
BY DEF Shape, RS!write

LEMMA WithoutShape ==
    ASSUME NEW d, Shape(d), NEW k \in RS!Tables, NEW ids
    PROVE  /\ Shape(RS!without(d, k, ids))
           /\ RS!without(d, k, ids)[k] = {o \in d[k] : o.id \notin ids}
           /\ \A j \in RS!Tables \cup {"next"} : j # k => RS!without(d, k, ids)[j] = d[j]
BY DEF Shape, RS!without

(* e is d but for tables that nothing here depends on *)
Same(d, e) ==
    /\ Shape(e) /\ e.run = d.run /\ e.runconfig = d.runconfig
    /\ e.executortask = d.executortask /\ e.next \in Nat /\ d.next <= e.next

(* e, if it isn't an error, is a database after d *)
Good(T, d, e) == RS!IsOK(e) => DatabaseOK(T, e) /\ d.next <= e.next

LEMMA RunConfigLater ==
    ASSUME NEW n \in Nat, NEW m \in Nat, n <= m, NEW rc, RunConfigOK(n, rc)
    PROVE  RunConfigOK(m, rc)
BY DEF RunConfigOK

LEMMA SameOK ==
    ASSUME NEW T, NEW d, DatabaseOK(T, d), NEW e, Same(d, e)
    PROVE  DatabaseOK(T, e)
BY RunConfigLater DEF DatabaseOK, Same, Shape

LEMMA SameTwice ==
    ASSUME NEW c, c.next \in Nat, NEW d, Same(c, d), NEW e, Same(d, e)
    PROVE  Same(c, e)
BY DEF Same

(* T may grow. *)
LEMMA DatabaseMore ==
    ASSUME NEW T, NEW U, T \subseteq U, NEW d, DatabaseOK(T, d)
    PROVE  DatabaseOK(U, d)
<1>1. \A r, rc : RunOK(T, r, rc) => RunOK(U, r, rc)
  BY DEF RunOK, TaskOK
<1>2. \A e, rc : ExecutorTaskOK(T, e, rc) => ExecutorTaskOK(U, e, rc)
  BY DEF ExecutorTaskOK
<1> QED BY <1>1, <1>2 DEF DatabaseOK

(* A write to another table. *)
LEMMA WriteSame ==
    ASSUME NEW d, Shape(d), d.next \in Nat, NEW rows,
           NEW k \in RS!Tables \ {"run", "runconfig", "executortask"}
    PROVE  Same(d, RS!write(d, k, rows))
<1>1. "next" # k
  BY DEF RS!Tables
<1>2. {"run", "runconfig", "executortask"} \subseteq RS!Tables
  BY DEF RS!Tables
<1> QED BY <1>1, <1>2, WriteShape DEF Same

LEMMA WithoutSame ==
    ASSUME NEW d, Shape(d), d.next \in Nat, NEW ids,
           NEW k \in RS!Tables \ {"run", "runconfig", "executortask"}
    PROVE  Same(d, RS!without(d, k, ids))
<1>1. "next" # k
  BY DEF RS!Tables
<1>2. {"run", "runconfig", "executortask"} \subseteq RS!Tables
  BY DEF RS!Tables
<1> QED BY <1>1, <1>2, WithoutShape DEF Same

LEMMA FreshSame ==
    ASSUME NEW d, Shape(d), d.next \in Nat, NEW n \in Nat
    PROVE  Same(d, RS!Fresh(d, n)) /\ RS!Fresh(d, n).next = d.next + n
BY DEF Shape, Same, RS!Fresh, RS!Tables

LEMMA EventSame ==
    ASSUME NEW d, Shape(d), d.next \in Nat, NEW run, RS!IsOK(RS!withEvent(d, run))
    PROVE  Same(d, RS!withEvent(d, run))
<1> DEFINE seq == RS!NextSequence(d, "runevent")
           ev == RS!NewRunEvent(d, run)
           d1 == RS!write(d, "sequence", {seq})
           d2 == RS!write(d1, "runevent", {ev})
<1>1. Same(d, d1)
  BY WriteSame DEF RS!Tables
<1>2. Same(d1, d2)
  BY <1>1, WriteSame DEF RS!Tables, Same
<1>3. RS!withEvent(d, run) \in {d2, RS!Refused}
  BY ShapeOK, <1>1 DEF RS!withEvent, RS!InsertOrUpdateSequence, RS!InsertRunEvent, RS!insert,
     RS!insertOrUpdate, Same
<1>4. RS!withEvent(d, run) = d2
  BY <1>3, RefusedNotOK
<1> QED BY <1>1, <1>2, <1>4, SameTwice

LEMMA ChangeGroupsSame ==
    ASSUME NEW d, Shape(d), d.next \in Nat, NEW token, RS!IsOK(RS!UpdateChangeGroups(d, token))
    PROVE  Same(d, RS!UpdateChangeGroups(d, token))
<1> DEFINE d1 == RS!Fresh(d, 1)
           rows == {[id |-> o.id, value |-> d.next] : o \in token}
           d2 == RS!write(d1, "changegroup", rows)
<1>1. Same(d, d)
  BY DEF Same
<1>2. Same(d, d1)
  BY FreshSame
<1>3. Same(d1, d2)
  BY <1>2, WriteSame DEF RS!Tables, Same
<1>4. RS!UpdateChangeGroups(d, token) \in {d, d2, RS!Refused}
  BY <1>2, ShapeOK DEF RS!UpdateChangeGroups, RS!InsertOrUpdateChangeGroup, RS!insertOrUpdate, Same
<1> QED BY <1>1, <1>2, <1>3, <1>4, SameTwice, RefusedNotOK

LEMMA GroupTokensSame ==
    ASSUME NEW d, Shape(d), d.next \in Nat, NEW names
    PROVE  Same(d, RS!GetChangeGroupsUpdateTokens(d, names))
<1> DEFINE d1 == RS!Fresh(d, 1)
           rows == {[id |-> n, value |-> d.next] :
                      n \in {x \in names : ~RS!HasID(d, "changegroup", x)}}
           d2 == RS!write(d1, "changegroup", rows)
<1>1. Same(d, d)
  BY DEF Same
<1>2. Same(d, d1)
  BY FreshSame
<1>3. Same(d1, d2)
  BY <1>2, WriteSame DEF RS!Tables, Same
<1>4. RS!GetChangeGroupsUpdateTokens(d, names) \in {d, d2}
  BY <1>2, ShapeOK
  DEF RS!GetChangeGroupsUpdateTokens, RS!InsertOrUpdateChangeGroup, RS!insertOrUpdate, Same
<1> QED BY <1>1, <1>2, <1>3, <1>4, SameTwice

(* Replacing a run by one with the same id and run config. *)
LEMMA UpdateRunOK ==
    ASSUME NEW T, NEW d, DatabaseOK(T, d), NEW r \in d.run, NEW n, n.id = r.id, n.rc = r.rc,
           \A rc \in d.runconfig : rc.id = r.rc /\ RunOK(T, r, rc) => RunOK(T, n, rc)
    PROVE  /\ RS!UpdateRun(d, n) = RS!write(d, "run", {n})
           /\ DatabaseOK(T, RS!UpdateRun(d, n)) /\ RS!UpdateRun(d, n).next = d.next
<1> DEFINE e == RS!write(d, "run", {n})
<1>1. Shape(d) /\ RS!IsOK(d) /\ "run" \in RS!Tables
  BY ShapeOK DEF Shape, DatabaseOK, RS!Tables
<1>2. RS!UpdateRun(d, n) = e
  BY <1>1 DEF RS!UpdateRun, RS!update, RS!HasID
<1>3. /\ Shape(e) /\ e.run = {o \in d.run : o.id # n.id} \cup {n}
      /\ e.runconfig = d.runconfig /\ e.executortask = d.executortask /\ e.next = d.next
  BY <1>1, WriteShape DEF RS!Tables
<1>4. ASSUME NEW o \in d.run PROVE \E x \in e.run : x.id = o.id /\ x.rc = o.rc
  BY <1>3 DEF DatabaseOK
<1> HIDE DEF e
<1>5. DatabaseOK(T, e)
  BY <1>3, <1>4 DEF DatabaseOK, Shape
<1> QED BY <1>2, <1>3, <1>5 DEF e

-----------------------------------------------------------------------------
(* Changes of a run *)

(* new may take the place of r *)
Keeps(T, d, r, new) ==
    /\ new.id = r.id /\ new.rc = r.rc
    /\ \A rc \in d.runconfig : rc.id = r.rc /\ RunOK(T, r, rc) => RunOK(T, new, rc)

LEMMA RunFound ==
    ASSUME NEW d, NEW id, RS!GetRun(d, id) # {}
    PROVE  RS!The(RS!GetRun(d, id)) \in d.run /\ RS!The(RS!GetRun(d, id)).id = id
BY DEF RS!The, RS!GetRun, RS!fetchRuns

LEMMA EventGood ==
    ASSUME NEW T, NEW d, NEW e, DatabaseOK(T, e), d.next \in Nat, d.next <= e.next, NEW run
    PROVE  Good(T, d, RS!withEvent(e, run))
<1> SUFFICES ASSUME RS!IsOK(RS!withEvent(e, run))
             PROVE  DatabaseOK(T, RS!withEvent(e, run)) /\ d.next <= RS!withEvent(e, run).next
  BY DEF Good
<1>1. Shape(e) /\ e.next \in Nat
  BY DEF Shape, DatabaseOK
<1>2. Same(e, RS!withEvent(e, run))
  BY <1>1, EventSame
<1> QED BY <1>1, <1>2, SameOK DEF Same

LEMMA ChangeRunOK ==
    ASSUME NEW T, NEW d, DatabaseOK(T, d), NEW id, NEW token, NEW allowed \in BOOLEAN, NEW new,
           RS!GetRun(d, id) # {} /\ allowed => Keeps(T, d, RS!The(RS!GetRun(d, id)), new)
    PROVE  Good(T, d, RS!changeRun(d, id, token, allowed, new))
<1> DEFINE r == RS!The(RS!GetRun(d, id))
           d1 == RS!UpdateChangeGroups(d, token)
           d2 == RS!UpdateRun(d1, new)
           e == RS!changeRun(d, id, token, allowed, new)
<1> SUFFICES ASSUME RS!IsOK(e) PROVE DatabaseOK(T, e) /\ d.next <= e.next
  BY DEF Good
<1>1. RS!GetRun(d, id) # {} /\ allowed
  BY RefusedNotOK DEF RS!changeRun
<1>2. r \in d.run /\ Keeps(T, d, r, new)
  BY <1>1, RunFound
<1>3. e \in {d2, RS!withEvent(d2, new)}
  BY <1>1 DEF RS!changeRun
<1>4. CASE ~RS!IsOK(d1)
  <2>1. ~RS!IsOK(d2)
    BY <1>4, RefusedNotOK DEF RS!UpdateRun, RS!update
  <2>2. ~RS!IsOK(RS!withEvent(d2, new))
    BY <2>1, RefusedNotOK DEF RS!withEvent, RS!InsertOrUpdateSequence, RS!InsertRunEvent, RS!insert,
       RS!insertOrUpdate
  <2> QED BY <1>3, <2>1, <2>2
<1>5. CASE RS!IsOK(d1)
  <2>1. Shape(d) /\ d.next \in Nat
    BY DEF Shape, DatabaseOK
  <2>2. Same(d, d1) /\ DatabaseOK(T, d1)
    BY <1>5, <2>1, ChangeGroupsSame, SameOK
  <2>3. /\ r \in d1.run
        /\ \A rc \in d1.runconfig : rc.id = r.rc /\ RunOK(T, r, rc) => RunOK(T, new, rc)
    BY <1>2, <2>2 DEF Same, Keeps
  <2>4. new.id = r.id /\ new.rc = r.rc
    BY <1>2 DEF Keeps
  <2> HIDE DEF r, d1
  <2>5. DatabaseOK(T, d2) /\ d2.next = d1.next
    BY <2>2, <2>3, <2>4, UpdateRunOK
  <2>6. d.next <= d2.next
    BY <2>2, <2>5 DEF Same
  <2> HIDE DEF d2
  <2>7. Good(T, d, RS!withEvent(d2, new))
    BY <2>1, <2>5, <2>6, EventGood
  <2> QED BY <1>3, <2>5, <2>6, <2>7 DEF Good
<1> QED BY <1>4, <1>5

LEMMA ChangeRunPhaseOK ==
    ASSUME NEW T, NEW d, DatabaseOK(T, d), NEW id, NEW phase, NEW token
    PROVE  Good(T, d, RS!ChangeRunPhase(d, id, phase, token))
<1> DEFINE r == RS!The(RS!GetRun(d, id))
           new == RS!ChangePhase(r, phase)
<1>1. ASSUME RS!GetRun(d, id) # {} PROVE Keeps(T, d, r, new)
  <2>1. r \in d.run
    BY <1>1, RunFound
  <2>2. \A rc : RunOK(T, r, rc) => new.id = r.id /\ new.rc = r.rc /\ RunOK(T, new, rc)
    BY DEF RunOK, RS!ChangePhase
  <2> QED BY <2>1, <2>2 DEF Keeps, DatabaseOK
<1>2. (phase \in {"running", "cancelled"} /\ r.phase = "queued") \in BOOLEAN
  OBVIOUS
<1> QED BY <1>1, <1>2, ChangeRunOK DEF RS!ChangeRunPhase

LEMMA StopRunOK ==
    ASSUME NEW T, NEW d, DatabaseOK(T, d), NEW id, NEW token
    PROVE  Good(T, d, RS!StopRun(d, id, token))
<1> DEFINE r == RS!The(RS!GetRun(d, id))
           new == [r EXCEPT !.stop = TRUE,
                      !.tasks = [t \in DOMAIN @ |-> [@[t] EXCEPT !.wait = FALSE]]]
<1>1. ASSUME RS!GetRun(d, id) # {} PROVE Keeps(T, d, r, new)
  <2>1. r \in d.run
    BY <1>1, RunFound
  <2>2. \A rc : RunOK(T, r, rc) => new.id = r.id /\ new.rc = r.rc /\ RunOK(T, new, rc)
    BY DEF RunOK, TaskOK
  <2> QED BY <2>1, <2>2 DEF Keeps, DatabaseOK
<1>2. (r.phase = "running") \in BOOLEAN
  OBVIOUS
<1> QED BY <1>1, <1>2, ChangeRunOK DEF RS!StopRun

(* An annotation with approvers, for a task of T. *)
LEMMA SetAnnotationsOK ==
    ASSUME NEW T, NEW d, DatabaseOK(T, d), NEW id, NEW t \in T, NEW approvers, NEW token
    PROVE  Good(T, d, RS!RunTaskSetAnnotations(d, id, t, approvers, token))
<1> DEFINE r == RS!The(RS!GetRun(d, id))
           new == [r EXCEPT !.tasks[t].approvers = approvers]
<1>1. ASSUME RS!GetRun(d, id) # {} PROVE Keeps(T, d, r, new)
  <2>1. r \in d.run
    BY <1>1, RunFound
  <2>2. \A rc : RunOK(T, r, rc) => new.id = r.id /\ new.rc = r.rc /\ RunOK(T, new, rc)
    BY DEF RunOK, TaskOK
  <2> QED BY <2>1, <2>2 DEF Keeps, DatabaseOK
<1>2. (t \in DOMAIN r.tasks) \in BOOLEAN
  OBVIOUS
<1> QED BY <1>1, <1>2, ChangeRunOK DEF RS!RunTaskSetAnnotations

(* The approval of a task of T. *)
LEMMA ApproveRunTaskOK ==
    ASSUME NEW T, NEW d, DatabaseOK(T, d), NEW id, NEW t \in T, NEW token
    PROVE  Good(T, d, RS!ApproveRunTask(d, id, t, token))
<1> DEFINE r == RS!The(RS!GetRun(d, id))
           new == [r EXCEPT !.tasks[t].wait = FALSE, !.tasks[t].appr = TRUE]
<1>1. ASSUME RS!GetRun(d, id) # {} PROVE Keeps(T, d, r, new)
  <2>1. r \in d.run
    BY <1>1, RunFound
  <2>2. \A rc : RunOK(T, r, rc) => new.id = r.id /\ new.rc = r.rc /\ RunOK(T, new, rc)
    BY DEF RunOK, TaskOK
  <2> QED BY <2>1, <2>2 DEF Keeps, DatabaseOK
<1>2. (t \in DOMAIN r.tasks /\ r.tasks[t].wait /\ ~r.tasks[t].appr) \in BOOLEAN
  OBVIOUS
<1> QED BY <1>1, <1>2, ChangeRunOK DEF RS!ApproveRunTask

-----------------------------------------------------------------------------
(* New runs *)

(* The rows that saveRun adds, with the id d.next. *)
LEMMA AddRunOK ==
    ASSUME NEW T, NEW d, DatabaseOK(T, d), NEW e, Shape(e), e.next \in Nat, d.next < e.next,
           NEW run, NEW rc, run.id = d.next, run.rc = d.next, rc.id = d.next,
           RunOK(T, run, rc), RunConfigOK(e.next, rc),
           e.run = {o \in d.run : o.id # d.next} \cup {run},
           e.runconfig = {o \in d.runconfig : o.id # d.next} \cup {rc},
           e.executortask = d.executortask
    PROVE  DatabaseOK(T, e)
<1>1. e.run = d.run \cup {run} /\ e.runconfig = d.runconfig \cup {rc}
  BY DEF DatabaseOK
<1>2. /\ \A r \in d.run : r.id \in Nat /\ r.id < d.next
      /\ \A c \in d.runconfig : c.id \in Nat /\ c.id < d.next /\ RunConfigOK(e.next, c)
      /\ d.next \in Nat
  BY RunConfigLater DEF DatabaseOK
<1>3. \A r \in e.run : r.id \in Nat /\ r.id < e.next
  BY <1>1, <1>2
<1>4. \A c \in e.runconfig : c.id \in Nat /\ c.id < e.next /\ RunConfigOK(e.next, c)
  BY <1>1, <1>2
<1>5. \A r \in e.run : \E c \in e.runconfig : c.id = r.rc /\ RunOK(T, r, c)
  BY <1>1 DEF DatabaseOK
<1>6. \A x \in d.executortask : \E r \in e.run : \E c \in e.runconfig :
        r.id = x.run /\ c.id = r.rc /\ ExecutorTaskOK(T, x, c)
  BY <1>1 DEF DatabaseOK
<1>7. \A a, b \in e.run : a.id = b.id => a = b
  BY <1>1, <1>2 DEF DatabaseOK
<1>8. \A a, b \in e.runconfig : a.id = b.id => a = b
  BY <1>1, <1>2 DEF DatabaseOK
<1> QED BY <1>3, <1>4, <1>5, <1>6, <1>7, <1>8 DEF DatabaseOK, Shape

(* A write after an error. *)
LEMMA EventRefused ==
    ASSUME NEW d, ~RS!IsOK(d), NEW run
    PROVE  ~RS!IsOK(RS!withEvent(d, run))
BY RefusedNotOK
DEF RS!withEvent, RS!InsertOrUpdateSequence, RS!InsertRunEvent, RS!insert, RS!insertOrUpdate

LEMMA SaveRunOK ==
    ASSUME NEW T, NEW d, DatabaseOK(T, d), NEW rb, NEW token,
           RunConfigOK(d.next, rb.rc), RunOK(T, rb.run, rb.rc)
    PROVE  Good(T, d, RS!saveRun(d, rb, token))
<1> DEFINE seq == RS!NextSequence(d, "run")
           counter == RS!NextRunCounter(d, RS!getRunCounterGroupID(rb.run.group))
           run == [rb.run EXCEPT !.id = d.next, !.rc = d.next, !.seq = seq.value,
                                 !.counter = counter.value]
           rc == [rb.rc EXCEPT !.id = d.next]
           d0 == RS!Fresh(d, 1)
           d1 == RS!UpdateChangeGroups(d0, token)
           d2 == RS!write(d1, "sequence", {seq})
           d3 == RS!write(d2, "runcounter", {counter})
           d4 == RS!write(d3, "run", {run})
           d5 == RS!write(d4, "runconfig", {rc})
           e == RS!saveRun(d, rb, token)
<1> SUFFICES ASSUME RS!IsOK(e) PROVE DatabaseOK(T, e) /\ d.next <= e.next
  BY DEF Good
<1>1. Shape(d) /\ d.next \in Nat
  BY DEF Shape, DatabaseOK
<1>2. Same(d, d0) /\ d0.next = d.next + 1
  BY <1>1, FreshSame
<1>3. e \in {RS!Refused, RS!withEvent(RS!InsertRunConfig(RS!InsertRun(RS!InsertOrUpdateRunCounter(
                RS!InsertOrUpdateSequence(d1, seq), counter), run), rc), run)}
  BY DEF RS!saveRun
<1> DEFINE i5 == RS!InsertRunConfig(RS!InsertRun(RS!InsertOrUpdateRunCounter(
                    RS!InsertOrUpdateSequence(d1, seq), counter), run), rc)
<1>4. e = RS!withEvent(i5, run) /\ RS!IsOK(i5)
  BY <1>3, RefusedNotOK, EventRefused
<1>5. RS!IsOK(d1)
  BY <1>4, RefusedNotOK DEF RS!InsertRunConfig, RS!InsertRun, RS!InsertOrUpdateRunCounter,
     RS!InsertOrUpdateSequence, RS!insert, RS!insertOrUpdate
<1>6. Same(d0, d1)
  BY <1>2, <1>5, ChangeGroupsSame DEF Same
<1>7. Same(d1, d2)
  BY <1>6, WriteSame DEF Same, RS!Tables
<1>8. Same(d2, d3)
  BY <1>7, WriteSame DEF Same, RS!Tables
<1>9. RS!IsOK(d2) /\ RS!IsOK(d3)
  BY <1>7, <1>8, ShapeOK DEF Same
<1>10. Shape(d3) /\ Shape(d4) /\ Shape(d5) /\ RS!IsOK(d4)
  BY <1>8, WriteShape, ShapeOK DEF Same, RS!Tables
<1> HIDE DEF seq, counter, d0, d1
<1>11. i5 = d5
  <2>1. RS!InsertOrUpdateRunCounter(RS!InsertOrUpdateSequence(d1, seq), counter) = d3
    BY <1>5, <1>9 DEF RS!InsertOrUpdateRunCounter, RS!InsertOrUpdateSequence, RS!insertOrUpdate
  <2> HIDE DEF d2, d3, run, rc
  <2>2. RS!InsertRun(d3, run) \in {RS!Refused, d4}
    BY DEF RS!InsertRun, RS!insert
  <2>3. RS!InsertRunConfig(d4, rc) \in {RS!Refused, d5}
    BY DEF RS!InsertRunConfig, RS!insert
  <2>4. RS!InsertRunConfig(RS!Refused, rc) = RS!Refused
    BY RefusedNotOK DEF RS!InsertRunConfig, RS!insert
  <2> QED BY <1>4, <2>1, <2>2, <2>3, <2>4, RefusedNotOK
<1>12. /\ run.id = d.next /\ run.rc = d.next /\ rc.id = d.next /\ rc.tasks = rb.rc.tasks
       /\ DOMAIN run = DOMAIN rb.run /\ DOMAIN rc = DOMAIN rb.rc /\ run.tasks = rb.run.tasks
  BY DEF RunOK, RunConfigOK
<1>13. RunOK(T, run, rc) /\ RunConfigOK(d.next, rc)
  BY <1>12 DEF RunOK, RunConfigOK
<1>14. /\ d3.run = d.run /\ d3.runconfig = d.runconfig /\ d3.executortask = d.executortask
       /\ d3.next \in Nat /\ d.next < d3.next
  BY <1>1, <1>2, <1>6, <1>7, <1>8 DEF Same
<1> HIDE DEF run, rc, d3
<1>15. /\ d4.run = {o \in d3.run : o.id # d.next} \cup {run} /\ d4.runconfig = d3.runconfig
       /\ d4.executortask = d3.executortask /\ d4.next = d3.next
  BY <1>10, <1>12, WriteShape DEF RS!Tables
<1> HIDE DEF d4
<1>16. /\ d5.runconfig = {o \in d4.runconfig : o.id # d.next} \cup {rc} /\ d5.run = d4.run
       /\ d5.executortask = d4.executortask /\ d5.next = d4.next
  BY <1>10, <1>12, WriteShape DEF RS!Tables
<1> HIDE DEF d5
<1>17. RunConfigOK(d5.next, rc)
  BY <1>1, <1>13, <1>14, <1>15, <1>16, RunConfigLater
<1>18. DatabaseOK(T, d5) /\ d.next <= d5.next
  BY <1>1, <1>10, <1>12, <1>13, <1>14, <1>15, <1>16, <1>17, AddRunOK
<1> QED BY <1>1, <1>4, <1>11, <1>18, EventGood DEF Good

(* The tasks of a new run are not approved and not started. *)
LEMMA NewTaskOK ==
    ASSUME NEW T, NEW t, NEW rct, NEW other
    PROVE  TaskOK(T, t, RS!genRunTask(rct), other)
BY DEF TaskOK, RS!genRunTask, Executed

LEMMA NewRunOK ==
    ASSUME NEW T, NEW n \in Nat, NEW rq, RS!newRun(rq) # RS!Refused, IsFiniteSet(DOMAIN rq.tasks),
           \A t \in DOMAIN rq.tasks : t \in Nat /\ t < n /\ "approval" \in DOMAIN rq.tasks[t]
    PROVE  RunConfigOK(n, RS!newRun(rq).rc) /\ RunOK(T, RS!newRun(rq).run, RS!newRun(rq).rc)
<1> DEFINE rc == [id |-> 0, name |-> rq.name, group |-> rq.group, tasks |-> rq.tasks,
                  levels |-> RS!GenTasksLevels(rq.tasks),
                  errors |-> \/ rq.errors \/ ~RS!CheckRunConfigTasks(rq.tasks)
                             \/ ~RS!levelsOK(RS!GenTasksLevels(rq.tasks))]
<1>1. RS!newRun(rq).rc = rc /\ RS!newRun(rq).run = RS!genRun(rc, rq.sha)
  BY DEF RS!newRun
<1>2. RunConfigOK(n, rc)
  BY DEF RunConfigOK
<1>3. rc.tasks = rq.tasks
  OBVIOUS
<1> HIDE DEF rc
<1>4. DOMAIN RS!genRun(rc, rq.sha) = {"id", "seq", "counter", "group", "name", "rc", "sha", "phase",
                                      "result", "stop", "archived", "tasks"}
  BY DEF RS!genRun
<1>5. RS!genRun(rc, rq.sha).tasks = IF rc.errors THEN RS!NoTasks
                                    ELSE [t \in DOMAIN rc.tasks |-> RS!genRunTask(rc.tasks[t])]
  BY DEF RS!genRun
<1>6. DOMAIN RS!NoTasks = {}
  BY DEF RS!NoTasks
<1>7. RunOK(T, RS!genRun(rc, rq.sha), rc)
  BY <1>4, <1>5, <1>6, NewTaskOK DEF RunOK
<1> QED BY <1>1, <1>2, <1>7

LEMMA CreateRunOK ==
    ASSUME NEW T, NEW d, DatabaseOK(T, d), NEW rq, NEW token, IsFiniteSet(DOMAIN rq.tasks),
           \A t \in DOMAIN rq.tasks : /\ t \in Nat /\ t < d.next + Cardinality(DOMAIN rq.tasks)
                                      /\ "approval" \in DOMAIN rq.tasks[t]
    PROVE  Good(T, d, RS!CreateRun(d, rq, token))
<1> DEFINE n == Cardinality(DOMAIN rq.tasks)
           e == RS!Fresh(d, n)
           rb == RS!newRun(rq)
<1>1. n \in Nat /\ Shape(d) /\ d.next \in Nat
  BY FS_CardinalityType DEF Shape, DatabaseOK
<1>2. RS!CreateRun(d, rq, token) = IF rb = RS!Refused THEN RS!Refused ELSE RS!saveRun(e, rb, token)
  BY SameCardinality DEF RS!CreateRun
<1>3. Same(d, e) /\ e.next = d.next + n
  BY <1>1, FreshSame
<1>4. DatabaseOK(T, e)
  BY <1>3, SameOK
<1>5. CASE rb # RS!Refused
  <2>0. e.next \in Nat /\ \A t \in DOMAIN rq.tasks : t < e.next
    BY <1>1, <1>3
  <2> HIDE DEF e, n
  <2>1. RunConfigOK(e.next, rb.rc) /\ RunOK(T, rb.run, rb.rc)
    BY <1>5, <2>0, NewRunOK
  <2> HIDE DEF rb
  <2>2. Good(T, e, RS!saveRun(e, rb, token))
    BY <1>4, <2>1, SaveRunOK
  <2> QED BY <1>1, <1>2, <1>3, <1>5, <2>2 DEF Good, DatabaseOK
<1> QED BY <1>2, <1>5, RefusedNotOK DEF Good

LEMMA GeneratedTask ==
    ASSUME NEW run, NEW id, NEW refType, NEW name, NEW ref,
           NEW t \in DOMAIN RS!GenRunConfigTasks(run, id, refType, name, ref)
    PROVE  "approval" \in DOMAIN RS!GenRunConfigTasks(run, id, refType, name, ref)[t]
<1> DEFINE n == RS!nameOf(run, id, t)
           ct == run.tasks[n]
           depends == [d \in {RS!taskID(run, id, p) : p \in DOMAIN ct.depends} |->
                         RS!dependConditions(ct.depends[RS!nameOf(run, id, d)])]
           skip == ~RS!MatchWhen(ct.when, refType, name, ref)
<1>1. RS!GenRunConfigTasks(run, id, refType, name, ref)[t] =
        [name |-> n, skip |-> skip, approval |-> ct.approval, save |-> ct.save,
         ignore |-> ct.ignore, depends |-> depends]
  BY Zenon DEF RS!GenRunConfigTasks
<1> HIDE DEF n, ct, depends, skip
<1> QED BY <1>1

(* The runs that the gateway creates from a configuration. *)
LEMMA CreateHandlerOK ==
    ASSUME NEW T, NEW d, DatabaseOK(T, d), NEW rq, NEW i,
           i # 0 => IsFiniteSet(DOMAIN rq.config.runs[i].tasks)
    PROVE  Good(T, d, RS!RunCreateHandler(d, genCreateRequest(rq, i, d.next)))
<1> DEFINE g == genCreateRequest(rq, i, d.next)
           run == rq.config.runs[i]
           n == Cardinality(DOMAIN run.tasks)
<1>1. d.next \in Nat
  BY DEF DatabaseOK
<1>2. CASE i = 0
  <2>1. DOMAIN g.tasks = {}
    BY <1>2 DEF genCreateRequest, RS!NoTasks
  <2> QED BY <2>1, FS_EmptySet, CreateRunOK DEF RS!RunCreateHandler
<1>3. CASE i # 0
  <2>1. n \in Nat
    BY <1>3, FS_CardinalityType
  <2>2. g.tasks = RS!GenRunConfigTasks(run, d.next, rq.refType, rq.name, rq.ref)
    BY <1>3 DEF genCreateRequest
  <2>3. DOMAIN g.tasks = d.next .. d.next + n - 1
    BY <2>2, SameCardinality DEF RS!GenRunConfigTasks
  <2>4. \A t \in DOMAIN g.tasks : "approval" \in DOMAIN g.tasks[t]
    BY <2>2, GeneratedTask
  <2>5. IsFiniteSet(DOMAIN g.tasks) /\ Cardinality(DOMAIN g.tasks) = n
    <3> HIDE DEF n, g
    <3>1. d.next \in Int /\ d.next + n - 1 \in Int
      BY <1>1, <2>1
    <3>2. IsFiniteSet(d.next .. d.next + n - 1)
      BY <3>1, FS_Interval
    <3>3. Cardinality(d.next .. d.next + n - 1) =
             IF d.next > d.next + n - 1 THEN 0 ELSE (d.next + n - 1) - d.next + 1
      BY <3>1, FS_Interval
    <3> QED BY <1>1, <2>1, <2>3, <3>2, <3>3
  <2>6. \A t \in DOMAIN g.tasks : t \in Nat /\ t < d.next + n
    BY <1>1, <2>1, <2>3
  <2> HIDE DEF g, n
  <2>7. Good(T, d, RS!CreateRun(d, g, g.token))
    BY <2>4, <2>5, <2>6, CreateRunOK
  <2> QED BY <2>7 DEF RS!RunCreateHandler, g
<1> QED BY <1>2, <1>3

(* A restarted run: the tasks it keeps have their ids, the others new ones. *)
LEMMA WithNewIDsOK ==
    ASSUME NEW T, NEW n \in Nat, NEW run, NEW rc, RunOK(T, run, rc), RunConfigOK(n, rc),
           NEW new, new \subseteq DOMAIN rc.tasks
    PROVE  LET rb == RS!withNewIDs(run, rc, new, n)
           IN  /\ Cardinality(new) \in Nat
               /\ RunConfigOK(n + Cardinality(new), rb.rc) /\ RunOK(T, rb.run, rb.rc)
<1> DEFINE newID(t) == IF t \in new THEN n + RS!Cardinality({x \in new : x < t}) ELSE t
           oldID(m) == CHOOSE t \in DOMAIN rc.tasks : newID(t) = m
           ids == {newID(t) : t \in DOMAIN rc.tasks}
           depends(t) == [m \in {newID(p) : p \in DOMAIN rc.tasks[t].depends} |->
                             rc.tasks[t].depends[oldID(m)]]
           tasks == [m \in ids |-> [rc.tasks[oldID(m)] EXCEPT !.depends = depends(oldID(m))]]
           runTasks == [m \in ids |-> IF m \in DOMAIN run.tasks THEN run.tasks[m]
                                      ELSE RS!genRunTask(rc.tasks[oldID(m)])]
           rb == RS!withNewIDs(run, rc, new, n)
           k == Cardinality(new)
<1>1. IsFiniteSet(new) /\ k \in Nat
  <2>1. new \in SUBSET Nat /\ \A t \in new : t <= n
    BY DEF RunConfigOK
  <2>2. IsFiniteSet(new)
    BY <2>1, FS_BoundedSetOfNaturals
  <2> QED BY <2>2, FS_CardinalityType
<1>2. ASSUME NEW t \in new
      PROVE  newID(t) \in Nat /\ n <= newID(t) /\ newID(t) < n + k
  <2> DEFINE before == {x \in new : x < t}
  <2>1. t \notin before
    BY <1>2 DEF RunConfigOK
  <2>2. IsFiniteSet(before) /\ Cardinality(before) \in Nat /\ Cardinality(before) <= k
    BY <1>1, FS_Subset, FS_CardinalityType
  <2>3. Cardinality(before) # k
    BY <1>1, <2>1, FS_Subset
  <2> HIDE DEF before, k
  <2>4. newID(t) = n + Cardinality(before)
    BY <1>2, SameCardinality DEF before
  <2> QED BY <1>1, <2>2, <2>3, <2>4
<1>3. \A t \in DOMAIN rc.tasks : newID(t) \in Nat /\ newID(t) < n + k
  BY <1>1, <1>2 DEF RunConfigOK
<1>4. \A m \in ids : oldID(m) \in DOMAIN rc.tasks /\ newID(oldID(m)) = m
  OBVIOUS
<1>5. \A m \in ids : m \in Nat /\ m < n + k
  BY <1>3
<1>6. \A m \in ids \cap DOMAIN rc.tasks : oldID(m) = m
  <2> SUFFICES ASSUME NEW m \in ids, m \in DOMAIN rc.tasks PROVE oldID(m) = m
    OBVIOUS
  <2>1. m < n
    BY DEF RunConfigOK
  <2> DEFINE o == oldID(m)
  <2>2. o \in DOMAIN rc.tasks /\ newID(o) = m
    BY <1>4
  <2>3. o \in new => n <= m
    BY <1>2, <2>2
  <2>4. m \in Nat
    BY <1>5
  <2> HIDE DEF o, ids
  <2>5. o = m
    BY <2>1, <2>2, <2>3, <2>4
  <2> QED BY <2>5 DEF o
<1>7. rb.rc = [rc EXCEPT !.tasks = tasks, !.levels = [m \in ids |-> rc.levels[oldID(m)]]]
  BY DEF RS!withNewIDs
<1>8. rb.run = [run EXCEPT !.phase = "queued", !.result = "unknown", !.archived = FALSE,
                           !.stop = FALSE, !.tasks = runTasks]
  BY DEF RS!withNewIDs
<1>9. rb.rc.tasks = tasks /\ DOMAIN rb.rc = DOMAIN rc
  BY <1>7 DEF RunConfigOK
<1>10. rb.run.tasks = runTasks /\ DOMAIN rb.run = DOMAIN run
  BY <1>8 DEF RunOK
<1>11. \A m \in ids : /\ "approval" \in DOMAIN tasks[m]
                       /\ tasks[m].approval = rc.tasks[oldID(m)].approval
  BY <1>4 DEF RunConfigOK
<1> HIDE DEF newID, oldID, ids, rb, k
<1>13. \A m \in ids : TaskOK(T, m, runTasks[m], tasks[m])
  <2> SUFFICES ASSUME NEW m \in ids PROVE TaskOK(T, m, runTasks[m], tasks[m])
    OBVIOUS
  <2>1. CASE m \in DOMAIN run.tasks
    <3>1. m \in DOMAIN rc.tasks /\ TaskOK(T, m, run.tasks[m], rc.tasks[m])
      BY <2>1 DEF RunOK
    <3>2. oldID(m) = m /\ runTasks[m] = run.tasks[m]
      BY <1>6, <2>1, <3>1
    <3> QED BY <1>11, <3>1, <3>2 DEF TaskOK
  <2>2. CASE m \notin DOMAIN run.tasks
    BY <2>2, NewTaskOK
  <2> QED BY <2>1, <2>2
<1>14. DOMAIN tasks = ids /\ DOMAIN runTasks = ids
  OBVIOUS
<1> HIDE DEF tasks, runTasks
<1>15. RunConfigOK(n + k, rb.rc)
  BY <1>5, <1>9, <1>11, <1>14 DEF RunConfigOK
<1>16. RunOK(T, rb.run, rb.rc)
  BY <1>9, <1>10, <1>13, <1>14 DEF RunOK
<1> QED BY <1>1, <1>15, <1>16 DEF rb, k

LEMMA RecreateRunOK ==
    ASSUME NEW T, NEW d, DatabaseOK(T, d), NEW id, NEW fromStart,
           NEW a \in RS!recreateRun(d, id, fromStart)
    PROVE  /\ Same(d, a.d)
           /\ RunConfigOK(a.d.next, a.rb.rc) /\ RunOK(T, a.rb.run, a.rb.rc)
<1> DEFINE new(r, c) == RS!recreatedTasks(r, c, fromStart)
<1>1. PICK r \in d.run, c \in d.runconfig :
        /\ c.id = r.rc
        /\ a = [rb |-> RS!withNewIDs(r, c, new(r, c), d.next),
                d |-> RS!Fresh(d, RS!Cardinality(new(r, c)))]
  BY DEF RS!recreateRun, RS!GetRun, RS!fetchRuns, RS!GetRunConfig, RS!fetchRunConfigs
<1>2. d.next \in Nat /\ Shape(d) /\ RunConfigOK(d.next, c) /\ RunOK(T, r, c)
  BY <1>1 DEF DatabaseOK, Shape
<1> DEFINE ts == new(r, c)
<1>3. ts \subseteq DOMAIN c.tasks
  BY <1>2 DEF RS!recreatedTasks, RS!resetTasks, RunOK
<1>4. /\ a.rb = RS!withNewIDs(r, c, ts, d.next)
      /\ a.d = RS!Fresh(d, Cardinality(ts))
  BY <1>1, SameCardinality
<1> HIDE DEF ts
<1>5. /\ Cardinality(ts) \in Nat
      /\ RunConfigOK(d.next + Cardinality(ts), a.rb.rc) /\ RunOK(T, a.rb.run, a.rb.rc)
  BY <1>2, <1>3, <1>4, WithNewIDsOK
<1> QED BY <1>2, <1>4, <1>5, FreshSame

-----------------------------------------------------------------------------
(* Executor tasks *)

LEMMA ExecutorTasksOK ==
    ASSUME NEW T, NEW d, DatabaseOK(T, d), NEW e, Shape(e), e.run = d.run, e.next = d.next,
           e.runconfig = d.runconfig,
           \A x \in e.executortask : \E r \in d.run : \E rc \in d.runconfig :
              r.id = x.run /\ rc.id = r.rc /\ ExecutorTaskOK(T, x, rc)
    PROVE  DatabaseOK(T, e)
BY DEF DatabaseOK, Shape

(* Rows that take the place of others with the same task and run. *)
LEMMA UpdateExecutorTaskOK ==
    ASSUME NEW T, NEW d, DatabaseOK(T, d), NEW rows,
           \A x \in rows : \E y \in d.executortask :
              x.id = y.id /\ x.run = y.run /\ DOMAIN x = DOMAIN y
    PROVE  LET e == RS!UpdateExecutorTask(d, rows)
           IN  /\ DatabaseOK(T, e) /\ e.next = d.next
               /\ e.run = d.run /\ e.runconfig = d.runconfig
<1> DEFINE e == RS!write(d, "executortask", rows)
<1>1. Shape(d) /\ RS!IsOK(d) /\ "executortask" \in RS!Tables
  BY ShapeOK DEF Shape, DatabaseOK, RS!Tables
<1>2. RS!UpdateExecutorTask(d, rows) = e
  BY <1>1 DEF RS!UpdateExecutorTask, RS!update, RS!HasID
<1>3. /\ Shape(e) /\ e.run = d.run /\ e.runconfig = d.runconfig /\ e.next = d.next
      /\ e.executortask \subseteq d.executortask \cup rows
  BY <1>1, WriteShape DEF RS!Tables
<1> HIDE DEF e
<1>4. ASSUME NEW x \in e.executortask
      PROVE  \E r \in d.run : \E rc \in d.runconfig :
                r.id = x.run /\ rc.id = r.rc /\ ExecutorTaskOK(T, x, rc)
  <2>1. PICK y \in d.executortask : x.id = y.id /\ x.run = y.run /\ DOMAIN x = DOMAIN y
    BY <1>3
  <2> QED BY <2>1 DEF DatabaseOK, ExecutorTaskOK
<1>5. DatabaseOK(T, e)
  BY <1>3, <1>4, ExecutorTasksOK
<1> QED BY <1>2, <1>3, <1>5

LEMMA InsertExecutorTaskOK ==
    ASSUME NEW T, NEW d, DatabaseOK(T, d), NEW r \in d.run, NEW rc \in d.runconfig, NEW x,
           r.id = x.run, rc.id = r.rc, ExecutorTaskOK(T, x, rc)
    PROVE  Good(T, d, RS!InsertExecutorTask(d, x))
<1> DEFINE e == RS!write(d, "executortask", {x})
<1>1. Shape(d) /\ "executortask" \in RS!Tables /\ d.next \in Nat
  BY DEF Shape, DatabaseOK, RS!Tables
<1>2. RS!InsertExecutorTask(d, x) \in {e, RS!Refused}
  BY DEF RS!InsertExecutorTask, RS!insert
<1>3. /\ Shape(e) /\ e.run = d.run /\ e.runconfig = d.runconfig /\ e.next = d.next
      /\ e.executortask \subseteq d.executortask \cup {x}
  BY <1>1, WriteShape DEF RS!Tables
<1> HIDE DEF e
<1>4. \A y \in e.executortask : \E q \in d.run : \E qc \in d.runconfig :
         q.id = y.run /\ qc.id = q.rc /\ ExecutorTaskOK(T, y, qc)
  BY <1>3 DEF DatabaseOK
<1>5. DatabaseOK(T, e)
  BY <1>3, <1>4, ExecutorTasksOK
<1> QED BY <1>1, <1>2, <1>3, <1>5, RefusedNotOK DEF Good

LEMMA DeleteExecutorTaskOK ==
    ASSUME NEW T, NEW d, DatabaseOK(T, d), NEW t
    PROVE  Good(T, d, RS!DeleteExecutorTask(d, t))
<1> DEFINE e == RS!without(d, "executortask", {t})
<1>1. Shape(d) /\ "executortask" \in RS!Tables /\ d.next \in Nat
  BY DEF Shape, DatabaseOK, RS!Tables
<1>2. RS!DeleteExecutorTask(d, t) \in {e, RS!Refused}
  BY DEF RS!DeleteExecutorTask, RS!delete
<1>3. /\ Shape(e) /\ e.run = d.run /\ e.runconfig = d.runconfig /\ e.next = d.next
      /\ e.executortask \subseteq d.executortask
  BY <1>1, WithoutShape DEF RS!Tables
<1> HIDE DEF e
<1>4. \A y \in e.executortask : \E q \in d.run : \E qc \in d.runconfig :
         q.id = y.run /\ qc.id = q.rc /\ ExecutorTaskOK(T, y, qc)
  BY <1>3 DEF DatabaseOK
<1>5. DatabaseOK(T, e)
  BY <1>3, <1>4, ExecutorTasksOK
<1> QED BY <1>1, <1>2, <1>3, <1>5, RefusedNotOK DEF Good

-----------------------------------------------------------------------------
(* What the services' loops do to the database *)

DatabaseStep == DatabaseOK(Approved, db') /\ db.next <= db'.next

LEMMA DoGood ==
    ASSUME NEW e, Good(Approved, db, e), Do(e)
    PROVE  DatabaseStep
BY DEF Good, Do, DatabaseStep

LEMMA StartRunOK ==
    ASSUME DatabaseOK(Approved, db), StartRun
    PROVE  DatabaseStep
<1>1. PICK r : Do(RS!RunActionsHandler(db, r.id, [action |-> "changephase", phase |-> "running",
                                                  token |-> {}]))
  BY DEF StartRun
<1>2. Do(RS!ChangeRunPhase(db, r.id, "running", {}))
  BY <1>1 DEF RS!RunActionsHandler
<1> QED BY <1>2, ChangeRunPhaseOK, DoGood

LEMMA ReadApprovalsOK ==
    ASSUME DatabaseOK(Approved, db), ReadApprovals
    PROVE  DatabaseStep /\ LoopOK(Approved, appr')
<1>0. PICK r \in db.run : \E a \in RS!RunHandler(db, r.id, {approvalGroup(r.id)}) :
        /\ appr' = [on |-> TRUE, run |-> a.run, token |-> a.token,
                    todo |-> RS!TasksWaitingApproval(a.run)]
        /\ db' = a.d
  BY DEF ReadApprovals
<1>1. PICK a \in RS!RunHandler(db, r.id, {approvalGroup(r.id)}) :
        /\ appr' = [on |-> TRUE, run |-> a.run, token |-> a.token,
                    todo |-> RS!TasksWaitingApproval(a.run)]
        /\ db' = a.d
  BY <1>0
<1>2. a.d = RS!GetChangeGroupsUpdateTokens(db, {approvalGroup(r.id)}) /\ a.run \in db.run
  BY <1>1 DEF RS!RunHandler, RS!answer, RS!GetRun, RS!fetchRuns
<1>3. Shape(db) /\ db.next \in Nat
  BY DEF DatabaseOK, Shape
<1>4. Same(db, db')
  BY <1>1, <1>2, <1>3, GroupTokensSame
<1>5. DatabaseStep
  BY <1>4, SameOK DEF DatabaseStep, Same
<1>6. \A t \in DOMAIN a.run.tasks : a.run.tasks[t].approvers # {} => t \in Approved
  BY <1>2 DEF DatabaseOK, RunOK, TaskOK
<1>7. LoopOK(Approved, appr')
  BY <1>1, <1>6 DEF LoopOK, hasApprovers, RS!TasksWaitingApproval
<1> QED BY <1>5, <1>7

LEMMA ApproveTaskOK ==
    ASSUME DatabaseOK(Approved, db), LoopOK(Approved, appr), ApproveTask
    PROVE  DatabaseStep /\ LoopOK(Approved, appr')
<1>1. LoopOK(Approved, Idle)
  BY DEF LoopOK, Idle
<1>2. \A x : appr' = [appr EXCEPT !.todo = @ \ {x}] => LoopOK(Approved, appr')
  BY DEF LoopOK, ApproveTask
<1>3. DatabaseOK(Approved, db') /\ db' = db => DatabaseStep
  BY DEF DatabaseStep, DatabaseOK
<1>4. CASE db' = db
  BY <1>1, <1>2, <1>3, <1>4 DEF ApproveTask
<1>5. CASE db' # db
  <2>1. PICK t \in appr.todo : \E e \in {RS!RunTaskActionsHandler(db, appr.run.id, t,
                              [action |-> "approve", token |-> appr.token])} :
          /\ hasApprovers(appr.run.tasks[t]) /\ RS!IsOK(e) /\ db' = e
          /\ appr' = [appr EXCEPT !.todo = @ \ {t}]
    BY <1>5 DEF ApproveTask
  <2>2. t \in Approved
    BY <2>1 DEF LoopOK, ApproveTask
  <2>3. Do(RS!ApproveRunTask(db, appr.run.id, t, appr.token))
    BY <2>1 DEF RS!RunTaskActionsHandler, Do
  <2> QED BY <1>2, <2>1, <2>2, <2>3, ApproveRunTaskOK, DoGood
<1> QED BY <1>4, <1>5

LEMMA CompactOK ==
    ASSUME DatabaseOK(Approved, db), compactChangeGroups
    PROVE  DatabaseStep
<1>1. PICK names : Do(RS!DeleteChangeGroup(db, names))
  BY DEF compactChangeGroups
<1>2. Shape(db) /\ db.next \in Nat
  BY DEF DatabaseOK, Shape
<1>3. db' = RS!without(db, "changegroup", names)
  BY <1>1, RefusedNotOK DEF Do, RS!DeleteChangeGroup, RS!delete
<1>4. Same(db, db')
  BY <1>2, <1>3, WithoutSame DEF RS!Tables
<1> QED BY <1>4, SameOK DEF DatabaseStep, Same

(* No status that the scheduler gives to a task says that it was executed. *)
LEMMA TaskStatusOK ==
    ASSUME NEW run, NEW rc, NEW S, NEW t, taskStatus(run, rc, S, t) \in Executed
    PROVE  run.tasks[t].status \in Executed
BY DEF taskStatus, Executed

LEMMA AdvancedOK ==
    ASSUME NEW T, NEW run, NEW rc, NEW S, NEW c, RunOK(T, run, c)
    PROVE  LET a == advanceRun(run, rc, S)
           IN  a.id = run.id /\ a.rc = run.rc /\ RunOK(T, a, c)
<1> DEFINE result == runResult(run, rc)
           early == run.result = "unknown" /\ result = "success"
           phase == IF result # "unknown" /\ ~early /\ allFinished(run) /\ S = {}
                    THEN "finished" ELSE run.phase
           over == result # "unknown" /\ phase \in RS!FinishedPhases
           tasks == [t \in DOMAIN run.tasks |->
                       IF over /\ run.tasks[t].status = "notstarted"
                       THEN [run.tasks[t] EXCEPT !.setup = TRUE, !.step = TRUE, !.arch = TRUE]
                       ELSE run.tasks[t]]
           a == advanceRun(run, rc, S)
<1>1. a = [run EXCEPT !.result = result, !.phase = phase, !.tasks = tasks]
  BY DEF advanceRun
<1> HIDE DEF result, over, a
<1>2. \A t \in DOMAIN run.tasks : TaskOK(T, t, tasks[t], c.tasks[t])
  BY DEF RunOK, TaskOK
<1>3. DOMAIN tasks = DOMAIN run.tasks
  OBVIOUS
<1> HIDE DEF tasks, phase
<1>4. a.id = run.id /\ a.rc = run.rc /\ a.tasks = tasks /\ DOMAIN a = DOMAIN run
  BY <1>1 DEF RunOK
<1>5. RunOK(T, a, c)
  BY <1>2, <1>3, <1>4 DEF RunOK
<1> QED BY <1>4, <1>5 DEF a

LEMMA AdvancedTasksOK ==
    ASSUME NEW T, NEW run, NEW rc, NEW S, NEW c, RunOK(T, run, c)
    PROVE  LET a == advanceRunTasks(run, rc, S)
           IN  a.id = run.id /\ a.rc = run.rc /\ RunOK(T, a, c)
<1> DEFINE tasks == [t \in DOMAIN run.tasks |->
                       [run.tasks[t] EXCEPT !.status = taskStatus(run, rc, S, t),
                                            !.wait = waitsApproval(run, rc, S, t)]]
           a == advanceRunTasks(run, rc, S)
<1>1. a = [run EXCEPT !.tasks = tasks]
  BY DEF advanceRunTasks
<1> HIDE DEF a
<1>2. \A t \in DOMAIN run.tasks : TaskOK(T, t, tasks[t], c.tasks[t])
  BY TaskStatusOK DEF RunOK, TaskOK
<1>3. DOMAIN tasks = DOMAIN run.tasks
  OBVIOUS
<1> HIDE DEF tasks
<1>4. a.id = run.id /\ a.rc = run.rc /\ a.tasks = tasks /\ DOMAIN a = DOMAIN run
  BY <1>1 DEF RunOK
<1>5. RunOK(T, a, c)
  BY <1>2, <1>3, <1>4 DEF RunOK
<1> QED BY <1>4, <1>5 DEF a

LEMMA AdvanceRunOK ==
    ASSUME DatabaseOK(Approved, db), AdvanceRun
    PROVE  DatabaseStep
<1> DEFINE rows(r) == IF r.stop
                      THEN {[e EXCEPT !.stop = TRUE] : e \in RS!GetExecutorTasksByRun(db, r.id)}
                      ELSE {}
           write(r, n) == RS!UpdateRun(RS!UpdateExecutorTask(db, rows(r)), n)
<1>1. PICK r, rc, a, n :
        /\ r \in db.run /\ a = advanceRun(r, rc, Scheduled(r))
        /\ n = IF a.phase = "running" THEN advanceRunTasks(a, rc, Scheduled(r)) ELSE a
        /\ Do(IF n.phase = r.phase /\ n.result = r.result THEN write(r, n)
              ELSE RS!withEvent(write(r, n), n))
  BY Zenon DEF AdvanceRun, RS!GetUnarchivedRuns, RS!fetchRuns
<1> DEFINE d1 == RS!UpdateExecutorTask(db, rows(r))
           d2 == RS!UpdateRun(d1, n)
<1>2. r \in db.run /\ (Do(d2) \/ Do(RS!withEvent(d2, n)))
  BY <1>1
<1>3. \A c : RunOK(Approved, r, c) => n.id = r.id /\ n.rc = r.rc /\ RunOK(Approved, n, c)
  BY <1>1, AdvancedOK, AdvancedTasksOK
<1>4. n.id = r.id /\ n.rc = r.rc
  BY <1>2, <1>3 DEF DatabaseOK
<1>5. \A x \in rows(r) : \E y \in db.executortask :
         x.id = y.id /\ x.run = y.run /\ DOMAIN x = DOMAIN y
  <2> SUFFICES ASSUME NEW y \in db.executortask
               PROVE  LET x == [y EXCEPT !.stop = TRUE]
                      IN  x.id = y.id /\ x.run = y.run /\ DOMAIN x = DOMAIN y
    BY DEF RS!GetExecutorTasksByRun, RS!fetchExecutorTasks
  <2>1. DOMAIN y = {"id", "run", "phase", "stop"}
    BY DEF DatabaseOK, ExecutorTaskOK
  <2> QED BY <2>1
<1> HIDE DEF rows
<1>6. /\ DatabaseOK(Approved, d1) /\ d1.next = db.next
      /\ d1.run = db.run /\ d1.runconfig = db.runconfig
  BY <1>5, UpdateExecutorTaskOK
<1> HIDE DEF d1
<1>7. DatabaseOK(Approved, d2) /\ d2.next = db.next
  <2>1. r \in d1.run
    BY <1>2, <1>6
  <2>2. \A c \in d1.runconfig : c.id = r.rc /\ RunOK(Approved, r, c) => RunOK(Approved, n, c)
    BY <1>3
  <2>3. DatabaseOK(Approved, d2) /\ d2.next = d1.next
    BY <1>4, <1>6, <2>1, <2>2, UpdateRunOK
  <2> QED BY <1>6, <2>3
<1> HIDE DEF d2
<1>8. db.next \in Nat
  BY DEF DatabaseOK
<1>9. Good(Approved, db, d2) /\ Good(Approved, db, RS!withEvent(d2, n))
  BY <1>7, <1>8, EventGood DEF Good
<1> QED BY <1>2, <1>9, DoGood

(* A task is given to an executor if it needs no approval or has it. *)
LEMMA SubmitTaskOK ==
    ASSUME DatabaseOK(Approved, db), SubmitTask
    PROVE  DatabaseStep
<1> DEFINE x(r, t) == [id |-> t, run |-> r.id, phase |-> "notstarted", stop |-> FALSE]
<1>1. PICK r, rc, t :
        /\ r \in db.run /\ rc \in db.runconfig /\ rc.id = r.rc
        /\ t \in getTasksToRun(r, rc) /\ Do(RS!InsertExecutorTask(db, x(r, t)))
  BY Zenon DEF SubmitTask, RS!GetUnarchivedRuns, RS!fetchRuns, RS!GetRunConfig, RS!fetchRunConfigs
<1>2. RunOK(Approved, r, rc)
  BY <1>1 DEF DatabaseOK
<1>3. t \in DOMAIN r.tasks /\ (rc.tasks[t].approval => r.tasks[t].appr)
  BY <1>1 DEF getTasksToRun
<1>4. ExecutorTaskOK(Approved, x(r, t), rc)
  BY <1>2, <1>3 DEF RunOK, TaskOK, ExecutorTaskOK
<1>5. x(r, t).run = r.id
  OBVIOUS
<1> HIDE DEF x
<1>6. Good(Approved, db, RS!InsertExecutorTask(db, x(r, t)))
  BY <1>1, <1>4, <1>5, InsertExecutorTaskOK
<1> QED BY <1>1, <1>6, DoGood

(* An executor reports on a task that it was given. *)
LEMMA TaskEndsOK ==
    ASSUME DatabaseOK(Approved, db), TaskEnds
    PROVE  DatabaseStep
<1>1. PICK e, p, r :
        /\ e \in db.executortask /\ r \in db.run /\ r.id = e.run
        /\ Do(RS!UpdateRun(RS!UpdateExecutorTask(db, {[e EXCEPT !.phase = p]}),
                           [r EXCEPT !.tasks[e.id].status = p]))
  BY Zenon DEF TaskEnds, RS!GetRun, RS!fetchRuns
<1> DEFINE d1 == RS!UpdateExecutorTask(db, {[e EXCEPT !.phase = p]})
           n == [r EXCEPT !.tasks[e.id].status = p]
           d2 == RS!UpdateRun(d1, n)
<1>2. e \in db.executortask /\ r \in db.run /\ Do(d2)
  BY <1>1
<1>3. PICK rc \in db.runconfig :
        rc.id = r.rc /\ ExecutorTaskOK(Approved, e, rc) /\ RunOK(Approved, r, rc)
  BY <1>1 DEF DatabaseOK
<1>4. n.id = r.id /\ n.rc = r.rc /\ RunOK(Approved, n, rc)
  <2>1. DOMAIN n = DOMAIN r /\ n.id = r.id /\ n.rc = r.rc
    BY <1>3 DEF RunOK
  <2>2. DOMAIN n.tasks = DOMAIN r.tasks
    BY <1>3 DEF RunOK
  <2>3. ASSUME NEW t \in DOMAIN r.tasks PROVE TaskOK(Approved, t, n.tasks[t], rc.tasks[t])
    <3>1. TaskOK(Approved, t, r.tasks[t], rc.tasks[t])
      BY <1>3 DEF RunOK
    <3>2. CASE t = e.id
      <4>1. n.tasks[t] = [r.tasks[t] EXCEPT !.status = p]
        BY <1>3, <3>2 DEF RunOK
      <4>2. rc.tasks[t].approval => t \in Approved
        BY <1>3, <3>2 DEF ExecutorTaskOK
      <4> QED BY <3>1, <4>1, <4>2 DEF TaskOK
    <3>3. CASE t # e.id
      <4>1. n.tasks[t] = r.tasks[t]
        BY <1>3, <3>3 DEF RunOK
      <4> QED BY <3>1, <4>1
    <3> QED BY <3>2, <3>3
  <2> HIDE DEF n
  <2> QED BY <1>3, <2>1, <2>2, <2>3 DEF RunOK
<1>5. LET x == [e EXCEPT !.phase = p] IN x.id = e.id /\ x.run = e.run /\ DOMAIN x = DOMAIN e
  BY <1>3 DEF ExecutorTaskOK
<1>6. /\ DatabaseOK(Approved, d1) /\ d1.next = db.next
      /\ d1.run = db.run /\ d1.runconfig = db.runconfig
  <2> DEFINE rows == {[e EXCEPT !.phase = p]}
  <2>1. \A x \in rows : \E y \in db.executortask :
           x.id = y.id /\ x.run = y.run /\ DOMAIN x = DOMAIN y
    BY <1>2, <1>5
  <2> HIDE DEF rows
  <2>2. LET d == RS!UpdateExecutorTask(db, rows)
        IN  /\ DatabaseOK(Approved, d) /\ d.next = db.next
            /\ d.run = db.run /\ d.runconfig = db.runconfig
    BY <2>1, UpdateExecutorTaskOK
  <2> QED BY <2>2 DEF rows
<1> HIDE DEF d1, n
<1>7. r \in d1.run
  BY <1>2, <1>6
<1>8. \A c \in d1.runconfig : c.id = r.rc /\ RunOK(Approved, r, c) => RunOK(Approved, n, c)
  BY <1>3, <1>4, <1>6 DEF DatabaseOK
<1>9. DatabaseOK(Approved, d2) /\ d2.next = d1.next
  BY <1>4, <1>6, <1>7, <1>8, UpdateRunOK
<1> QED BY <1>2, <1>6, <1>9 DEF Do, DatabaseStep, DatabaseOK

(* A run that is read and saved. *)
LEMMA SavedRunOK ==
    ASSUME DatabaseOK(Approved, db), NEW r \in db.run, NEW n, Keeps(Approved, db, r, n),
           Do(RS!UpdateRun(db, n))
    PROVE  DatabaseStep
<1>1. DatabaseOK(Approved, RS!UpdateRun(db, n)) /\ RS!UpdateRun(db, n).next = db.next
  BY UpdateRunOK DEF Keeps
<1> QED BY <1>1 DEF Do, DatabaseStep, DatabaseOK

LEMMA TaskFetcherOK ==
    ASSUME DatabaseOK(Approved, db), TaskFetcher
    PROVE  DatabaseStep
<1>1. PICK r, t, parts :
        /\ r \in db.run /\ t \in DOMAIN r.tasks
        /\ Do(RS!UpdateRun(db, [r EXCEPT !.tasks[t] = withFetched(@, parts)]))
  BY Zenon DEF TaskFetcher, RS!GetUnarchivedRuns, RS!fetchRuns
<1> DEFINE rt == withFetched(r.tasks[t], parts)
           n == [r EXCEPT !.tasks[t] = rt]
<1>2. r \in db.run /\ Do(RS!UpdateRun(db, n))
  BY <1>1
<1>3. DOMAIN rt = DOMAIN r.tasks[t]
  BY DEF withFetched
<1>4. \A rc : RunOK(Approved, r, rc) =>
        /\ rt.approvers = r.tasks[t].approvers /\ rt.appr = r.tasks[t].appr
        /\ rt.status = r.tasks[t].status
  BY <1>1 DEF withFetched, RunOK, TaskOK
<1> HIDE DEF rt
<1>5. \A rc : RunOK(Approved, r, rc) => n.id = r.id /\ n.rc = r.rc /\ RunOK(Approved, n, rc)
  BY <1>1, <1>3, <1>4 DEF RunOK, TaskOK
<1>6. Keeps(Approved, db, r, n)
  BY <1>2, <1>5 DEF Keeps, DatabaseOK
<1> QED BY <1>2, <1>6, SavedRunOK

LEMMA DropExecutorTaskOK ==
    ASSUME DatabaseOK(Approved, db), DropExecutorTask
    PROVE  DatabaseStep
BY DeleteExecutorTaskOK, DoGood DEF DropExecutorTask

LEMMA ArchiverOK ==
    ASSUME DatabaseOK(Approved, db), finishedRunArchiver
    PROVE  DatabaseStep
<1>1. PICK r \in db.run : Do(RS!UpdateRun(db, [r EXCEPT !.archived = TRUE]))
  BY Zenon DEF finishedRunArchiver, RS!GetUnarchivedRuns, RS!fetchRuns
<1> DEFINE n == [r EXCEPT !.archived = TRUE]
<1>2. \A rc : RunOK(Approved, r, rc) => n.id = r.id /\ n.rc = r.rc /\ RunOK(Approved, n, rc)
  BY DEF RunOK
<1>3. Keeps(Approved, db, r, n)
  BY <1>2 DEF Keeps, DatabaseOK
<1> QED BY <1>1, <1>3, SavedRunOK

-----------------------------------------------------------------------------
(* What the gateway's calls do *)

LEMMA PlanMore ==
    ASSUME NEW T, NEW U, T \subseteq U, NEW n \in Nat, NEW m \in Nat, n <= m, NEW p, PlanOK(T, n, p)
    PROVE  PlanOK(U, m, p)
<1>1. \A r, rc : RunOK(T, r, rc) => RunOK(U, r, rc)
  BY DEF RunOK, TaskOK
<1> QED BY <1>1, RunConfigLater DEF PlanOK

LEMMA SessionsMore ==
    ASSUME NEW T, NEW U, T \subseteq U, NEW n \in Nat, NEW m \in Nat, n <= m,
           NEW ss, SessionsOK(T, n, ss)
    PROVE  SessionsOK(U, m, ss)
BY PlanMore DEF SessionsOK, SessionOK

LEMMA SessionSet ==
    ASSUME NEW T, NEW n, NEW ss, SessionsOK(T, n, ss), NEW c \in Clients, NEW x, SessionOK(T, n, x)
    PROVE  SessionsOK(T, n, [ss EXCEPT ![c] = x])
BY DEF SessionsOK

LEMMA IdleOK == ASSUME NEW T, NEW n PROVE SessionOK(T, n, Idle)
BY DEF SessionOK, Idle

(* The session of a client, at the call of its plan. *)
LEMMA AtCallOK ==
    ASSUME ApprovalInv, NEW c \in Clients, NEW call, AtCall(c, call)
    PROVE  /\ DOMAIN s = Clients /\ s[c].on /\ DOMAIN s[c] = {"on", "plan"} /\ s[c].plan.call = call
           /\ PlanOK(Approved, db.next, s[c].plan)
BY DEF ApprovalInv, SessionsOK, SessionOK, AtCall

LEMMA ApplyOK ==
    ASSUME DatabaseOK(Approved, db), NEW p, PlanOK(Approved, db.next, p),
           p.call \in {"cancel", "stop", "approve", "save"}
    PROVE  Good(Approved, db, apply(p))
<1>1. CASE p.call = "cancel"
  <2>1. apply(p) = RS!ChangeRunPhase(db, p.run, "cancelled", {})
    BY <1>1 DEF apply, RS!RunActionsHandler
  <2> QED BY <2>1, ChangeRunPhaseOK
<1>2. CASE p.call = "stop"
  <2>1. apply(p) = RS!StopRun(db, p.run, {})
    BY <1>2 DEF apply, RS!RunActionsHandler
  <2> QED BY <2>1, StopRunOK
<1>3. CASE p.call = "approve"
  <2>1. apply(p) = RS!RunTaskSetAnnotations(db, p.run, p.task, p.arg, p.token)
    BY <1>3 DEF apply, RS!RunTaskActionsHandler
  <2>2. p.task \in Approved
    BY <1>3 DEF PlanOK
  <2> QED BY <2>1, <2>2, SetAnnotationsOK
<1>4. CASE p.call = "save"
  <2>1. apply(p) = RS!saveRun(db, p.rb, {})
    BY <1>4 DEF apply
  <2>2. RunConfigOK(db.next, p.rb.rc) /\ RunOK(Approved, p.rb.run, p.rb.rc)
    BY <1>4 DEF PlanOK
  <2> QED BY <2>1, <2>2, SaveRunOK
<1> QED BY <1>1, <1>2, <1>3, <1>4

LEMMA CreateOK ==
    ASSUME DatabaseOK(Approved, db), NEW p, PlanOK(Approved, db.next, p), NEW i \in p.todo
    PROVE  Good(Approved, db, create(p.rq, i))
<1>1. i # 0 => IsFiniteSet(DOMAIN p.rq.config.runs[i].tasks)
  BY DEF PlanOK
<1> QED BY <1>1, CreateHandlerOK DEF create

LEMMA NoDatabaseStep ==
    ASSUME DatabaseOK(Approved, db), db' = db
    PROVE  DatabaseStep
BY DEF DatabaseStep, DatabaseOK

(* After a step that asks for no approval. *)
LEMMA InvariantKept ==
    ASSUME ApprovalInv, asked' = asked, cfg' = cfg, DatabaseStep,
           SessionsOK(Approved, db'.next, s'), LoopOK(Approved, appr')
    PROVE  ApprovalInv'
<1>1. Approved' = Approved
  BY DEF Approved
<1> QED BY <1>1 DEF ApprovalInv, DatabaseStep

LEMMA SessionsLater ==
    ASSUME ApprovalInv, DatabaseStep
    PROVE  SessionsOK(Approved, db'.next, s)
<1>1. db.next \in Nat /\ db'.next \in Nat
  BY DEF ApprovalInv, DatabaseStep, DatabaseOK
<1> QED BY <1>1, SessionsMore DEF ApprovalInv, DatabaseStep

(* A step that leaves the sessions, or ends one. *)
LEMMA SessionEnds ==
    ASSUME ApprovalInv, DatabaseStep, asked' = asked, cfg' = cfg, appr' = appr,
           NEW c \in Clients, end(c)
    PROVE  ApprovalInv'
<1>1. SessionsOK(Approved, db'.next, s')
  BY SessionsLater, SessionSet, IdleOK DEF end
<1> QED BY <1>1, InvariantKept DEF ApprovalInv

LEMMA SessionsStay ==
    ASSUME ApprovalInv, DatabaseStep, asked' = asked, cfg' = cfg, s' = s, LoopOK(Approved, appr')
    PROVE  ApprovalInv'
BY SessionsLater, InvariantKept

LEMMA CallOK ==
    ASSUME ApprovalInv, NEW c \in Clients, Call(c)
    PROVE  ApprovalInv'
<1> DEFINE p == s[c].plan
<1>1. p.call \in {"cancel", "stop", "approve", "save"} /\ PlanOK(Approved, db.next, p)
  BY AtCallOK DEF Call
<1>2. Good(Approved, db, apply(p))
  BY <1>1, ApplyOK DEF ApprovalInv
<1>3. DatabaseStep
  BY <1>2, NoDatabaseStep DEF Call, commit, Good, DatabaseStep, ApprovalInv
<1> QED BY <1>3, SessionEnds DEF Call

LEMMA CallLostOK ==
    ASSUME ApprovalInv, NEW c \in Clients, CallLost(c)
    PROVE  ApprovalInv'
<1> DEFINE p == s[c].plan
<1>1. p.call \in {"approve", "save", "create"} /\ PlanOK(Approved, db.next, p)
  BY AtCallOK DEF CallLost
<1>2. p.call # "create" => Good(Approved, db, apply(p))
  BY <1>1, ApplyOK DEF ApprovalInv
<1>3. \A i \in p.todo : Good(Approved, db, create(p.rq, i))
  BY <1>1, CreateOK DEF ApprovalInv
<1> HIDE DEF p
<1>4. DatabaseStep
  <2>1. CASE db' = db
    BY <2>1, NoDatabaseStep DEF ApprovalInv
  <2>2. CASE p.call # "create" /\ RS!IsOK(apply(p)) /\ db' = apply(p)
    BY <1>2, <2>2 DEF Good, DatabaseStep
  <2>3. CASE \E i \in p.todo : RS!IsOK(create(p.rq, i)) /\ db' = create(p.rq, i)
    BY <1>3, <2>3 DEF Good, DatabaseStep
  <2> QED BY <2>1, <2>2, <2>3 DEF CallLost, commit, nextOf, p
<1> QED BY <1>4, SessionEnds DEF CallLost

LEMMA CreateNextOK ==
    ASSUME ApprovalInv, NEW c \in Clients, CreateNext(c)
    PROVE  ApprovalInv'
<1> DEFINE p == s[c].plan
<1>1. AtCall(c, "create") /\ asked' = asked /\ cfg' = cfg /\ appr' = appr
  BY DEF CreateNext
<1>2. /\ DOMAIN s = Clients /\ s[c].on /\ DOMAIN s[c] = {"on", "plan"} /\ p.call = "create"
      /\ PlanOK(Approved, db.next, p)
  BY <1>1, AtCallOK
<1>3. CASE db' = db /\ end(c)
  BY <1>1, <1>3, NoDatabaseStep, SessionEnds DEF ApprovalInv
<1>4. CASE ~(db' = db /\ end(c))
  <2>1. PICK i \in nextOf(p.todo) : /\ RS!IsOK(create(p.rq, i)) /\ db' = create(p.rq, i)
                                    /\ end(c) \/ s' = [s EXCEPT ![c].plan.todo = @ \ {i}]
    BY <1>4 DEF CreateNext
  <2>2. Good(Approved, db, create(p.rq, i))
    BY <1>2, <2>1, CreateOK DEF nextOf, ApprovalInv
  <2>3. DatabaseStep
    BY <2>1, <2>2 DEF Good, DatabaseStep
  <2> SUFFICES ASSUME ~end(c) PROVE ApprovalInv'
    BY <1>1, <2>3, SessionEnds
  <2> DEFINE q == [p EXCEPT !.todo = p.todo \ {i}]
             x == [s[c] EXCEPT !.plan = q]
  <2>4. s' = [s EXCEPT ![c] = x]
    BY <2>1
  <2>5. PlanOK(Approved, db.next, q)
    BY <1>2 DEF PlanOK, NoPlan
  <2>6. x.on /\ DOMAIN x = {"on", "plan"} /\ x.plan = q
    BY <1>2
  <2> HIDE DEF q, x
  <2>7. SessionOK(Approved, db.next, x)
    BY <2>5, <2>6 DEF SessionOK
  <2>8. SessionsOK(Approved, db.next, s')
    BY <2>4, <2>7, SessionSet DEF ApprovalInv
  <2>9. SessionsOK(Approved, db'.next, s')
    BY <2>3, <2>8, SessionsMore DEF DatabaseStep, DatabaseOK, ApprovalInv
  <2> QED BY <1>1, <2>3, <2>9, InvariantKept DEF ApprovalInv
<1> QED BY <1>3, <1>4

LEMMA RecreateOK ==
    ASSUME ApprovalInv, NEW c \in Clients, RecreateRun(c)
    PROVE  ApprovalInv'
<1> DEFINE p == s[c].plan
<1>1. AtCall(c, "restart") /\ asked' = asked /\ cfg' = cfg /\ appr' = appr
  BY DEF RecreateRun, history
<1>2. /\ DOMAIN s = Clients /\ s[c].on /\ DOMAIN s[c] = {"on", "plan"}
      /\ PlanOK(Approved, db.next, p)
  BY <1>1, AtCallOK
<1>3. CASE db' = db /\ end(c)
  BY <1>1, <1>3, NoDatabaseStep, SessionEnds DEF ApprovalInv
<1>4. CASE ~(db' = db /\ end(c))
  <2>1. PICK a \in RS!recreateRun(db, p.run, p.arg) :
          s' = [s EXCEPT ![c].plan.call = "save", ![c].plan.rb = a.rb] /\ db' = a.d
    BY <1>4 DEF RecreateRun
  <2>2. /\ Same(db, db') /\ RunConfigOK(db'.next, a.rb.rc)
        /\ RunOK(Approved, a.rb.run, a.rb.rc)
    BY <2>1, RecreateRunOK DEF ApprovalInv
  <2>3. DatabaseStep
    BY <2>2, SameOK DEF DatabaseStep, Same, ApprovalInv
  <2> DEFINE q == [p EXCEPT !.call = "save", !.rb = a.rb]
             x == [s[c] EXCEPT !.plan = q]
  <2>4. s' = [s EXCEPT ![c] = x]
    BY <1>2, <2>1
  <2>5. PlanOK(Approved, db'.next, q)
    BY <1>2, <2>2 DEF PlanOK, NoPlan
  <2>6. x.on /\ DOMAIN x = {"on", "plan"} /\ x.plan = q
    BY <1>2
  <2> HIDE DEF q, x
  <2>7. SessionOK(Approved, db'.next, x)
    BY <2>5, <2>6 DEF SessionOK
  <2>8. SessionsOK(Approved, db'.next, s)
    BY <2>3, SessionsLater
  <2>9. SessionsOK(Approved, db'.next, s')
    BY <2>4, <2>7, <2>8, SessionSet
  <2> QED BY <1>1, <2>3, <2>9, InvariantKept DEF ApprovalInv
<1> QED BY <1>3, <1>4

(* The first read of a log ends the request or leaves the second one to do. *)
LEMMA ReadLogsPlan ==
    ASSUME ApprovalInv, NEW c \in Clients, ReadLogs(c), ~end(c)
    PROVE  \E x : /\ s' = [s EXCEPT ![c] = x] /\ x.plan.call = "executorlog"
                  /\ SessionOK(Approved, db.next, x)
<1> DEFINE p == s[c].plan
           q == [p EXCEPT !.call = "executorlog"]
           x == [s[c] EXCEPT !.plan = q]
<1>1. /\ DOMAIN s = Clients /\ s[c].on /\ DOMAIN s[c] = {"on", "plan"}
      /\ PlanOK(Approved, db.next, p)
  BY AtCallOK DEF ReadLogs
<1>2. s' = [s EXCEPT ![c].plan.call = "executorlog"]
  BY DEF ReadLogs
<1>3. s' = [s EXCEPT ![c] = x]
  BY <1>1, <1>2
<1>4. PlanOK(Approved, db.next, q) /\ q.call = "executorlog"
  BY <1>1 DEF PlanOK, NoPlan
<1>5. x.on /\ DOMAIN x = {"on", "plan"} /\ x.plan = q
  BY <1>1
<1> HIDE DEF q, x
<1>6. SessionOK(Approved, db.next, x) /\ x.plan.call = "executorlog"
  BY <1>4, <1>5 DEF SessionOK
<1> QED BY <1>3, <1>6

LEMMA ReadLogsOK ==
    ASSUME ApprovalInv, NEW c \in Clients, ReadLogs(c)
    PROVE  ApprovalInv'
<1>1. db' = db /\ asked' = asked /\ cfg' = cfg /\ appr' = appr
  BY DEF ReadLogs, history
<1>2. DatabaseStep
  BY <1>1, NoDatabaseStep DEF ApprovalInv
<1>3. CASE end(c)
  BY <1>1, <1>2, <1>3, SessionEnds
<1>4. CASE ~end(c)
  <2>1. PICK x : s' = [s EXCEPT ![c] = x] /\ SessionOK(Approved, db.next, x)
    BY <1>4, ReadLogsPlan
  <2>2. SessionsOK(Approved, db'.next, s')
    BY <1>1, <1>2, <2>1, SessionsLater, SessionSet
  <2> QED BY <1>1, <1>2, <2>2, InvariantKept DEF ApprovalInv
<1> QED BY <1>3, <1>4

(* Only an owner's request becomes the plan to ask for an approval. *)
RoutedOK(rq, p) ==
    /\ DOMAIN p = DOMAIN NoPlan /\ p.call # "save"
    /\ p.call = "approve" => rq.user \in Owners
    /\ \A i \in p.todo : i # 0 => IsFiniteSet(DOMAIN p.rq.config.runs[i].tasks)

LEMMA PlanRecord ==
    ASSUME NEW call, NEW run, NEW task, NEW arg
    PROVE  LET p == Plan(call, run, task, arg)
           IN  DOMAIN p = DOMAIN NoPlan /\ p.call = call /\ p.todo = {}
BY DEF Plan, NoPlan

LEMMA CreateRunsOK ==
    ASSUME NEW any, NEW rq, FiniteConfig(rq.config), NEW p \in CreateRuns(rq)
    PROVE  RoutedOK(any, p)
<1> DEFINE todo == IF RS!ParseConfig(rq.config) THEN toCreate(rq) ELSE {0}
<1>1. p = [NoPlan EXCEPT !.call = "create", !.rq = rq, !.todo = todo]
  BY Zenon DEF CreateRuns
<1>2. \A i \in todo : i # 0 => i \in DOMAIN rq.config.runs
  BY Zenon DEF toCreate
<1>3. \A i \in todo : i # 0 => IsFiniteSet(DOMAIN rq.config.runs[i].tasks)
  BY <1>2 DEF FiniteConfig
<1> HIDE DEF todo
<1>4. p.call = "create" /\ p.rq = rq /\ p.todo = todo /\ DOMAIN p = DOMAIN NoPlan
  BY <1>1 DEF NoPlan
<1> QED BY <1>3, <1>4 DEF RoutedOK

LEMMA RouteOK ==
    ASSUME NEW d, NEW rq, NEW config, FiniteConfig(config), NEW p \in Route(d, rq, config)
    PROVE  RoutedOK(rq, p)
<1>1. CASE rq.op = "webhook"
  <2> DEFINE r == [base |-> rq.base, refType |-> WebHookEventToRunRefType(rq.event),
                   name |-> rq.name, ref |-> rq.ref, sha |-> rq.sha, message |-> rq.message,
                   config |-> config]
  <2>1. p \in handleWebhook(rq, config)
    BY <1>1 DEF Route
  <2>2. p \in CreateRuns(r)
    BY <2>1, Zenon DEF handleWebhook
  <2>3. r.config = config
    OBVIOUS
  <2> HIDE DEF r
  <2> QED BY <2>2, <2>3, CreateRunsOK
<1>2. CASE rq.op = "projectrun"
  <2>1. p \in ProjectCreateRun(rq, config)
    BY <1>2 DEF Route
  <2>2. p \in CreateRuns(manualRequest(rq, config))
    BY <2>1, Zenon DEF ProjectCreateRun
  <2>3. manualRequest(rq, config).config = config
    BY DEF manualRequest
  <2> QED BY <2>2, <2>3, CreateRunsOK
<1>3. CASE rq.op = "userrun"
  <2> DEFINE r == [manualRequest(rq, config) EXCEPT !.message = rq.message]
  <2>1. p \in UserCreateRun(rq, config)
    BY <1>3 DEF Route
  <2>2. p \in CreateRuns(r)
    BY <2>1, Zenon DEF UserCreateRun
  <2>3. r.config = config
    BY DEF manualRequest
  <2> HIDE DEF r
  <2> QED BY <2>2, <2>3, CreateRunsOK
<1>4. CASE rq.op = "runaction"
  <2>1. p \in RunAction(d, rq)
    BY <1>4 DEF Route
  <2>2. \E run, arg : p \in {Plan("restart", run, 0, arg), Plan("cancel", run, 0, arg),
                             Plan("stop", run, 0, arg)}
    BY <2>1 DEF RunAction
  <2> QED BY <2>2, PlanRecord DEF RoutedOK
<1>5. CASE rq.op = "taskaction"
  <2>1. p \in RunTaskAction(d, rq)
    BY <1>5 DEF Route
  <2> DEFINE plan(a) ==
        Plan("approve", a.run.id, rq.task, a.run.tasks[rq.task].approvers \cup {rq.user})
  <2>2. PICK a : rq.user \in Owners /\ p = [plan(a) EXCEPT !.token = a.token]
    BY <2>1 DEF RunTaskAction, CanDoRunActions
  <2> DEFINE q == plan(a)
  <2>3. DOMAIN q = DOMAIN NoPlan /\ q.todo = {}
    BY PlanRecord
  <2> HIDE DEF q
  <2>4. DOMAIN p = DOMAIN NoPlan /\ p.todo = {} /\ p.call = q.call
    BY <2>2, <2>3 DEF q, NoPlan
  <2>5. q.call = "approve"
    BY PlanRecord DEF q
  <2> QED BY <2>2, <2>4, <2>5 DEF RoutedOK
<1>6. CASE rq.op = "deletelogs"
  <2>1. p \in DeleteLogs(d, rq)
    BY <1>6 DEF Route
  <2>2. PICK a : p = Plan("deletelogs", a.run.id, rq.task, rq.part)
    BY <2>1 DEF DeleteLogs
  <2> QED BY <2>2, PlanRecord DEF RoutedOK
<1>7. CASE rq.op = "logs"
  <2>1. p \in GetLogs(d, rq)
    BY <1>7 DEF Route
  <2>2. PICK a : p = Plan("logs", a.run.id, rq.task, rq.part)
    BY <2>1 DEF GetLogs
  <2> QED BY <2>2, PlanRecord DEF RoutedOK
<1> QED BY <1>1, <1>2, <1>3, <1>4, <1>5, <1>6, <1>7 DEF Route

LEMMA ArriveOK ==
    ASSUME ApprovalInv, NEW c \in Clients, Arrive(c)
    PROVE  ApprovalInv'
<1>1. PICK rq, p :
        /\ p \in Route(db, rq, cfg)
        /\ s' = [s EXCEPT ![c] = [on |-> TRUE, plan |-> p]]
        /\ asked' = IF p.call # "approve" THEN asked
                    ELSE asked \cup {[run |-> p.run, task |-> p.task, user |-> rq.user]}
  BY DEF Arrive
<1>2. db' = db /\ cfg' = cfg /\ appr' = appr
  BY DEF Arrive
<1>3. RoutedOK(rq, p)
  BY <1>1, RouteOK DEF ApprovalInv
<1>4. Approved \subseteq Approved'
  BY <1>1 DEF Approved
<1>5. p.call = "approve" => p.task \in Approved'
  <2> SUFFICES ASSUME p.call = "approve" PROVE p.task \in Approved'
    OBVIOUS
  <2> DEFINE a == [run |-> p.run, task |-> p.task, user |-> rq.user]
  <2>1. a \in asked' /\ a.user \in Owners /\ a.task = p.task
    BY <1>1, <1>3 DEF RoutedOK
  <2> HIDE DEF a
  <2> QED BY <2>1 DEF Approved
<1>6. PlanOK(Approved', db.next, p)
  BY <1>3, <1>5 DEF PlanOK, RoutedOK
<1>7. DatabaseOK(Approved', db)
  BY <1>4, DatabaseMore DEF ApprovalInv
<1>8. SessionsOK(Approved', db.next, s)
  <2>1. db.next \in Nat /\ db.next <= db.next
    BY DEF ApprovalInv, DatabaseOK
  <2> QED BY <1>4, <2>1, SessionsMore DEF ApprovalInv
<1>9. SessionOK(Approved', db.next, [on |-> TRUE, plan |-> p])
  BY <1>6 DEF SessionOK
<1>10. SessionsOK(Approved', db.next, s')
  BY <1>1, <1>8, <1>9, SessionSet
<1>11. LoopOK(Approved', appr)
  BY <1>4 DEF ApprovalInv, LoopOK
<1> QED BY <1>2, <1>7, <1>10, <1>11 DEF ApprovalInv

-----------------------------------------------------------------------------
LEMMA InitialApproval == ASSUME Init PROVE ApprovalInv
<1>1. Approved = {}
  BY DEF Init, Approved
<1>2. DatabaseOK(Approved, db) /\ FiniteConfig(cfg)
  BY <1>1, ScenariosAssumption DEF Init
<1>3. SessionsOK(Approved, db.next, s)
  BY IdleOK DEF Init, SessionsOK
<1>4. LoopOK(Approved, appr)
  BY DEF Init, LoopOK, Idle
<1> QED BY <1>2, <1>3, <1>4 DEF ApprovalInv

LEMMA ApprovalKept == ASSUME ApprovalInv, [Next]_vars PROVE ApprovalInv'
<1>1. ASSUME DatabaseStep, asked' = asked, cfg' = cfg, s' = s, appr' = appr PROVE ApprovalInv'
  BY <1>1, SessionsStay DEF ApprovalInv
<1>2. DatabaseOK(Approved, db)
  BY DEF ApprovalInv
<1>3. ASSUME db' = db, asked' = asked, cfg' = cfg, s' = s, appr' = appr PROVE ApprovalInv'
  BY <1>1, <1>2, <1>3, NoDatabaseStep
<1>4. ASSUME NEW c \in Clients, Arrive(c) PROVE ApprovalInv'
  BY <1>4, ArriveOK
<1>5. ASSUME NEW c \in Clients, Call(c) PROVE ApprovalInv'
  BY <1>5, CallOK
<1>6. ASSUME NEW c \in Clients, CreateNext(c) PROVE ApprovalInv'
  BY <1>6, CreateNextOK
<1>7. ASSUME NEW c \in Clients, RecreateRun(c) PROVE ApprovalInv'
  BY <1>7, RecreateOK
<1>8. ASSUME NEW c \in Clients, DeleteLogsCall(c) PROVE ApprovalInv'
  BY <1>2, <1>8, NoDatabaseStep, SessionEnds DEF DeleteLogsCall
<1>9. ASSUME NEW c \in Clients, CallLost(c) PROVE ApprovalInv'
  BY <1>9, CallLostOK
<1>10. CASE StartRun
  BY <1>1, <1>2, <1>10, StartRunOK DEF StartRun, history
<1>11. CASE ReadApprovals
  BY <1>2, <1>11, ReadApprovalsOK, SessionsStay DEF ReadApprovals, history
<1>12. CASE ApproveTask
  <2>1. LoopOK(Approved, appr)
    BY DEF ApprovalInv
  <2> QED BY <1>2, <1>12, <2>1, ApproveTaskOK, SessionsStay DEF ApproveTask, history
<1>13. CASE compactChangeGroups
  BY <1>1, <1>2, <1>13, CompactOK DEF compactChangeGroups, history
<1>14. CASE AdvanceRun
  BY <1>1, <1>2, <1>14, AdvanceRunOK DEF AdvanceRun, history
<1>15. CASE SubmitTask
  BY <1>1, <1>2, <1>15, SubmitTaskOK DEF SubmitTask, history
<1>16. CASE TaskEnds
  BY <1>1, <1>2, <1>16, TaskEndsOK DEF TaskEnds, history
<1>17. CASE TaskFetcher
  BY <1>1, <1>2, <1>17, TaskFetcherOK DEF TaskFetcher, history
<1>18. CASE DropExecutorTask
  BY <1>1, <1>2, <1>18, DropExecutorTaskOK DEF DropExecutorTask, history
<1>19. CASE finishedRunArchiver
  BY <1>1, <1>2, <1>19, ArchiverOK DEF finishedRunArchiver, history
<1>20. ASSUME NEW n \in Notifiers, Connect(n) \/ SendRunEvents(n) \/ Disconnect(n)
       PROVE  ApprovalInv'
  BY <1>3, <1>20 DEF Connect, SendRunEvents, Disconnect, history
<1>21. ASSUME NEW n \in Notifiers, HandleEvent(n) \/ EventFails(n) PROVE ApprovalInv'
  BY <1>3, <1>21 DEF HandleEvent, EventFails, history
<1>22. CASE UNCHANGED vars
  BY <1>3, <1>22 DEF vars, history
<1>23. ASSUME NEW c \in Clients, ReadLogs(c) PROVE ApprovalInv'
  BY <1>23, ReadLogsOK
<1>24. ASSUME NEW c \in Clients, ReadExecutorLog(c) PROVE ApprovalInv'
  BY <1>2, <1>24, NoDatabaseStep, SessionEnds DEF ReadExecutorLog, history
<1>25. CASE ExecutorLoses
  BY <1>3, <1>25 DEF ExecutorLoses, history
<1> QED BY <1>4, <1>5, <1>6, <1>7, <1>8, <1>9, <1>10, <1>11, <1>12, <1>13, <1>14, <1>15, <1>16,
           <1>17, <1>18, <1>19, <1>20, <1>21, <1>22, <1>23, <1>24, <1>25 DEF Next

LEMMA ApprovalGivesUser == ASSUME ApprovalInv PROVE ApprovedByUser
<1> SUFFICES ASSUME NEW r \in db.run, NEW t \in DOMAIN r.tasks, ConfigOf(r).tasks[t].approval,
                    t \in Scheduled(r) \/ r.tasks[t].status \in Executed
             PROVE  t \in Approved
  BY DEF ApprovedByUser, Approved
<1>1. PICK rc \in db.runconfig : rc.id = r.rc /\ RunOK(Approved, r, rc)
  BY DEF ApprovalInv, DatabaseOK
<1>2. \A c \in db.runconfig : c.id = r.rc => c = rc
  BY <1>1 DEF ApprovalInv, DatabaseOK
<1>3. ConfigOf(r) = rc
  BY <1>1, <1>2 DEF ConfigOf, RS!The, RS!GetRunConfig, RS!fetchRunConfigs
<1>4. CASE r.tasks[t].status \in Executed
  BY <1>1, <1>3, <1>4 DEF RunOK, TaskOK
<1>5. CASE t \in Scheduled(r)
  <2>1. PICK e \in db.executortask : e.id = t /\ e.run = r.id
    BY <1>5 DEF Scheduled, RS!GetExecutorTasksByRun, RS!fetchExecutorTasks
  <2>2. ExecutorTaskOK(Approved, e, rc)
    BY <1>2, <2>1 DEF ApprovalInv, DatabaseOK
  <2> QED BY <1>3, <2>1, <2>2 DEF ExecutorTaskOK
<1> QED BY <1>4, <1>5

(* Every task that needs an approval and was given to an executor was      *)
(* asked for by a user who may act on the project's runs, whatever the     *)
(* requests, the calls that are lost and the order in which the gateway,   *)
(* the scheduler's loop (approveRunTasks) and the runservice work.         *)
THEOREM ApprovedOnlyByUser == Spec => []ApprovedByUser
<1>1. Init => ApprovalInv
  BY InitialApproval
<1>2. ApprovalInv /\ [Next]_vars => ApprovalInv'
  BY ApprovalKept
<1>3. ApprovalInv => ApprovedByUser
  BY ApprovalGivesUser
<1> QED BY <1>1, <1>2, <1>3, PTL DEF Spec
=============================================================================
