--------------------------- MODULE RunNumbersProofs ---------------------------
(***************************************************************************)
(* A proof about Runs: however the requests interleave and whatever fails  *)
(* in between, the runs of a project or user are numbered without a gap in *)
(* the order in which they were saved, and are found by their number.      *)
(***************************************************************************)
EXTENDS RunsProofs, SequenceTheorems, WellFoundedInduction

(* The project or user of the runs that a plan is about to save is one of B. *)
NumberedPlan(B, p) ==
    /\ p.call = "create" => <<p.rq.base[1], p.rq.base[2]>> \in B
    /\ p.call = "save" => GroupOK(B, p.rb.run.group)
NumberedSessions(B, ss) == \A c \in Clients : ss[c].on => NumberedPlan(B, ss[c].plan)

NumbersInv ==
    /\ ApprovalInv
    /\ scene \in DOMAIN Scenarios /\ left \in Seq(SUBSET Requests(scene))
    /\ NumbersOK(Bases(scene), db) /\ NumberedSessions(Bases(scene), s)

-----------------------------------------------------------------------------
(* A step from d to e keeps the numbers, or gives the next one to a run of *)
(* the group g.                                                            *)
KeepsNumbers(d, e) ==
    /\ Numbers(e) = Numbers(d) /\ e.runcounter = d.runcounter
    /\ RS!GetSequence(e, "run") = RS!GetSequence(d, "run")

AddsNumber(d, e, g) ==
    \E x : /\ x.group = g /\ x.seq = sequenceOf(d) + 1 /\ x.counter = counterOf(d, g[2]) + 1
           /\ Numbers(e) = Numbers(d) \cup {x} /\ sequenceOf(e) = sequenceOf(d) + 1
           /\ \A id : counterOf(e, id) = IF id = g[2] THEN counterOf(d, id) + 1
                                         ELSE counterOf(d, id)

LEMMA NumbersKept ==
    ASSUME NEW B, NEW d, NumbersOK(B, d), NEW e, KeepsNumbers(d, e)
    PROVE  NumbersOK(B, e)
<1>1. sequenceOf(e) = sequenceOf(d) /\ \A id : counterOf(e, id) = counterOf(d, id)
  BY DEF KeepsNumbers, sequenceOf, counterOf, RS!GetRunCounter, RS!fetchRunCounters
<1> QED BY <1>1 DEF NumbersOK, KeepsNumbers

(* The next number follows those that were given out. *)
LEMMA NumberAdded ==
    ASSUME NEW B, \A a, b \in B : a[2] = b[2] => a = b, NEW d, NumbersOK(B, d),
           NEW e, NEW g, GroupOK(B, g), AddsNumber(d, e, g)
    PROVE  NumbersOK(B, e)
<1>1. PICK x : /\ x.group = g /\ x.seq = sequenceOf(d) + 1 /\ x.counter = counterOf(d, g[2]) + 1
               /\ Numbers(e) = Numbers(d) \cup {x} /\ sequenceOf(e) = sequenceOf(d) + 1
               /\ \A id : counterOf(e, id) = IF id = g[2] THEN counterOf(d, id) + 1
                                             ELSE counterOf(d, id)
  BY DEF AddsNumber
<1>2. /\ sequenceOf(d) \in Nat /\ \A b \in B : counterOf(d, b[2]) \in Nat
      /\ counterOf(d, g[2]) \in Nat
  BY DEF NumbersOK, GroupOK
<1>3. sequenceOf(e) \in Nat /\ \A b \in B : counterOf(e, b[2]) \in Nat
  BY <1>1, <1>2
<1>4. ASSUME NEW y \in Numbers(e)
      PROVE  /\ GroupOK(B, y.group) /\ y.seq \in 1 .. sequenceOf(e)
             /\ y.counter \in 1 .. counterOf(e, y.group[2])
  <2>1. CASE y = x
    BY <1>1, <1>2, <2>1
  <2>2. CASE y \in Numbers(d)
    <3>1. /\ GroupOK(B, y.group) /\ y.seq \in 1 .. sequenceOf(d)
          /\ y.counter \in 1 .. counterOf(d, y.group[2])
      BY <2>2 DEF NumbersOK
    <3>2. counterOf(d, y.group[2]) \in Nat
      BY <1>2, <3>1 DEF GroupOK
    <3> QED BY <1>1, <1>2, <3>1, <3>2
  <2> QED BY <1>1, <2>1, <2>2
<1>5. ASSUME NEW a \in Numbers(e), NEW b \in Numbers(e) PROVE InOrder(a, b)
  <2>1. \A y \in Numbers(d) : /\ y.seq \in 1 .. sequenceOf(d)
                              /\ y.counter \in 1 .. counterOf(d, y.group[2])
    BY DEF NumbersOK
  <2>2. CASE a \in Numbers(d) /\ b \in Numbers(d)
    BY <2>2 DEF NumbersOK
  <2>3. CASE a = x /\ b = x
    BY <1>1, <1>2, <2>3 DEF InOrder
  <2>4. CASE a \in Numbers(d) /\ b = x
    BY <1>1, <1>2, <2>1, <2>4 DEF InOrder
  <2>5. CASE a = x /\ b \in Numbers(d)
    BY <1>1, <1>2, <2>1, <2>5 DEF InOrder
  <2> QED BY <1>1, <2>2, <2>3, <2>4, <2>5
<1>6. ASSUME NEW b \in B, NEW n \in 1 .. counterOf(e, b[2])
      PROVE  \E y \in Numbers(e) : y.group[2] = b[2] /\ y.counter = n
  <2>1. CASE n \in 1 .. counterOf(d, b[2])
    BY <1>1, <2>1 DEF NumbersOK
  <2>2. CASE n \notin 1 .. counterOf(d, b[2])
    <3>1. b[2] = g[2] /\ n = counterOf(d, g[2]) + 1
      BY <1>1, <1>2, <2>2
    <3> QED BY <1>1, <3>1
  <2> QED BY <2>1, <2>2
<1> QED BY <1>3, <1>4, <1>5, <1>6 DEF NumbersOK

LEMMA KeptTwice ==
    ASSUME NEW c, NEW d, KeepsNumbers(c, d), NEW e, KeepsNumbers(d, e)
    PROVE  KeepsNumbers(c, e)
BY DEF KeepsNumbers

(* A write to another table. *)
LEMMA WriteNumbers ==
    ASSUME NEW d, Shape(d), NEW rows, NEW k \in RS!Tables \ {"run", "sequence", "runcounter"}
    PROVE  KeepsNumbers(d, RS!write(d, k, rows))
<1>1. {"run", "sequence", "runcounter"} \subseteq RS!Tables
  BY DEF RS!Tables
<1> QED BY <1>1, WriteShape DEF KeepsNumbers, Numbers, RS!GetSequence, RS!fetchSequences

LEMMA WithoutNumbers ==
    ASSUME NEW d, Shape(d), NEW ids, NEW k \in RS!Tables \ {"run", "sequence", "runcounter"}
    PROVE  KeepsNumbers(d, RS!without(d, k, ids))
<1>1. {"run", "sequence", "runcounter"} \subseteq RS!Tables
  BY DEF RS!Tables
<1> QED BY <1>1, WithoutShape DEF KeepsNumbers, Numbers, RS!GetSequence, RS!fetchSequences

LEMMA FreshNumbers ==
    ASSUME NEW d, Shape(d), NEW n
    PROVE  KeepsNumbers(d, RS!Fresh(d, n))
BY DEF Shape, KeepsNumbers, RS!Fresh, RS!Tables, Numbers, RS!GetSequence, RS!fetchSequences

(* Events have a sequence of their own. *)
LEMMA EventNumbers ==
    ASSUME NEW d, Shape(d), d.next \in Nat, NEW run, RS!IsOK(RS!withEvent(d, run))
    PROVE  KeepsNumbers(d, RS!withEvent(d, run))
<1> DEFINE seq == RS!NextSequence(d, "runevent")
           ev == RS!NewRunEvent(d, run)
           d1 == RS!write(d, "sequence", {seq})
           d2 == RS!write(d1, "runevent", {ev})
<1>1. Same(d, d1)
  BY WriteSame DEF RS!Tables
<1>2. seq.id = "runevent"
  BY DEF RS!NextSequence, RS!nextValue
<1> HIDE DEF seq
<1>3. d1.sequence = {o \in d.sequence : o.id # "runevent"} \cup {seq} /\ d1.runcounter = d.runcounter
  BY <1>2, WriteShape DEF RS!Tables
<1>4. KeepsNumbers(d, d1)
  BY <1>1, <1>2, <1>3 DEF KeepsNumbers, Same, Numbers, RS!GetSequence, RS!fetchSequences
<1>5. KeepsNumbers(d1, d2)
  BY <1>1, WriteNumbers DEF RS!Tables, Same
<1>6. RS!withEvent(d, run) \in {d2, RS!Refused}
  BY ShapeOK, <1>1 DEF RS!withEvent, RS!InsertOrUpdateSequence, RS!InsertRunEvent, RS!insert,
     RS!insertOrUpdate, Same, seq
<1> QED BY <1>4, <1>5, <1>6, RefusedNotOK, KeptTwice

LEMMA ChangeGroupsNumbers ==
    ASSUME NEW d, Shape(d), d.next \in Nat, NEW token, RS!IsOK(RS!UpdateChangeGroups(d, token))
    PROVE  KeepsNumbers(d, RS!UpdateChangeGroups(d, token))
<1> DEFINE d1 == RS!Fresh(d, 1)
           rows == {[id |-> o.id, value |-> d.next] : o \in token}
           d2 == RS!write(d1, "changegroup", rows)
<1>1. KeepsNumbers(d, d)
  BY DEF KeepsNumbers
<1>2. KeepsNumbers(d, d1) /\ Shape(d1)
  BY FreshNumbers, FreshSame DEF Same
<1>3. KeepsNumbers(d1, d2)
  BY <1>2, WriteNumbers DEF RS!Tables
<1>4. RS!UpdateChangeGroups(d, token) \in {d, d2, RS!Refused}
  BY <1>2, ShapeOK DEF RS!UpdateChangeGroups, RS!InsertOrUpdateChangeGroup, RS!insertOrUpdate
<1> QED BY <1>1, <1>2, <1>3, <1>4, KeptTwice, RefusedNotOK

LEMMA GroupTokensNumbers ==
    ASSUME NEW d, Shape(d), d.next \in Nat, NEW names
    PROVE  KeepsNumbers(d, RS!GetChangeGroupsUpdateTokens(d, names))
<1> DEFINE d1 == RS!Fresh(d, 1)
           rows == {[id |-> n, value |-> d.next] :
                      n \in {x \in names : ~RS!HasID(d, "changegroup", x)}}
           d2 == RS!write(d1, "changegroup", rows)
<1>1. KeepsNumbers(d, d)
  BY DEF KeepsNumbers
<1>2. KeepsNumbers(d, d1) /\ Shape(d1)
  BY FreshNumbers, FreshSame DEF Same
<1>3. KeepsNumbers(d1, d2)
  BY <1>2, WriteNumbers DEF RS!Tables
<1>4. RS!GetChangeGroupsUpdateTokens(d, names) \in {d, d2}
  BY <1>2, ShapeOK
  DEF RS!GetChangeGroupsUpdateTokens, RS!InsertOrUpdateChangeGroup, RS!insertOrUpdate
<1> QED BY <1>1, <1>2, <1>3, <1>4, KeptTwice

(* Replacing a run by one with the same number. *)
LEMMA UpdateRunNumbers ==
    ASSUME NEW d, Shape(d), \A a, b \in d.run : a.id = b.id => a = b,
           NEW r \in d.run, NEW n, Number(n) = Number(r)
    PROVE  /\ RS!UpdateRun(d, n) = RS!write(d, "run", {n})
           /\ KeepsNumbers(d, RS!UpdateRun(d, n)) /\ Shape(RS!UpdateRun(d, n))
           /\ RS!UpdateRun(d, n).next = d.next
<1> DEFINE e == RS!write(d, "run", {n})
<1>0. n.id = r.id
  BY DEF Number
<1>1. RS!UpdateRun(d, n) = e
  BY <1>0, ShapeOK DEF RS!UpdateRun, RS!update, RS!HasID
<1>2. /\ Shape(e) /\ e.run = {o \in d.run : o.id # n.id} \cup {n} /\ e.next = d.next
      /\ e.sequence = d.sequence /\ e.runcounter = d.runcounter
  BY WriteShape DEF RS!Tables
<1> HIDE DEF e
<1>3. {o \in d.run : o.id # n.id} = d.run \ {r}
  BY <1>0
<1>4. Numbers(e) = Numbers(d)
  BY <1>2, <1>3 DEF Numbers
<1> QED BY <1>1, <1>2, <1>4 DEF KeepsNumbers, RS!GetSequence, RS!fetchSequences, e

-----------------------------------------------------------------------------
(* Changes of a run *)

(* e, if it isn't an error, has d's numbers *)
Unnumbered(d, e) == RS!IsOK(e) => KeepsNumbers(d, e)

LEMMA ChangeRunNumbers ==
    ASSUME NEW T, NEW d, DatabaseOK(T, d), NEW id, NEW token, NEW allowed \in BOOLEAN, NEW new,
           RS!GetRun(d, id) # {} /\ allowed => Number(new) = Number(RS!The(RS!GetRun(d, id)))
    PROVE  Unnumbered(d, RS!changeRun(d, id, token, allowed, new))
<1> DEFINE r == RS!The(RS!GetRun(d, id))
           d1 == RS!UpdateChangeGroups(d, token)
           d2 == RS!UpdateRun(d1, new)
           e == RS!changeRun(d, id, token, allowed, new)
<1> SUFFICES ASSUME RS!IsOK(e) PROVE KeepsNumbers(d, e)
  BY DEF Unnumbered
<1>1. RS!GetRun(d, id) # {} /\ allowed
  BY RefusedNotOK DEF RS!changeRun
<1>2. r \in d.run /\ Number(new) = Number(r)
  BY <1>1, RunFound
<1>3. e \in {d2, RS!withEvent(d2, new)}
  BY <1>1 DEF RS!changeRun
<1>4. RS!IsOK(d1)
  <2> SUFFICES ASSUME ~RS!IsOK(d1) PROVE FALSE
    OBVIOUS
  <2>1. ~RS!IsOK(d2)
    BY RefusedNotOK DEF RS!UpdateRun, RS!update
  <2> QED BY <1>3, <2>1, EventRefused
<1>5. Shape(d) /\ d.next \in Nat /\ \A a, b \in d.run : a.id = b.id => a = b
  BY DEF Shape, DatabaseOK
<1>6. Same(d, d1) /\ KeepsNumbers(d, d1)
  BY <1>4, <1>5, ChangeGroupsSame, ChangeGroupsNumbers
<1>7. Shape(d1) /\ d1.next \in Nat /\ r \in d1.run /\ \A a, b \in d1.run : a.id = b.id => a = b
  BY <1>2, <1>5, <1>6 DEF Same
<1> HIDE DEF r, d1
<1>8. KeepsNumbers(d1, d2) /\ Shape(d2) /\ d2.next = d1.next
  BY <1>2, <1>7, UpdateRunNumbers
<1> HIDE DEF d2, e
<1>9. e = d2 \/ KeepsNumbers(d2, e)
  BY <1>3, <1>7, <1>8, EventNumbers
<1> QED BY <1>6, <1>8, <1>9, KeptTwice

(* A record that differs from a run in other fields has its number. *)
LEMMA ChangeRunPhaseNumbers ==
    ASSUME NEW T, NEW d, DatabaseOK(T, d), NEW id, NEW phase, NEW token
    PROVE  Unnumbered(d, RS!ChangeRunPhase(d, id, phase, token))
<1> DEFINE r == RS!The(RS!GetRun(d, id))
           new == RS!ChangePhase(r, phase)
<1>1. ASSUME RS!GetRun(d, id) # {} PROVE Number(new) = Number(r)
  <2>1. r \in d.run
    BY <1>1, RunFound
  <2> QED BY <2>1 DEF DatabaseOK, RunOK, RS!ChangePhase, Number
<1>2. (phase \in {"running", "cancelled"} /\ r.phase = "queued") \in BOOLEAN
  OBVIOUS
<1> QED BY <1>1, <1>2, ChangeRunNumbers DEF RS!ChangeRunPhase

LEMMA StopRunNumbers ==
    ASSUME NEW T, NEW d, DatabaseOK(T, d), NEW id, NEW token
    PROVE  Unnumbered(d, RS!StopRun(d, id, token))
<1> DEFINE r == RS!The(RS!GetRun(d, id))
           new == [r EXCEPT !.stop = TRUE,
                      !.tasks = [t \in DOMAIN @ |-> [@[t] EXCEPT !.wait = FALSE]]]
<1>1. ASSUME RS!GetRun(d, id) # {} PROVE Number(new) = Number(r)
  <2>1. r \in d.run
    BY <1>1, RunFound
  <2> QED BY <2>1 DEF DatabaseOK, RunOK, Number
<1>2. (r.phase = "running") \in BOOLEAN
  OBVIOUS
<1> QED BY <1>1, <1>2, ChangeRunNumbers DEF RS!StopRun

LEMMA SetAnnotationsNumbers ==
    ASSUME NEW T, NEW d, DatabaseOK(T, d), NEW id, NEW t, NEW approvers, NEW token
    PROVE  Unnumbered(d, RS!RunTaskSetAnnotations(d, id, t, approvers, token))
<1> DEFINE r == RS!The(RS!GetRun(d, id))
           new == [r EXCEPT !.tasks[t].approvers = approvers]
<1>1. ASSUME RS!GetRun(d, id) # {} PROVE Number(new) = Number(r)
  <2>1. r \in d.run
    BY <1>1, RunFound
  <2> QED BY <2>1 DEF DatabaseOK, RunOK, Number
<1>2. (t \in DOMAIN r.tasks) \in BOOLEAN
  OBVIOUS
<1> QED BY <1>1, <1>2, ChangeRunNumbers DEF RS!RunTaskSetAnnotations

LEMMA ApproveRunTaskNumbers ==
    ASSUME NEW T, NEW d, DatabaseOK(T, d), NEW id, NEW t, NEW token
    PROVE  Unnumbered(d, RS!ApproveRunTask(d, id, t, token))
<1> DEFINE r == RS!The(RS!GetRun(d, id))
           new == [r EXCEPT !.tasks[t].wait = FALSE, !.tasks[t].appr = TRUE]
<1>1. ASSUME RS!GetRun(d, id) # {} PROVE Number(new) = Number(r)
  <2>1. r \in d.run
    BY <1>1, RunFound
  <2> QED BY <2>1 DEF DatabaseOK, RunOK, Number
<1>2. (t \in DOMAIN r.tasks /\ r.tasks[t].wait /\ ~r.tasks[t].appr) \in BOOLEAN
  OBVIOUS
<1> QED BY <1>1, <1>2, ChangeRunNumbers DEF RS!ApproveRunTask

-----------------------------------------------------------------------------
(* New runs *)

(* What saveRun writes is the next value of the sequence and of the counter. *)
LEMMA NextRow ==
    ASSUME NEW rows, NEW id
    PROVE  /\ RS!nextValue(rows, id).id = id
           /\ RS!nextValue(rows, id).value = RS!valueOf(rows) + 1
           /\ RS!valueOf({RS!nextValue(rows, id)}) = RS!valueOf(rows) + 1
<1> DEFINE x == RS!nextValue(rows, id)
<1>1. x.id = id /\ x.value = RS!valueOf(rows) + 1
  BY DEF RS!nextValue
<1> HIDE DEF x
<1>2. RS!The({x}) = x
  BY DEF RS!The
<1>3. RS!valueOf({x}) = x.value
  BY <1>2 DEF RS!valueOf
<1> QED BY <1>1, <1>3 DEF x

LEMMA SaveRunNumbers ==
    ASSUME NEW T, NEW d, DatabaseOK(T, d), NEW rb, NEW token,
           RunConfigOK(d.next, rb.rc), RunOK(T, rb.run, rb.rc), RS!IsOK(RS!saveRun(d, rb, token))
    PROVE  AddsNumber(d, RS!saveRun(d, rb, token), rb.run.group)
<1> DEFINE g == rb.run.group
           seq == RS!NextSequence(d, "run")
           counter == RS!NextRunCounter(d, RS!getRunCounterGroupID(g))
           run == [rb.run EXCEPT !.id = d.next, !.rc = d.next, !.seq = seq.value,
                                 !.counter = counter.value]
           rc == [rb.rc EXCEPT !.id = d.next]
           d0 == RS!Fresh(d, 1)
           d1 == RS!UpdateChangeGroups(d0, token)
           d2 == RS!write(d1, "sequence", {seq})
           d3 == RS!write(d2, "runcounter", {counter})
           d4 == RS!write(d3, "run", {run})
           d5 == RS!write(d4, "runconfig", {rc})
           e == RS!saveRun(d, rb, token)
<1>1. Shape(d) /\ d.next \in Nat /\ \A r \in d.run : r.id # d.next
  BY DEF Shape, DatabaseOK
<1>2. Same(d, d0) /\ KeepsNumbers(d, d0)
  BY <1>1, FreshSame, FreshNumbers
<1> DEFINE i5 == RS!InsertRunConfig(RS!InsertRun(RS!InsertOrUpdateRunCounter(
                    RS!InsertOrUpdateSequence(d1, seq), counter), run), rc)
<1>3. e \in {RS!Refused, RS!withEvent(i5, run)}
  BY DEF RS!saveRun
<1>4. e = RS!withEvent(i5, run) /\ RS!IsOK(i5)
  BY <1>3, RefusedNotOK, EventRefused
<1>5. RS!IsOK(d1)
  BY <1>4, RefusedNotOK DEF RS!InsertRunConfig, RS!InsertRun, RS!InsertOrUpdateRunCounter,
     RS!InsertOrUpdateSequence, RS!insert, RS!insertOrUpdate
<1>6. Same(d0, d1) /\ KeepsNumbers(d0, d1)
  BY <1>2, <1>5, ChangeGroupsSame, ChangeGroupsNumbers DEF Same
<1>7. Same(d1, d2)
  BY <1>6, WriteSame DEF Same, RS!Tables
<1>8. Same(d2, d3)
  BY <1>7, WriteSame DEF Same, RS!Tables
<1>9. RS!IsOK(d2) /\ RS!IsOK(d3)
  BY <1>7, <1>8, ShapeOK DEF Same
<1>10. Shape(d3) /\ Shape(d4) /\ Shape(d5)
  BY <1>8, WriteShape DEF Same, RS!Tables
<1>11. /\ seq.id = "run" /\ seq.value = sequenceOf(d) + 1 /\ RS!valueOf({seq}) = sequenceOf(d) + 1
       /\ counter.id = g[2] /\ counter.value = counterOf(d, g[2]) + 1
       /\ RS!valueOf({counter}) = counterOf(d, g[2]) + 1
  BY NextRow DEF RS!NextSequence, RS!NextRunCounter, sequenceOf, counterOf, RS!getRunCounterGroupID
<1> HIDE DEF seq, counter, d0, d1
<1>12. i5 = d5
  <2>1. RS!InsertOrUpdateRunCounter(RS!InsertOrUpdateSequence(d1, seq), counter) = d3
    BY <1>5, <1>9 DEF RS!InsertOrUpdateRunCounter, RS!InsertOrUpdateSequence, RS!insertOrUpdate
  <2> HIDE DEF d2, d3, run, rc
  <2>2. RS!InsertRun(d3, run) \in {RS!Refused, d4}
    BY DEF RS!InsertRun, RS!insert
  <2>3. RS!InsertRunConfig(d4, rc) \in {RS!Refused, d5}
    BY DEF RS!InsertRunConfig, RS!insert
  <2>4. RS!InsertRunConfig(RS!Refused, rc) = RS!Refused
    BY RefusedNotOK DEF RS!InsertRunConfig, RS!insert
  <2> QED BY <1>4, <2>1, <2>2, <2>3, <2>4, RefusedNotOK
<1>13. /\ run.id = d.next /\ run.seq = sequenceOf(d) + 1 /\ run.group = g
       /\ run.counter = counterOf(d, g[2]) + 1
  BY <1>11 DEF RunOK
<1>14. d3.run = d.run
  BY <1>2, <1>6, <1>7, <1>8 DEF Same
<1>15. RS!GetSequence(d1, "run") = RS!GetSequence(d, "run") /\ d1.runcounter = d.runcounter
  BY <1>2, <1>6 DEF KeepsNumbers
<1>16. /\ d2.sequence = {o \in d1.sequence : o.id # seq.id} \cup {seq}
       /\ d2.runcounter = d1.runcounter
  BY <1>6, WriteShape DEF RS!Tables, Same
<1> HIDE DEF d2
<1>17. /\ d3.runcounter = {o \in d2.runcounter : o.id # counter.id} \cup {counter}
       /\ d3.sequence = d2.sequence
  BY <1>7, WriteShape DEF RS!Tables, Same
<1> HIDE DEF run, rc, d3
<1>18. /\ d4.run = {o \in d3.run : o.id # d.next} \cup {run}
       /\ d4.sequence = d3.sequence /\ d4.runcounter = d3.runcounter
  BY <1>10, <1>13, WriteShape DEF RS!Tables
<1> HIDE DEF d4
<1>19. d5.run = d4.run /\ d5.sequence = d4.sequence /\ d5.runcounter = d4.runcounter
  BY <1>10, WriteShape DEF RS!Tables
<1> HIDE DEF d5
<1>20. RS!GetSequence(d5, "run") = {seq}
  BY <1>11, <1>16, <1>17, <1>18, <1>19 DEF RS!GetSequence, RS!fetchSequences
<1>21. ASSUME NEW id PROVE RS!GetRunCounter(d5, id) = IF id = g[2] THEN {counter}
                                                      ELSE RS!GetRunCounter(d, id)
  BY <1>11, <1>15, <1>16, <1>17, <1>18, <1>19 DEF RS!GetRunCounter, RS!fetchRunCounters
<1>22. Numbers(d5) = Numbers(d) \cup {Number(run)}
  BY <1>1, <1>14, <1>18, <1>19 DEF Numbers
<1>23. d5.next \in Nat
  <2>1. d3.next \in Nat
    BY <1>8 DEF Same
  <2>2. d4.next = d3.next /\ d5.next = d4.next
    BY <1>10, WriteShape DEF RS!Tables, d4, d5
  <2> QED BY <2>1, <2>2
<1>24. KeepsNumbers(d5, e)
  BY <1>4, <1>10, <1>12, <1>23, EventNumbers
<1>25. sequenceOf(e) = sequenceOf(d) + 1 /\ Numbers(e) = Numbers(d) \cup {Number(run)}
  BY <1>11, <1>20, <1>22, <1>24 DEF KeepsNumbers, sequenceOf
<1>26. \A id : counterOf(e, id) = IF id = g[2] THEN counterOf(d, id) + 1 ELSE counterOf(d, id)
  BY <1>11, <1>21, <1>24 DEF KeepsNumbers, counterOf, RS!GetRunCounter, RS!fetchRunCounters
<1> DEFINE x == Number(run)
<1>27. x.group = g /\ x.seq = sequenceOf(d) + 1 /\ x.counter = counterOf(d, g[2]) + 1
  BY <1>13 DEF Number
<1> HIDE DEF x, e, g
<1>28. AddsNumber(d, e, g)
  BY <1>25, <1>26, <1>27 DEF AddsNumber, x
<1> QED BY <1>28 DEF e, g

LEMMA CreateRunNumbers ==
    ASSUME NEW T, NEW d, DatabaseOK(T, d), NEW rq, NEW token, IsFiniteSet(DOMAIN rq.tasks),
           \A t \in DOMAIN rq.tasks : /\ t \in Nat /\ t < d.next + Cardinality(DOMAIN rq.tasks)
                                      /\ "approval" \in DOMAIN rq.tasks[t],
           RS!IsOK(RS!CreateRun(d, rq, token))
    PROVE  AddsNumber(d, RS!CreateRun(d, rq, token), rq.group)
<1> DEFINE n == Cardinality(DOMAIN rq.tasks)
           e == RS!Fresh(d, n)
           rb == RS!newRun(rq)
<1>1. n \in Nat /\ Shape(d) /\ d.next \in Nat
  BY FS_CardinalityType DEF Shape, DatabaseOK
<1>2. RS!CreateRun(d, rq, token) = RS!saveRun(e, rb, token) /\ rb # RS!Refused
  BY SameCardinality, RefusedNotOK DEF RS!CreateRun
<1>3. Same(d, e) /\ e.next = d.next + n /\ KeepsNumbers(d, e)
  BY <1>1, FreshSame, FreshNumbers
<1>4. DatabaseOK(T, e)
  BY <1>3, SameOK
<1>5. e.next \in Nat /\ \A t \in DOMAIN rq.tasks : t < e.next
  BY <1>1, <1>3
<1> HIDE DEF e, n
<1>6. RunConfigOK(e.next, rb.rc) /\ RunOK(T, rb.run, rb.rc)
  BY <1>2, <1>5, NewRunOK
<1>7. rb.run.group = rq.group
  <2> DEFINE rc == [id |-> 0, name |-> rq.name, group |-> rq.group, tasks |-> rq.tasks,
                    levels |-> RS!GenTasksLevels(rq.tasks),
                    errors |-> \/ rq.errors \/ ~RS!CheckRunConfigTasks(rq.tasks)
                               \/ ~RS!levelsOK(RS!GenTasksLevels(rq.tasks))]
  <2>1. rb.run = RS!genRun(rc, rq.sha)
    BY <1>2 DEF RS!newRun
  <2>2. rc.group = rq.group
    OBVIOUS
  <2> HIDE DEF rc
  <2>3. RS!genRun(rc, rq.sha).group = rc.group
    BY DEF RS!genRun
  <2> QED BY <2>1, <2>2, <2>3
<1> HIDE DEF rb
<1>8. AddsNumber(e, RS!saveRun(e, rb, token), rq.group)
  BY <1>2, <1>4, <1>6, <1>7, SaveRunNumbers
<1>9. sequenceOf(e) = sequenceOf(d) /\ Numbers(e) = Numbers(d)
  BY <1>3 DEF KeepsNumbers, sequenceOf
<1>10. \A id : counterOf(e, id) = counterOf(d, id)
  BY <1>3 DEF KeepsNumbers, counterOf, RS!GetRunCounter, RS!fetchRunCounters
<1> QED BY <1>2, <1>8, <1>9, <1>10 DEF AddsNumber

LEMMA RequestGroup ==
    ASSUME NEW a, NEW b, NEW refType, NEW name
    PROVE  GenRunGroup(a, b, refType, name) = <<a, b, refType, name>>
<1> DEFINE S == {a, b, refType, name}
           u == <<a, b>> \o <<refType, name>>
           v == <<a, b, refType, name>>
<1>1. <<a, b>> \in Seq(S) /\ <<refType, name>> \in Seq(S) /\ v \in Seq(S)
  OBVIOUS
<1>2. u \in Seq(S) /\ Len(u) = 4 /\ Len(v) = 4
  BY <1>1
<1>3. \A i \in 1 .. 4 : u[i] = v[i]
  BY <1>1
<1> HIDE DEF S, u, v
<1>4. u = v
  BY <1>1, <1>2, <1>3, SeqEqual
<1> QED BY <1>4 DEF GenRunGroup, GenBaseRunGroup, u, v

LEMMA CreateRequest ==
    ASSUME NEW rq, NEW i, NEW id
    PROVE  LET g == genCreateRequest(rq, i, id)
           IN  /\ g.group = <<rq.base[1], rq.base[2], rq.refType, rq.name>>
               /\ i = 0 => g.tasks = RS!NoTasks
<1> DEFINE g == genCreateRequest(rq, i, id)
<1>1. g.group = GenRunGroup(rq.base[1], rq.base[2], rq.refType, rq.name)
  BY DEF genCreateRequest
<1>2. i = 0 => g.tasks = RS!NoTasks
  BY DEF genCreateRequest
<1> QED BY <1>1, <1>2, RequestGroup

(* The runs that the gateway creates are in the group of their request. *)
LEMMA CreateHandlerNumbers ==
    ASSUME NEW T, NEW d, DatabaseOK(T, d), NEW rq, NEW i,
           i # 0 => IsFiniteSet(DOMAIN rq.config.runs[i].tasks),
           RS!IsOK(RS!RunCreateHandler(d, genCreateRequest(rq, i, d.next)))
    PROVE  AddsNumber(d, RS!RunCreateHandler(d, genCreateRequest(rq, i, d.next)),
                      <<rq.base[1], rq.base[2], rq.refType, rq.name>>)
<1> DEFINE g == genCreateRequest(rq, i, d.next)
           run == rq.config.runs[i]
           n == Cardinality(DOMAIN run.tasks)
<1>0. g.group = <<rq.base[1], rq.base[2], rq.refType, rq.name>>
  BY CreateRequest
<1>1. d.next \in Nat
  BY DEF DatabaseOK
<1>2. CASE i = 0
  <2>1. DOMAIN g.tasks = {}
    BY <1>2, CreateRequest DEF RS!NoTasks
  <2>2. IsFiniteSet(DOMAIN g.tasks)
    BY <2>1, FS_EmptySet
  <2> HIDE DEF g
  <2>3. RS!IsOK(RS!CreateRun(d, g, g.token))
    BY DEF RS!RunCreateHandler, g
  <2>4. AddsNumber(d, RS!CreateRun(d, g, g.token), g.group)
    BY <2>1, <2>2, <2>3, CreateRunNumbers
  <2> QED BY <1>0, <2>4 DEF RS!RunCreateHandler, g
<1>3. CASE i # 0
  <2>1. n \in Nat
    BY <1>3, FS_CardinalityType
  <2>2. g.tasks = RS!GenRunConfigTasks(run, d.next, rq.refType, rq.name, rq.ref)
    BY <1>3 DEF genCreateRequest
  <2>3. DOMAIN g.tasks = d.next .. d.next + n - 1
    BY <2>2, SameCardinality DEF RS!GenRunConfigTasks
  <2>4. \A t \in DOMAIN g.tasks : "approval" \in DOMAIN g.tasks[t]
    BY <2>2, GeneratedTask
  <2>5. IsFiniteSet(DOMAIN g.tasks) /\ Cardinality(DOMAIN g.tasks) = n
    <3> HIDE DEF n, g
    <3>1. d.next \in Int /\ d.next + n - 1 \in Int
      BY <1>1, <2>1
    <3>2. IsFiniteSet(d.next .. d.next + n - 1)
      BY <3>1, FS_Interval
    <3>3. Cardinality(d.next .. d.next + n - 1) =
             IF d.next > d.next + n - 1 THEN 0 ELSE (d.next + n - 1) - d.next + 1
      BY <3>1, FS_Interval
    <3> QED BY <1>1, <2>1, <2>3, <3>2, <3>3
  <2>6. \A t \in DOMAIN g.tasks : t \in Nat /\ t < d.next + n
    BY <1>1, <2>1, <2>3
  <2> HIDE DEF g, n
  <2>7. RS!IsOK(RS!CreateRun(d, g, g.token))
    BY DEF RS!RunCreateHandler, g
  <2>8. AddsNumber(d, RS!CreateRun(d, g, g.token), g.group)
    BY <2>4, <2>5, <2>6, <2>7, CreateRunNumbers
  <2> QED BY <1>0, <2>8 DEF RS!RunCreateHandler, g
<1> QED BY <1>2, <1>3

(* A restarted run is in the group of the one it was made of. *)
LEMMA RecreateRunNumbers ==
    ASSUME NEW T, NEW d, DatabaseOK(T, d), NEW id, NEW fromStart,
           NEW a \in RS!recreateRun(d, id, fromStart)
    PROVE  KeepsNumbers(d, a.d) /\ \E x \in Numbers(d) : x.group = a.rb.run.group
<1> DEFINE new(r, c) == RS!recreatedTasks(r, c, fromStart)
<1>1. PICK r \in d.run, c \in d.runconfig :
        /\ c.id = r.rc
        /\ a = [rb |-> RS!withNewIDs(r, c, new(r, c), d.next),
                d |-> RS!Fresh(d, RS!Cardinality(new(r, c)))]
  BY DEF RS!recreateRun, RS!GetRun, RS!fetchRuns, RS!GetRunConfig, RS!fetchRunConfigs
<1>2. Shape(d) /\ RunOK(T, r, c)
  BY <1>1 DEF DatabaseOK, Shape
<1> DEFINE ts == new(r, c)
<1>3. a.rb = RS!withNewIDs(r, c, ts, d.next) /\ a.d = RS!Fresh(d, RS!Cardinality(ts))
  BY <1>1
<1> HIDE DEF ts
<1>4. RS!withNewIDs(r, c, ts, d.next).run.group = r.group
  BY <1>2 DEF RS!withNewIDs, RunOK
<1>5. Number(r) \in Numbers(d) /\ Number(r).group = r.group
  BY DEF Numbers, Number
<1> QED BY <1>2, <1>3, <1>4, <1>5, FreshNumbers

-----------------------------------------------------------------------------
(* What the services' loops do to the numbers: nothing *)

LEMMA DoUnnumbered ==
    ASSUME NEW e, Unnumbered(db, e), Do(e)
    PROVE  KeepsNumbers(db, db')
BY DEF Unnumbered, Do

LEMMA StartRunNumbers ==
    ASSUME DatabaseOK(Approved, db), StartRun
    PROVE  KeepsNumbers(db, db')
<1>1. PICK r : Do(RS!RunActionsHandler(db, r.id, [action |-> "changephase", phase |-> "running",
                                                  token |-> {}]))
  BY DEF StartRun
<1>2. Do(RS!ChangeRunPhase(db, r.id, "running", {}))
  BY <1>1 DEF RS!RunActionsHandler
<1> QED BY <1>2, ChangeRunPhaseNumbers, DoUnnumbered

LEMMA ReadApprovalsNumbers ==
    ASSUME DatabaseOK(Approved, db), ReadApprovals
    PROVE  KeepsNumbers(db, db')
<1>1. PICK r \in db.run : \E a \in RS!RunHandler(db, r.id, {approvalGroup(r.id)}) : db' = a.d
  BY DEF ReadApprovals
<1>2. db' = RS!GetChangeGroupsUpdateTokens(db, {approvalGroup(r.id)})
  BY <1>1 DEF RS!RunHandler, RS!answer
<1>3. Shape(db) /\ db.next \in Nat
  BY DEF DatabaseOK, Shape
<1> QED BY <1>2, <1>3, GroupTokensNumbers

LEMMA ApproveTaskNumbers ==
    ASSUME DatabaseOK(Approved, db), ApproveTask
    PROVE  KeepsNumbers(db, db')
<1>1. CASE db' = db
  BY <1>1 DEF KeepsNumbers
<1>2. CASE db' # db
  <2>1. PICK t \in appr.todo : \E e \in {RS!RunTaskActionsHandler(db, appr.run.id, t,
                              [action |-> "approve", token |-> appr.token])} :
          RS!IsOK(e) /\ db' = e
    BY <1>2 DEF ApproveTask
  <2>2. Do(RS!ApproveRunTask(db, appr.run.id, t, appr.token))
    BY <2>1 DEF RS!RunTaskActionsHandler, Do
  <2> QED BY <2>2, ApproveRunTaskNumbers, DoUnnumbered
<1> QED BY <1>1, <1>2

LEMMA CompactNumbers ==
    ASSUME DatabaseOK(Approved, db), compactChangeGroups
    PROVE  KeepsNumbers(db, db')
<1>1. PICK names : Do(RS!DeleteChangeGroup(db, names))
  BY DEF compactChangeGroups
<1>2. Shape(db)
  BY DEF DatabaseOK, Shape
<1>3. db' = RS!without(db, "changegroup", names)
  BY <1>1, RefusedNotOK DEF Do, RS!DeleteChangeGroup, RS!delete
<1> QED BY <1>2, <1>3, WithoutNumbers DEF RS!Tables

LEMMA AdvancedNumber ==
    ASSUME NEW T, NEW run, NEW rc, NEW S, NEW c, RunOK(T, run, c)
    PROVE  /\ Number(advanceRun(run, rc, S)) = Number(run)
           /\ Number(advanceRunTasks(run, rc, S)) = Number(run)
BY DEF advanceRun, advanceRunTasks, RunOK, Number

(* Executor tasks are written to a table of their own. *)
LEMMA ExecutorTasksNumbers ==
    ASSUME NEW T, NEW d, DatabaseOK(T, d), NEW rows, RS!IsOK(RS!UpdateExecutorTask(d, rows))
    PROVE  KeepsNumbers(d, RS!UpdateExecutorTask(d, rows))
<1>1. Shape(d)
  BY DEF DatabaseOK, Shape
<1>2. RS!UpdateExecutorTask(d, rows) = RS!write(d, "executortask", rows)
  BY RefusedNotOK DEF RS!UpdateExecutorTask, RS!update
<1> QED BY <1>1, <1>2, WriteNumbers DEF RS!Tables

(* A run that takes the place of one with its number, after a write of     *)
(* executor tasks.                                                         *)
LEMMA SavedNumbers ==
    ASSUME DatabaseOK(Approved, db), NEW rows, NEW r \in db.run, NEW n, Number(n) = Number(r),
           RS!IsOK(RS!UpdateRun(RS!UpdateExecutorTask(db, rows), n))
    PROVE  LET e == RS!UpdateRun(RS!UpdateExecutorTask(db, rows), n)
           IN  KeepsNumbers(db, e) /\ Shape(e) /\ e.next \in Nat
<1> DEFINE d1 == RS!UpdateExecutorTask(db, rows)
           d2 == RS!UpdateRun(d1, n)
<1>1. RS!IsOK(d1)
  BY RefusedNotOK DEF RS!UpdateRun, RS!update
<1>2. Shape(db) /\ db.next \in Nat /\ \A a, b \in db.run : a.id = b.id => a = b
  BY DEF DatabaseOK, Shape
<1>3. d1 = RS!write(db, "executortask", rows)
  BY <1>1, RefusedNotOK DEF RS!UpdateExecutorTask, RS!update
<1>4. Shape(d1) /\ d1.run = db.run /\ d1.next = db.next
  BY <1>2, <1>3, WriteShape DEF RS!Tables
<1>5. KeepsNumbers(db, d1)
  BY <1>1, ExecutorTasksNumbers
<1> HIDE DEF d1
<1>6. KeepsNumbers(d1, d2) /\ Shape(d2) /\ d2.next = d1.next
  BY <1>2, <1>4, UpdateRunNumbers
<1> QED BY <1>2, <1>4, <1>5, <1>6, KeptTwice DEF d1

LEMMA AdvanceRunNumbers ==
    ASSUME DatabaseOK(Approved, db), AdvanceRun
    PROVE  KeepsNumbers(db, db')
<1> DEFINE rows(r) == IF r.stop
                      THEN {[e EXCEPT !.stop = TRUE] : e \in RS!GetExecutorTasksByRun(db, r.id)}
                      ELSE {}
           write(r, n) == RS!UpdateRun(RS!UpdateExecutorTask(db, rows(r)), n)
<1>1. PICK r, rc, a, n :
        /\ r \in db.run /\ a = advanceRun(r, rc, Scheduled(r))
        /\ n = IF a.phase = "running" THEN advanceRunTasks(a, rc, Scheduled(r)) ELSE a
        /\ Do(IF n.phase = r.phase /\ n.result = r.result THEN write(r, n)
              ELSE RS!withEvent(write(r, n), n))
  BY Zenon DEF AdvanceRun, RS!GetUnarchivedRuns, RS!fetchRuns
<1>2. PICK c \in db.runconfig : RunOK(Approved, r, c)
  BY <1>1 DEF DatabaseOK
<1>3. Number(n) = Number(r)
  <2>1. Number(a) = Number(r) /\ RunOK(Approved, a, c)
    BY <1>1, <1>2, AdvancedNumber, AdvancedOK
  <2> QED BY <1>1, <2>1, AdvancedNumber
<1> DEFINE d2 == write(r, n)
<1>4. r \in db.run /\ (Do(d2) \/ Do(RS!withEvent(d2, n)))
  BY <1>1
<1>5. RS!IsOK(d2)
  BY <1>4, EventRefused DEF Do
<1>6. KeepsNumbers(db, d2) /\ Shape(d2) /\ d2.next \in Nat
  BY <1>3, <1>4, <1>5, SavedNumbers
<1> HIDE DEF d2
<1>7. CASE Do(d2)
  BY <1>6, <1>7 DEF Do
<1>8. CASE Do(RS!withEvent(d2, n))
  <2>1. KeepsNumbers(d2, db')
    BY <1>6, <1>8, EventNumbers DEF Do
  <2> QED BY <1>6, <2>1, KeptTwice
<1> QED BY <1>4, <1>7, <1>8

LEMMA SubmitTaskNumbers ==
    ASSUME DatabaseOK(Approved, db), SubmitTask
    PROVE  KeepsNumbers(db, db')
<1>1. PICK x : Do(RS!InsertExecutorTask(db, x))
  BY Zenon DEF SubmitTask
<1>2. db' = RS!write(db, "executortask", {x}) /\ Shape(db)
  BY <1>1, RefusedNotOK DEF Do, RS!InsertExecutorTask, RS!insert, DatabaseOK, Shape
<1> QED BY <1>2, WriteNumbers DEF RS!Tables

LEMMA TaskEndsNumbers ==
    ASSUME DatabaseOK(Approved, db), TaskEnds
    PROVE  KeepsNumbers(db, db')
<1>1. PICK e, p, r :
        /\ r \in db.run
        /\ Do(RS!UpdateRun(RS!UpdateExecutorTask(db, {[e EXCEPT !.phase = p]}),
                           [r EXCEPT !.tasks[e.id].status = p]))
  BY Zenon DEF TaskEnds, RS!GetRun, RS!fetchRuns
<1> DEFINE n == [r EXCEPT !.tasks[e.id].status = p]
           rows == {[e EXCEPT !.phase = p]}
<1>2. Number(n) = Number(r)
  BY <1>1 DEF DatabaseOK, RunOK, Number
<1>3. RS!IsOK(RS!UpdateRun(RS!UpdateExecutorTask(db, rows), n))
      /\ db' = RS!UpdateRun(RS!UpdateExecutorTask(db, rows), n)
  BY <1>1 DEF Do
<1> HIDE DEF n, rows
<1> QED BY <1>1, <1>2, <1>3, SavedNumbers

LEMMA SavedRunNumbers ==
    ASSUME DatabaseOK(Approved, db), NEW r \in db.run, NEW n, Number(n) = Number(r),
           Do(RS!UpdateRun(db, n))
    PROVE  KeepsNumbers(db, db')
<1>1. Shape(db) /\ \A a, b \in db.run : a.id = b.id => a = b
  BY DEF DatabaseOK, Shape
<1> QED BY <1>1, UpdateRunNumbers DEF Do

LEMMA TaskFetcherNumbers ==
    ASSUME DatabaseOK(Approved, db), TaskFetcher
    PROVE  KeepsNumbers(db, db')
<1>1. PICK r, t, parts :
        /\ r \in db.run /\ t \in DOMAIN r.tasks
        /\ Do(RS!UpdateRun(db, [r EXCEPT !.tasks[t] = withFetched(@, parts)]))
  BY Zenon DEF TaskFetcher, RS!GetUnarchivedRuns, RS!fetchRuns
<1> DEFINE n == [r EXCEPT !.tasks[t] = withFetched(r.tasks[t], parts)]
<1>2. Number(n) = Number(r)
  BY <1>1 DEF DatabaseOK, RunOK, Number
<1> QED BY <1>1, <1>2, SavedRunNumbers

LEMMA DropExecutorTaskNumbers ==
    ASSUME DatabaseOK(Approved, db), DropExecutorTask
    PROVE  KeepsNumbers(db, db')
<1>1. PICK t : Do(RS!DeleteExecutorTask(db, t))
  BY DEF DropExecutorTask
<1>2. db' = RS!without(db, "executortask", {t}) /\ Shape(db)
  BY <1>1, RefusedNotOK DEF Do, RS!DeleteExecutorTask, RS!delete, DatabaseOK, Shape
<1> QED BY <1>2, WithoutNumbers DEF RS!Tables

LEMMA ArchiverNumbers ==
    ASSUME DatabaseOK(Approved, db), finishedRunArchiver
    PROVE  KeepsNumbers(db, db')
<1>1. PICK r \in db.run : Do(RS!UpdateRun(db, [r EXCEPT !.archived = TRUE]))
  BY Zenon DEF finishedRunArchiver, RS!GetUnarchivedRuns, RS!fetchRuns
<1> DEFINE n == [r EXCEPT !.archived = TRUE]
<1>2. Number(n) = Number(r)
  BY DEF DatabaseOK, RunOK, Number
<1> QED BY <1>1, <1>2, SavedRunNumbers

-----------------------------------------------------------------------------
(* Groups as paths *)

LEMMA PairPath ==
    ASSUME NEW g, NEW B, GroupOK(B, g)
    PROVE  /\ GroupTypeIDFromRunGroup(g) = <<g[1], g[2]>>
           /\ Len(g) = 4
<1> DEFINE S == {g[1], g[2], g[3], g[4]}
           u == SubSeq(g, 1, 2)
           v == <<g[1], g[2]>>
<1>1. \A i \in 1 .. 2 : g[i] \in S
  OBVIOUS
<1>2. v \in Seq(S) /\ Len(v) = 2
  OBVIOUS
<1> HIDE DEF S
<1>3. u \in Seq(S) /\ Len(u) = 2 /\ \A i \in 1 .. 2 : u[i] = g[i]
  BY <1>1, SubSeqProperties
<1>4. \A i \in 1 .. 2 : v[i] = g[i]
  OBVIOUS
<1> HIDE DEF u, v
<1>5. u = v
  BY <1>2, <1>3, <1>4, SeqEqual
<1>6. Len(g) = 4
  BY DEF GroupOK
<1> QED BY <1>5, <1>6 DEF u, v, GroupTypeIDFromRunGroup

LEMMA BelowTwo ==
    ASSUME NEW a, NEW b, NEW o, NEW B, GroupOK(B, o.group)
    PROVE  RS!below(<<a, b>>, o) <=> a = o.group[1] /\ b = o.group[2]
<1> DEFINE u == <<a, b>>
<1>1. Len(o.group) = 4
  BY PairPath
<1>2. Len(u) = 2 /\ DOMAIN u = {1, 2} /\ u[1] = a /\ u[2] = b
  OBVIOUS
<1> HIDE DEF u
<1>3. RS!below(u, o) <=> a = o.group[1] /\ b = o.group[2]
  BY <1>1, <1>2 DEF RS!below
<1> QED BY <1>3 DEF u

(* LIKE relates names of references only. *)
LEMMA BelowFour ==
    ASSUME NEW g, NEW C, GroupOK(C, g), NEW o, NEW B, GroupOK(B, o.group)
    PROVE  /\ RS!below(g, o) => g[1] = o.group[1] /\ g[2] = o.group[2]
           /\ o.group = g => RS!below(g, o)
<1>1. Len(g) = 4 /\ Len(o.group) = 4
  BY PairPath
<1>2. DOMAIN g = 1 .. 4
  BY DEF GroupOK
<1> QED BY <1>1, <1>2 DEF RS!below

LEMMA PathOfTwo ==
    ASSUME NEW a, NEW b
    PROVE  <<a, b>> \o <<>> = <<a, b>>
<1>1. <<a, b>> \in Seq({a, b})
  OBVIOUS
<1> QED BY <1>1, ConcatEmptySeq

-----------------------------------------------------------------------------
(* What the gateway's calls do to the numbers *)

LEMMA ApplyNumbers ==
    ASSUME DatabaseOK(Approved, db), NEW p, PlanOK(Approved, db.next, p),
           p.call \in {"cancel", "stop", "approve", "save"}, RS!IsOK(apply(p))
    PROVE  \/ KeepsNumbers(db, apply(p))
           \/ p.call = "save" /\ AddsNumber(db, apply(p), p.rb.run.group)
<1>1. CASE p.call = "cancel"
  <2>1. apply(p) = RS!ChangeRunPhase(db, p.run, "cancelled", {})
    BY <1>1 DEF apply, RS!RunActionsHandler
  <2> QED BY <2>1, ChangeRunPhaseNumbers DEF Unnumbered
<1>2. CASE p.call = "stop"
  <2>1. apply(p) = RS!StopRun(db, p.run, {})
    BY <1>2 DEF apply, RS!RunActionsHandler
  <2> QED BY <2>1, StopRunNumbers DEF Unnumbered
<1>3. CASE p.call = "approve"
  <2>1. apply(p) = RS!RunTaskSetAnnotations(db, p.run, p.task, p.arg, p.token)
    BY <1>3 DEF apply, RS!RunTaskActionsHandler
  <2> QED BY <2>1, SetAnnotationsNumbers DEF Unnumbered
<1>4. CASE p.call = "save"
  <2>1. apply(p) = RS!saveRun(db, p.rb, {})
    BY <1>4 DEF apply
  <2>2. RunConfigOK(db.next, p.rb.rc) /\ RunOK(Approved, p.rb.run, p.rb.rc)
    BY <1>4 DEF PlanOK
  <2> QED BY <1>4, <2>1, <2>2, SaveRunNumbers
<1> QED BY <1>1, <1>2, <1>3, <1>4

LEMMA CreateNumbers ==
    ASSUME DatabaseOK(Approved, db), NEW p, PlanOK(Approved, db.next, p), NEW i \in p.todo,
           RS!IsOK(create(p.rq, i))
    PROVE  AddsNumber(db, create(p.rq, i),
                      <<p.rq.base[1], p.rq.base[2], p.rq.refType, p.rq.name>>)
<1>1. i # 0 => IsFiniteSet(DOMAIN p.rq.config.runs[i].tasks)
  BY DEF PlanOK
<1> QED BY <1>1, CreateHandlerNumbers DEF create

LEMMA GroupOfFour ==
    ASSUME NEW B, NEW a, NEW b, NEW c, NEW d, <<a, b>> \in B
    PROVE  GroupOK(B, <<a, b, c, d>>)
BY DEF GroupOK

(* The database after a call, for a plan of one of the bases. *)
LEMMA AppliedNumbers ==
    ASSUME NumbersInv, NEW p, PlanOK(Approved, db.next, p), NumberedPlan(Bases(scene), p),
           p.call \in {"cancel", "stop", "approve", "save"}, RS!IsOK(apply(p))
    PROVE  NumbersOK(Bases(scene), apply(p))
<1> DEFINE B == Bases(scene)
<1>1. DatabaseOK(Approved, db) /\ NumbersOK(B, db) /\ \A a, b \in B : a[2] = b[2] => a = b
  BY NumbersAssumption DEF NumbersInv, ApprovalInv
<1>2. CASE KeepsNumbers(db, apply(p))
  BY <1>1, <1>2, NumbersKept
<1>3. CASE p.call = "save" /\ AddsNumber(db, apply(p), p.rb.run.group)
  <2>1. GroupOK(B, p.rb.run.group)
    BY <1>3 DEF NumberedPlan
  <2> HIDE DEF B
  <2> QED BY <1>1, <1>3, <2>1, NumberAdded DEF B
<1> QED BY <1>1, <1>2, <1>3, ApplyNumbers

LEMMA CreatedNumbers ==
    ASSUME NumbersInv, NEW p, PlanOK(Approved, db.next, p), NumberedPlan(Bases(scene), p),
           p.call = "create", NEW i \in p.todo, RS!IsOK(create(p.rq, i))
    PROVE  NumbersOK(Bases(scene), create(p.rq, i))
<1> DEFINE B == Bases(scene)
           g == <<p.rq.base[1], p.rq.base[2], p.rq.refType, p.rq.name>>
<1>1. DatabaseOK(Approved, db) /\ NumbersOK(B, db) /\ \A a, b \in B : a[2] = b[2] => a = b
  BY NumbersAssumption DEF NumbersInv, ApprovalInv
<1>2. AddsNumber(db, create(p.rq, i), g)
  BY <1>1, CreateNumbers
<1>3. GroupOK(B, g)
  BY GroupOfFour DEF NumberedPlan
<1> HIDE DEF B, g
<1>4. NumbersOK(B, create(p.rq, i))
  BY <1>1, <1>2, <1>3, NumberAdded
<1> QED BY <1>4 DEF B

(* After a step that leaves the requests, and the sessions or ends one. *)
LEMMA NumbersStep ==
    ASSUME NumbersInv, ApprovalInv', scene' = scene, left' = left, NumbersOK(Bases(scene), db'),
           NumberedSessions(Bases(scene), s')
    PROVE  NumbersInv'
BY DEF NumbersInv

LEMMA NumbersStay ==
    ASSUME NumbersInv, ApprovalInv', scene' = scene, left' = left, s' = s, KeepsNumbers(db, db')
    PROVE  NumbersInv'
<1>1. NumbersOK(Bases(scene), db')
  BY NumbersKept DEF NumbersInv
<1> QED BY <1>1, NumbersStep DEF NumbersInv

LEMMA NumbersEnd ==
    ASSUME NumbersInv, ApprovalInv', scene' = scene, left' = left, NumbersOK(Bases(scene), db'),
           NEW c \in Clients, end(c)
    PROVE  NumbersInv'
<1>1. DOMAIN s = Clients
  BY DEF NumbersInv, ApprovalInv, SessionsOK
<1>2. NumberedSessions(Bases(scene), s')
  BY <1>1 DEF NumbersInv, NumberedSessions, end, Idle
<1> QED BY <1>2, NumbersStep

LEMMA AtCallNumbers ==
    ASSUME NumbersInv, NEW c \in Clients, NEW call, AtCall(c, call)
    PROVE  /\ DOMAIN s = Clients /\ s[c].on /\ DOMAIN s[c] = {"on", "plan"} /\ s[c].plan.call = call
           /\ PlanOK(Approved, db.next, s[c].plan) /\ NumberedPlan(Bases(scene), s[c].plan)
BY AtCallOK DEF NumbersInv, NumberedSessions, AtCall

LEMMA CallNumbers ==
    ASSUME NumbersInv, ApprovalInv', NEW c \in Clients, Call(c)
    PROVE  NumbersInv'
<1> DEFINE p == s[c].plan
<1>1. /\ p.call \in {"cancel", "stop", "approve", "save"} /\ PlanOK(Approved, db.next, p)
      /\ NumberedPlan(Bases(scene), p)
  BY AtCallNumbers DEF Call
<1>2. RS!IsOK(apply(p)) => NumbersOK(Bases(scene), apply(p))
  BY <1>1, AppliedNumbers
<1>3. NumbersOK(Bases(scene), db')
  BY <1>2 DEF Call, commit, NumbersInv
<1> QED BY <1>3, NumbersEnd DEF Call

LEMMA CallLostNumbers ==
    ASSUME NumbersInv, ApprovalInv', NEW c \in Clients, CallLost(c)
    PROVE  NumbersInv'
<1> DEFINE p == s[c].plan
<1>1. /\ p.call \in {"approve", "save", "create"} /\ PlanOK(Approved, db.next, p)
      /\ NumberedPlan(Bases(scene), p)
  BY AtCallNumbers DEF CallLost
<1>2. p.call # "create" /\ RS!IsOK(apply(p)) => NumbersOK(Bases(scene), apply(p))
  BY <1>1, AppliedNumbers
<1>3. \A i \in p.todo : p.call = "create" /\ RS!IsOK(create(p.rq, i)) =>
                          NumbersOK(Bases(scene), create(p.rq, i))
  BY <1>1, CreatedNumbers
<1> HIDE DEF p
<1>4. NumbersOK(Bases(scene), db')
  <2>1. CASE db' = db
    BY <2>1 DEF NumbersInv
  <2>2. CASE p.call # "create" /\ RS!IsOK(apply(p)) /\ db' = apply(p)
    BY <1>2, <2>2
  <2>3. CASE p.call = "create" /\ \E i \in p.todo : RS!IsOK(create(p.rq, i)) /\ db' = create(p.rq, i)
    BY <1>3, <2>3
  <2> QED BY <2>1, <2>2, <2>3 DEF CallLost, commit, nextOf, p
<1> QED BY <1>4, NumbersEnd DEF CallLost

LEMMA CreateNextNumbers ==
    ASSUME NumbersInv, ApprovalInv', NEW c \in Clients, CreateNext(c)
    PROVE  NumbersInv'
<1> DEFINE p == s[c].plan
<1>1. AtCall(c, "create") /\ scene' = scene /\ left' = left
  BY DEF CreateNext
<1>2. /\ DOMAIN s = Clients /\ s[c].on /\ DOMAIN s[c] = {"on", "plan"} /\ p.call = "create"
      /\ PlanOK(Approved, db.next, p) /\ NumberedPlan(Bases(scene), p)
  BY <1>1, AtCallNumbers
<1>3. CASE db' = db /\ end(c)
  BY <1>1, <1>3, NumbersEnd DEF NumbersInv
<1>4. CASE ~(db' = db /\ end(c))
  <2>1. PICK i \in nextOf(p.todo) : /\ RS!IsOK(create(p.rq, i)) /\ db' = create(p.rq, i)
                                    /\ end(c) \/ s' = [s EXCEPT ![c].plan.todo = @ \ {i}]
    BY <1>4 DEF CreateNext
  <2>2. NumbersOK(Bases(scene), db')
    BY <1>2, <2>1, CreatedNumbers DEF nextOf
  <2> SUFFICES ASSUME ~end(c) PROVE NumbersInv'
    BY <1>1, <2>2, NumbersEnd
  <2> DEFINE q == [p EXCEPT !.todo = p.todo \ {i}]
             x == [s[c] EXCEPT !.plan = q]
  <2>3. s' = [s EXCEPT ![c] = x]
    BY <2>1
  <2>4. q.call = p.call /\ q.rq = p.rq /\ q.rb = p.rb
    BY <1>2 DEF PlanOK, NoPlan
  <2>5. x.plan = q
    BY <1>2
  <2> HIDE DEF q, x
  <2>6. NumberedPlan(Bases(scene), q)
    BY <1>2, <2>4 DEF NumberedPlan
  <2>7. NumberedSessions(Bases(scene), s')
    BY <1>2, <2>3, <2>5, <2>6 DEF NumberedSessions, NumbersInv
  <2> QED BY <1>1, <2>2, <2>7, NumbersStep
<1> QED BY <1>3, <1>4

LEMMA RecreateNumbers ==
    ASSUME NumbersInv, ApprovalInv', NEW c \in Clients, RecreateRun(c)
    PROVE  NumbersInv'
<1> DEFINE p == s[c].plan
<1>1. AtCall(c, "restart") /\ scene' = scene /\ left' = left
  BY DEF RecreateRun
<1>2. /\ DOMAIN s = Clients /\ s[c].on /\ DOMAIN s[c] = {"on", "plan"}
      /\ PlanOK(Approved, db.next, p)
  BY <1>1, AtCallNumbers
<1>3. CASE db' = db /\ end(c)
  BY <1>1, <1>3, NumbersEnd DEF NumbersInv
<1>4. CASE ~(db' = db /\ end(c))
  <2>1. PICK a \in RS!recreateRun(db, p.run, p.arg) :
          s' = [s EXCEPT ![c].plan.call = "save", ![c].plan.rb = a.rb] /\ db' = a.d
    BY <1>4 DEF RecreateRun
  <2>2. DatabaseOK(Approved, db)
    BY DEF NumbersInv, ApprovalInv
  <2>3. KeepsNumbers(db, db')
    BY <2>1, <2>2, RecreateRunNumbers
  <2>4. PICK y \in Numbers(db) : y.group = a.rb.run.group
    BY <2>1, <2>2, RecreateRunNumbers
  <2>5. NumbersOK(Bases(scene), db') /\ GroupOK(Bases(scene), a.rb.run.group)
    <3>1. NumbersOK(Bases(scene), db)
      BY DEF NumbersInv
    <3>2. GroupOK(Bases(scene), y.group)
      BY <3>1 DEF NumbersOK
    <3> QED BY <2>3, <2>4, <3>1, <3>2, NumbersKept
  <2> DEFINE q == [p EXCEPT !.call = "save", !.rb = a.rb]
             x == [s[c] EXCEPT !.plan = q]
  <2>6. s' = [s EXCEPT ![c] = x]
    BY <1>2, <2>1
  <2>7. q.call = "save" /\ q.rb = a.rb
    BY <1>2 DEF PlanOK, NoPlan
  <2>8. x.plan = q
    BY <1>2
  <2> HIDE DEF q, x
  <2>9. NumberedPlan(Bases(scene), q)
    BY <2>5, <2>7 DEF NumberedPlan
  <2>10. NumberedSessions(Bases(scene), s')
    BY <1>2, <2>6, <2>8, <2>9 DEF NumberedSessions, NumbersInv
  <2> QED BY <1>1, <2>5, <2>10, NumbersStep
<1> QED BY <1>3, <1>4

LEMMA ReadLogsNumbers ==
    ASSUME NumbersInv, ApprovalInv', NEW c \in Clients, ReadLogs(c)
    PROVE  NumbersInv'
<1>1. ApprovalInv /\ db' = db /\ scene' = scene /\ left' = left
  BY DEF ReadLogs, NumbersInv
<1>2. CASE end(c)
  BY <1>1, <1>2, NumbersEnd DEF NumbersInv
<1>3. CASE ~end(c)
  <2>1. PICK x : s' = [s EXCEPT ![c] = x] /\ x.plan.call = "executorlog"
    BY <1>1, <1>3, ReadLogsPlan
  <2>2. DOMAIN s = Clients
    BY <1>1 DEF ApprovalInv, SessionsOK
  <2>3. NumberedPlan(Bases(scene), x.plan)
    BY <2>1 DEF NumberedPlan
  <2>4. NumberedSessions(Bases(scene), s')
    BY <2>1, <2>2, <2>3 DEF NumberedSessions, NumbersInv
  <2> QED BY <1>1, <2>4, NumbersStep DEF NumbersInv
<1> QED BY <1>2, <1>3

(* The runs that a request asks for are of its project or user. *)
LEMMA CreateRunsNumbers ==
    ASSUME NEW B, NEW rq, <<rq.base[1], rq.base[2]>> \in B, NEW p \in CreateRuns(rq)
    PROVE  NumberedPlan(B, p)
<1> DEFINE todo == IF RS!ParseConfig(rq.config) THEN toCreate(rq) ELSE {0}
<1>1. p = [NoPlan EXCEPT !.call = "create", !.rq = rq, !.todo = todo]
  BY Zenon DEF CreateRuns
<1> HIDE DEF todo
<1>2. p.call = "create" /\ p.rq = rq
  BY <1>1 DEF NoPlan
<1> QED BY <1>2 DEF NumberedPlan

LEMMA RouteNumbers ==
    ASSUME NEW B, NEW d, NEW rq, <<rq.base[1], rq.base[2]>> \in B, NEW config,
           NEW p \in Route(d, rq, config)
    PROVE  NumberedPlan(B, p)
<1>1. CASE rq.op = "webhook"
  <2> DEFINE r == [base |-> rq.base, refType |-> WebHookEventToRunRefType(rq.event),
                   name |-> rq.name, ref |-> rq.ref, sha |-> rq.sha, message |-> rq.message,
                   config |-> config]
  <2>1. p \in handleWebhook(rq, config)
    BY <1>1 DEF Route
  <2>2. p \in CreateRuns(r)
    BY <2>1, Zenon DEF handleWebhook
  <2>3. r.base = rq.base
    OBVIOUS
  <2> HIDE DEF r
  <2> QED BY <2>2, <2>3, CreateRunsNumbers
<1>2. CASE rq.op = "projectrun"
  <2>1. p \in ProjectCreateRun(rq, config)
    BY <1>2 DEF Route
  <2>2. p \in CreateRuns(manualRequest(rq, config))
    BY <2>1, Zenon DEF ProjectCreateRun
  <2>3. manualRequest(rq, config).base = rq.base
    BY DEF manualRequest
  <2> QED BY <2>2, <2>3, CreateRunsNumbers
<1>3. CASE rq.op = "userrun"
  <2> DEFINE r == [manualRequest(rq, config) EXCEPT !.message = rq.message]
  <2>1. p \in UserCreateRun(rq, config)
    BY <1>3 DEF Route
  <2>2. p \in CreateRuns(r)
    BY <2>1, Zenon DEF UserCreateRun
  <2>3. r.base = rq.base
    BY DEF manualRequest
  <2> HIDE DEF r
  <2> QED BY <2>2, <2>3, CreateRunsNumbers
<1>4. CASE rq.op = "runaction"
  <2>1. p \in RunAction(d, rq)
    BY <1>4 DEF Route
  <2>2. \E run, arg : p \in {Plan("restart", run, 0, arg), Plan("cancel", run, 0, arg),
                             Plan("stop", run, 0, arg)}
    BY <2>1 DEF RunAction
  <2> QED BY <2>2, PlanRecord DEF NumberedPlan
<1>5. CASE rq.op = "taskaction"
  <2>1. p \in RunTaskAction(d, rq)
    BY <1>5 DEF Route
  <2> DEFINE plan(a) ==
        Plan("approve", a.run.id, rq.task, a.run.tasks[rq.task].approvers \cup {rq.user})
  <2>2. PICK a : p = [plan(a) EXCEPT !.token = a.token]
    BY <2>1 DEF RunTaskAction
  <2> DEFINE q == plan(a)
  <2>3. DOMAIN q = DOMAIN NoPlan /\ q.call = "approve"
    BY PlanRecord
  <2> HIDE DEF q
  <2>4. p.call = q.call
    BY <2>2, <2>3 DEF q, NoPlan
  <2> QED BY <2>3, <2>4 DEF NumberedPlan
<1>6. CASE rq.op = "deletelogs"
  <2>1. p \in DeleteLogs(d, rq)
    BY <1>6 DEF Route
  <2>2. PICK a : p = Plan("deletelogs", a.run.id, rq.task, rq.part)
    BY <2>1 DEF DeleteLogs
  <2> QED BY <2>2, PlanRecord DEF NumberedPlan
<1>7. CASE rq.op = "logs"
  <2>1. p \in GetLogs(d, rq)
    BY <1>7 DEF Route
  <2>2. PICK a : p = Plan("logs", a.run.id, rq.task, rq.part)
    BY <2>1 DEF GetLogs
  <2> QED BY <2>2, PlanRecord DEF NumberedPlan
<1> QED BY <1>1, <1>2, <1>3, <1>4, <1>5, <1>6, <1>7 DEF Route

LEMMA ArriveNumbers ==
    ASSUME NumbersInv, ApprovalInv', NEW c \in Clients, Arrive(c)
    PROVE  NumbersInv'
<1>1. PICK rq, p : /\ rq \in Head(left) /\ p \in Route(db, rq, cfg)
                   /\ s' = [s EXCEPT ![c] = [on |-> TRUE, plan |-> p]]
  BY DEF Arrive
<1>2. db' = db /\ scene' = scene /\ left # <<>> /\ left' = Tail(left)
  BY DEF Arrive
<1>3. left \in Seq(SUBSET Requests(scene)) /\ NumbersOK(Bases(scene), db)
      /\ NumberedSessions(Bases(scene), s) /\ DOMAIN s = Clients
  BY DEF NumbersInv, ApprovalInv, SessionsOK
<1>4. rq \in Requests(scene) /\ left' \in Seq(SUBSET Requests(scene))
  BY <1>1, <1>2, <1>3, HeadTailProperties
<1>5. NumberedPlan(Bases(scene), p)
  BY <1>1, <1>4, RouteNumbers DEF Bases
<1>6. NumberedSessions(Bases(scene), s')
  BY <1>1, <1>3, <1>5 DEF NumberedSessions
<1> QED BY <1>2, <1>3, <1>4, <1>6 DEF NumbersInv

LEMMA InitialNumbers == ASSUME Init PROVE NumbersInv
<1>1. ApprovalInv
  BY InitialApproval
<1>2. /\ scene \in DOMAIN Scenarios /\ left = Scenarios[scene].requests
      /\ db = Start(Scenarios[scene].start) /\ s = [c \in Clients |-> Idle]
  BY DEF Init
<1>3. left \in Seq(SUBSET Requests(scene)) /\ NumbersOK(Bases(scene), db)
  BY <1>2, NumbersAssumption
<1>4. NumberedSessions(Bases(scene), s)
  BY <1>2 DEF NumberedSessions, Idle
<1> QED BY <1>1, <1>2, <1>3, <1>4 DEF NumbersInv

LEMMA NumbersInvKept == ASSUME NumbersInv, [Next]_vars PROVE NumbersInv'
<1>1. ApprovalInv /\ DatabaseOK(Approved, db)
  BY DEF NumbersInv, ApprovalInv
<1>2. ApprovalInv'
  BY <1>1, ApprovalKept
<1>3. ASSUME KeepsNumbers(db, db'), scene' = scene, left' = left, s' = s PROVE NumbersInv'
  BY <1>2, <1>3, NumbersStay
<1>4. ASSUME db' = db, scene' = scene, left' = left, s' = s PROVE NumbersInv'
  BY <1>3, <1>4 DEF KeepsNumbers
<1>5. ASSUME NEW c \in Clients, Arrive(c) PROVE NumbersInv'
  BY <1>2, <1>5, ArriveNumbers
<1>6. ASSUME NEW c \in Clients, Call(c) PROVE NumbersInv'
  BY <1>2, <1>6, CallNumbers
<1>7. ASSUME NEW c \in Clients, CreateNext(c) PROVE NumbersInv'
  BY <1>2, <1>7, CreateNextNumbers
<1>8. ASSUME NEW c \in Clients, RecreateRun(c) PROVE NumbersInv'
  BY <1>2, <1>8, RecreateNumbers
<1>9. ASSUME NEW c \in Clients, DeleteLogsCall(c) PROVE NumbersInv'
  <2>1. NumbersOK(Bases(scene), db') /\ scene' = scene /\ left' = left /\ end(c)
    BY <1>9 DEF DeleteLogsCall, NumbersInv
  <2> QED BY <1>2, <2>1, NumbersEnd
<1>10. ASSUME NEW c \in Clients, CallLost(c) PROVE NumbersInv'
  BY <1>2, <1>10, CallLostNumbers
<1>11. CASE StartRun
  BY <1>1, <1>3, <1>11, StartRunNumbers DEF StartRun
<1>12. CASE ReadApprovals
  BY <1>1, <1>3, <1>12, ReadApprovalsNumbers DEF ReadApprovals
<1>13. CASE ApproveTask
  BY <1>1, <1>3, <1>13, ApproveTaskNumbers DEF ApproveTask
<1>14. CASE compactChangeGroups
  BY <1>1, <1>3, <1>14, CompactNumbers DEF compactChangeGroups
<1>15. CASE AdvanceRun
  BY <1>1, <1>3, <1>15, AdvanceRunNumbers DEF AdvanceRun
<1>16. CASE SubmitTask
  BY <1>1, <1>3, <1>16, SubmitTaskNumbers DEF SubmitTask
<1>17. CASE TaskEnds
  BY <1>1, <1>3, <1>17, TaskEndsNumbers DEF TaskEnds
<1>18. CASE TaskFetcher
  BY <1>1, <1>3, <1>18, TaskFetcherNumbers DEF TaskFetcher
<1>19. CASE DropExecutorTask
  BY <1>1, <1>3, <1>19, DropExecutorTaskNumbers DEF DropExecutorTask
<1>20. CASE finishedRunArchiver
  BY <1>1, <1>3, <1>20, ArchiverNumbers DEF finishedRunArchiver
<1>21. ASSUME NEW n \in Notifiers, Connect(n) \/ SendRunEvents(n) \/ Disconnect(n)
       PROVE  NumbersInv'
  BY <1>4, <1>21 DEF Connect, SendRunEvents, Disconnect
<1>22. ASSUME NEW n \in Notifiers, HandleEvent(n) \/ EventFails(n) PROVE NumbersInv'
  BY <1>4, <1>22 DEF HandleEvent, EventFails
<1>23. CASE UNCHANGED vars
  BY <1>4, <1>23 DEF vars
<1>24. ASSUME NEW c \in Clients, ReadLogs(c) PROVE NumbersInv'
  BY <1>2, <1>24, ReadLogsNumbers
<1>25. ASSUME NEW c \in Clients, ReadExecutorLog(c) PROVE NumbersInv'
  <2>1. NumbersOK(Bases(scene), db') /\ scene' = scene /\ left' = left /\ end(c)
    BY <1>25 DEF ReadExecutorLog, NumbersInv
  <2> QED BY <1>2, <2>1, NumbersEnd
<1>26. CASE ExecutorLoses
  BY <1>4, <1>26 DEF ExecutorLoses
<1> QED BY <1>5, <1>6, <1>7, <1>8, <1>9, <1>10, <1>11, <1>12, <1>13, <1>14, <1>15, <1>16, <1>17,
           <1>18, <1>19, <1>20, <1>21, <1>22, <1>23, <1>24, <1>25, <1>26 DEF Next

-----------------------------------------------------------------------------
(* What the numbers say of the runs of a project or user *)

(* X are the runs with the numbers from 1 to n, in the order of the sequence *)
Numbered(X, n) ==
    /\ n \in Nat
    /\ \A r \in X : r.counter \in 1 .. n /\ r.seq \in Nat
    /\ \A i \in 1 .. n : \E r \in X : r.counter = i
    /\ \A a, b \in X : /\ a.counter = b.counter => a = b
                       /\ a.seq = b.seq => a = b
                       /\ a.seq < b.seq => a.counter < b.counter

RunsOf(base) == {r \in db.run : GroupTypeIDFromRunGroup(r.group) = base}

LEMMA NumberOfRun ==
    ASSUME NumbersInv
    PROVE  /\ \A r \in db.run : /\ GroupOK(Bases(scene), r.group) /\ r.seq \in 1 .. sequenceOf(db)
                                /\ r.counter \in 1 .. counterOf(db, r.group[2])
           /\ \A a, b \in db.run :
                /\ a.seq = b.seq => a = b
                /\ a.group[2] = b.group[2] /\ a.counter = b.counter => a = b
                /\ a.group[2] = b.group[2] /\ a.seq < b.seq => a.counter < b.counter
           /\ \A b \in Bases(scene) : \A n \in 1 .. counterOf(db, b[2]) :
                \E r \in db.run : r.group[2] = b[2] /\ r.counter = n
<1> DEFINE B == Bases(scene)
<1>1. NumbersOK(B, db) /\ \A a, b \in db.run : a.id = b.id => a = b
  BY DEF NumbersInv, ApprovalInv, DatabaseOK
<1> HIDE DEF B
<1>2. \A r : /\ Number(r).id = r.id /\ Number(r).seq = r.seq /\ Number(r).counter = r.counter
             /\ Number(r).group = r.group
  BY DEF Number
<1>3. \A r \in db.run : Number(r) \in Numbers(db)
  BY DEF Numbers
<1>4. \A r \in db.run : /\ GroupOK(B, r.group) /\ r.seq \in 1 .. sequenceOf(db)
                        /\ r.counter \in 1 .. counterOf(db, r.group[2])
  BY <1>1, <1>2, <1>3 DEF NumbersOK
<1>5. ASSUME NEW a \in db.run, NEW b \in db.run
      PROVE  /\ a.seq = b.seq => a = b
             /\ a.group[2] = b.group[2] /\ a.counter = b.counter => a = b
             /\ a.group[2] = b.group[2] /\ a.seq < b.seq => a.counter < b.counter
  <2>1. InOrder(Number(a), Number(b))
    BY <1>1, <1>3 DEF NumbersOK
  <2>2. Number(a) = Number(b) => a = b
    BY <1>1, <1>2
  <2> QED BY <1>2, <2>1, <2>2 DEF InOrder
<1>6. ASSUME NEW b \in B, NEW n \in 1 .. counterOf(db, b[2])
      PROVE  \E r \in db.run : r.group[2] = b[2] /\ r.counter = n
  <2>1. PICK x \in Numbers(db) : x.group[2] = b[2] /\ x.counter = n
    BY <1>1 DEF NumbersOK
  <2>2. PICK r \in db.run : x = Number(r)
    BY DEF Numbers
  <2> QED BY <1>2, <2>1, <2>2
<1> QED BY <1>4, <1>5, <1>6 DEF B

LEMMA RunsOfBase ==
    ASSUME NumbersInv, NEW q \in db.run, NEW base, base = GroupTypeIDFromRunGroup(q.group)
    PROVE  /\ base = <<q.group[1], q.group[2]>>
           /\ Numbered(RunsOf(base), counterOf(db, base[2]))
           /\ \A r \in db.run : /\ r \in RunsOf(base) <=> r.group[2] = base[2]
                                /\ r \in RunsOf(base) => r.group[1] = base[1]
<1> DEFINE B == Bases(scene)
           n == counterOf(db, base[2])
<1>1. /\ NumbersOK(B, db) /\ \A a, b \in B : a[2] = b[2] => a = b
      /\ sequenceOf(db) \in Nat
  BY NumbersAssumption DEF NumbersInv, NumbersOK
<1>2. ASSUME NEW r \in db.run
      PROVE  /\ GroupTypeIDFromRunGroup(r.group) = <<r.group[1], r.group[2]>>
             /\ <<r.group[1], r.group[2]>> \in B
  <2>1. GroupOK(B, r.group)
    BY NumberOfRun
  <2> QED BY <2>1, PairPath DEF GroupOK
<1> HIDE DEF B
<1>3. base = <<q.group[1], q.group[2]>> /\ base \in B /\ base[1] = q.group[1] /\ base[2] = q.group[2]
  <2>1. base = <<q.group[1], q.group[2]>> /\ base \in B
    BY <1>2
  <2>2. \A a, b : <<a, b>>[1] = a /\ <<a, b>>[2] = b
    OBVIOUS
  <2> QED BY <2>1, <2>2
<1>4. ASSUME NEW r \in db.run
      PROVE  /\ r \in RunsOf(base) <=> r.group[2] = base[2]
             /\ r \in RunsOf(base) => r.group[1] = base[1]
  <2> DEFINE b == <<r.group[1], r.group[2]>>
  <2>1. b \in B /\ b[1] = r.group[1] /\ b[2] = r.group[2]
    BY <1>2
  <2>2. r \in RunsOf(base) <=> b = base
    BY <1>2 DEF RunsOf
  <2> HIDE DEF b
  <2> QED BY <1>1, <1>3, <2>1, <2>2
<1>5. n \in Nat
  BY <1>1, <1>3 DEF NumbersOK
<1>6. \A r \in RunsOf(base) : r.counter \in 1 .. n /\ r.seq \in Nat
  <2>1. \A r \in RunsOf(base) : r \in db.run /\ r.group[2] = base[2]
    BY <1>4 DEF RunsOf
  <2> QED BY <1>1, <2>1, NumberOfRun
<1>7. \A i \in 1 .. n : \E r \in RunsOf(base) : r.counter = i
  BY <1>3, <1>4, NumberOfRun DEF B
<1>8. \A a, b \in RunsOf(base) : /\ a.counter = b.counter => a = b
                                 /\ a.seq = b.seq => a = b
                                 /\ a.seq < b.seq => a.counter < b.counter
  <2>1. \A r \in RunsOf(base) : r \in db.run /\ r.group[2] = base[2]
    BY <1>4 DEF RunsOf
  <2> QED BY <2>1, NumberOfRun
<1> QED BY <1>3, <1>4, <1>5, <1>6, <1>7, <1>8 DEF Numbered

(* As many runs lie between two numbers as numbers. *)
LEMMA CountBetween ==
    ASSUME NEW X, NEW n, Numbered(X, n), NEW lo \in Nat, NEW hi \in 1 .. n + 1,
           NEW Y, Y = {r \in X : r.counter > lo /\ r.counter < hi}
    PROVE  IsFiniteSet(Y) /\ Cardinality(Y) = IF lo + 1 > hi - 1 THEN 0 ELSE hi - 1 - lo
<1> DEFINE I == lo + 1 .. hi - 1
           f == [i \in I |-> CHOOSE r \in Y : r.counter = i]
<1>1. n \in Nat /\ hi \in Nat /\ hi - 1 <= n
  BY DEF Numbered
<1>2. ASSUME NEW i \in I PROVE f[i] \in Y /\ f[i].counter = i
  <2>1. i \in 1 .. n
    BY <1>1
  <2>2. PICK r \in X : r.counter = i
    BY <2>1 DEF Numbered
  <2>3. r \in Y
    BY <2>2
  <2> QED BY <2>2, <2>3
<1>3. ASSUME NEW r \in Y PROVE \E i \in I : f[i] = r
  <2>1. r.counter \in I
    BY <1>1 DEF Numbered
  <2>2. f[r.counter] \in X /\ f[r.counter].counter = r.counter /\ r \in X
    BY <1>2, <2>1
  <2>3. f[r.counter] = r
    BY <2>2 DEF Numbered
  <2> QED BY <2>1, <2>3
<1>4. DOMAIN f = I
  OBVIOUS
<1> HIDE DEF f
<1>5. f \in [I -> Y]
  <2>1. f = [i \in I |-> f[i]]
    BY DEF f
  <2> QED BY <1>2, <1>4, <2>1
<1> HIDE DEF I
<1>6. f \in Bijection(I, Y)
  BY <1>2, <1>3, <1>5 DEF Bijection, Injection, Surjection, IsInjective
<1>7. ExistsBijection(I, Y)
  BY <1>6 DEF ExistsBijection
<1>8. lo + 1 \in Int /\ hi - 1 \in Int
  BY <1>1
<1>9. IsFiniteSet(I) /\ Cardinality(I) = IF lo + 1 > hi - 1 THEN 0 ELSE (hi - 1) - (lo + 1) + 1
  BY <1>8, FS_Interval DEF I
<1>10. IsFiniteSet(Y) /\ Cardinality(Y) = Cardinality(I)
  BY <1>7, <1>9, FS_Bijection
<1>11. Cardinality(Y) = IF lo + 1 > hi - 1 THEN 0 ELSE hi - 1 - lo
  BY <1>1, <1>9, <1>10
<1> QED BY <1>10, <1>11

LEMMA AllNumbered ==
    ASSUME NEW X, NEW n, Numbered(X, n)
    PROVE  IsFiniteSet(X) /\ Cardinality(X) = n
<1>1. n \in Nat /\ 0 \in Nat /\ n + 1 \in 1 .. n + 1
  BY DEF Numbered
<1> DEFINE Y == {r \in X : r.counter > 0 /\ r.counter < n + 1}
<1>2. X = Y
  BY <1>1 DEF Numbered
<1>3. IsFiniteSet(Y) /\ Cardinality(Y) = IF 0 + 1 > (n + 1) - 1 THEN 0 ELSE (n + 1) - 1 - 0
  <2> HIDE DEF Y
  <2>1. Y = {r \in X : r.counter > 0 /\ r.counter < n + 1}
    BY DEF Y
  <2> QED BY <1>1, <2>1, CountBetween
<1> HIDE DEF Y
<1> QED BY <1>1, <1>2, <1>3

-----------------------------------------------------------------------------
(* What the API answers *)

LEMMA OneIsSingleton == ASSUME NEW x PROVE RS!One({x})
BY FS_Singleton, SameCardinality DEF RS!One

(* A run's number leads to it. *)
LEMMA FoundByNumber ==
    ASSUME NumbersInv, NEW q \in db.run, NEW base, base = GroupTypeIDFromRunGroup(q.group),
           NEW rq, rq.base = base, rq.number = q.counter
    PROVE  \E a : /\ GetRun(db, rq) = {a} /\ a.run = q
<1>1. base = <<q.group[1], q.group[2]>>
  BY RunsOfBase
<1>2. ASSUME NEW r \in db.run
      PROVE  RS!below(base, r) <=> q.group[1] = r.group[1] /\ q.group[2] = r.group[2]
  <2>1. GroupOK(Bases(scene), r.group)
    BY NumberOfRun
  <2> QED BY <1>1, <2>1, BelowTwo
<1>3. RS!GetRunByGroup(db, base, q.counter) = {q}
  BY <1>2, NumberOfRun DEF RS!GetRunByGroup, RS!fetchRuns
<1>4. RS!GetRunConfig(db, q.rc) # {}
  BY DEF NumbersInv, ApprovalInv, DatabaseOK, RS!GetRunConfig, RS!fetchRunConfigs
<1> DEFINE e == RS!GetChangeGroupsUpdateTokens(db, {})
           a == [run |-> q, rc |-> RS!The(RS!GetRunConfig(db, q.rc)), d |-> e,
                 token |-> RS!tokenOf(e, {})]
<1>5. RS!answer(db, {q}, {}) = {a}
  BY <1>4 DEF RS!answer
<1>6. RS!RunByGroupHandler(db, base, q.counter, {}) = {a}
  BY <1>3, <1>5, OneIsSingleton DEF RS!RunByGroupHandler
<1>7. GetRun(db, rq) = {a}
  BY <1>6 DEF GetRun, byNumber
<1>8. a.run = q
  OBVIOUS
<1> QED BY <1>7, <1>8

LEMMA ReadByNumber ==
    ASSUME NumbersInv, NEW q \in db.run, NEW base, base = GroupTypeIDFromRunGroup(q.group)
    PROVE  LET rq == [base |-> base, number |-> q.counter] IN
             /\ {a.run : a \in GetRun(db, rq)} = {q}
             /\ {x.name : x \in RunHandler(db, rq)} = {q.name}
             /\ \A t \in DOMAIN q.tasks :
                  {x.status : x \in RuntaskHandler(db, [base |-> base, number |-> q.counter,
                                                        task |-> t])} = {q.tasks[t].status}
<1> DEFINE rq == [base |-> base, number |-> q.counter]
<1>1. rq.base = base /\ rq.number = q.counter
  OBVIOUS
<1> HIDE DEF rq
<1>2. PICK a : GetRun(db, rq) = {a} /\ a.run = q
  BY <1>1, FoundByNumber
<1>3. RunHandler(db, rq) = {createRunResponse(a)} /\ createRunResponse(a).name = q.name
  BY <1>2 DEF RunHandler, createRunResponse
<1>4. ASSUME NEW t \in DOMAIN q.tasks
      PROVE  {x.status : x \in RuntaskHandler(db, [base |-> base, number |-> q.counter,
                                                   task |-> t])} = {q.tasks[t].status}
  <2> DEFINE rt == [base |-> base, number |-> q.counter, task |-> t]
  <2>1. rt.base = base /\ rt.number = q.counter /\ rt.task = t
    OBVIOUS
  <2> HIDE DEF rt
  <2>2. PICK b : GetRun(db, rt) = {b} /\ b.run = q
    BY <2>1, FoundByNumber
  <2> DEFINE y == createRunTaskResponse(q.tasks[t], b.rc.tasks[t])
  <2>3. RuntaskHandler(db, rt) = {y}
    BY <2>1, <2>2 DEF RuntaskHandler
  <2>4. y.status = q.tasks[t].status
    BY DEF createRunTaskResponse
  <2> HIDE DEF y
  <2>5. {x.status : x \in RuntaskHandler(db, rt)} = {q.tasks[t].status}
    BY <2>3, <2>4
  <2> QED BY <2>5 DEF rt
<1> QED BY <1>2, <1>3, <1>4 DEF rq

(* A page of the runs of a project or user, from number to number. *)
LEMMA PageOfRuns ==
    ASSUME NEW X, NEW n, Numbered(X, n), NEW start \in 0 .. n, NEW limit \in Nat \ {0}
    PROVE  \A r : r \in RS!page(X, "counter", start, limit, TRUE)
                 <=> r \in X /\ r.counter \in start + 1 .. start + limit
<1> DEFINE rest == {o \in X : start > 0 => o.counter > start}
           before(o) == {x \in rest : x.counter < o.counter}
<1>1. n \in Nat /\ start \in Nat /\ \A r \in X : r.counter \in 1 .. n
  BY DEF Numbered
<1>2. RS!page(X, "counter", start, limit, TRUE) = {o \in rest : Cardinality(before(o)) < limit}
  BY SameCardinality DEF RS!page
<1>3. rest = {o \in X : o.counter > start}
  BY <1>1
<1>4. ASSUME NEW o \in rest
      PROVE  Cardinality(before(o)) < limit <=> o.counter <= start + limit
  <2> DEFINE Y == {r \in X : r.counter > start /\ r.counter < o.counter}
             k == o.counter
  <2>1. k \in 1 .. n /\ k > start
    BY <1>1, <1>3
  <2>2. before(o) = Y
    BY <1>3
  <2>3. k \in 1 .. n + 1
    BY <1>1, <2>1
  <2>4. Cardinality(Y) = IF start + 1 > k - 1 THEN 0 ELSE k - 1 - start
    <3> HIDE DEF k
    <3>1. Y = {r \in X : r.counter > start /\ r.counter < k}
      BY DEF k
    <3> HIDE DEF Y
    <3> QED BY <1>1, <2>3, <3>1, CountBetween
  <2> HIDE DEF Y
  <2> QED BY <1>1, <2>1, <2>2, <2>4
<1> HIDE DEF before
<1>5. {o \in rest : Cardinality(before(o)) < limit} = {o \in rest : o.counter <= start + limit}
  BY <1>4
<1>6. {o \in rest : o.counter <= start + limit} = {r \in X : r.counter \in start + 1 .. start + limit}
  BY <1>1, <1>3
<1> HIDE DEF rest
<1> QED BY <1>2, <1>5, <1>6

LEMMA ListedByNumber ==
    ASSUME NumbersInv, NEW q \in db.run, NEW base, base = GroupTypeIDFromRunGroup(q.group),
           NEW n \in 0 .. counterOf(db, base[2])
    PROVE  {x.number : x \in RunsHandler(db, [base |-> base, subgroup |-> <<>>, phases |-> {},
               results |-> {}, start |-> n, limit |-> MaxRunsLimit + 1, asc |-> TRUE])}
           = (n + 1 .. n + MaxRunsLimit) \cap {r.counter : r \in RunsOf(base)}
<1> DEFINE X == RunsOf(base)
           rq == [base |-> base, subgroup |-> <<>>, phases |-> {}, results |-> {}, start |-> n,
                  limit |-> MaxRunsLimit + 1, asc |-> TRUE]
           gq == [group |-> base \o <<>>, phases |-> {}, results |-> {}, cgroups |-> {},
                  start |-> n, limit |-> MaxRunsLimit + 1, asc |-> TRUE]
           page == RS!page(X, "counter", n, MaxRunsLimit, TRUE)
<1>1. base = <<q.group[1], q.group[2]>> /\ Numbered(X, counterOf(db, base[2]))
  BY RunsOfBase
<1>2. MaxRunsLimit \in Nat \ {0}
  BY NumbersAssumption
<1>3. base \o <<>> = base
  BY <1>1, PathOfTwo
<1>4. ASSUME NEW r \in db.run PROVE RS!below(base, r) <=> r \in X
  <2>1. GroupOK(Bases(scene), r.group)
    BY NumberOfRun
  <2>2. RS!below(base, r) <=> q.group[1] = r.group[1] /\ q.group[2] = r.group[2]
    BY <1>1, <2>1, BelowTwo
  <2>3. base[1] = q.group[1] /\ base[2] = q.group[2]
    BY <1>1
  <2> QED BY <2>2, <2>3, RunsOfBase
<1>5. RS!GetGroupRuns(db, base, {}, {}, n, MaxRunsLimit, TRUE) = page
  <2>1. {o \in db.run : RS!below(base, o) /\ RS!passes({}, o.phase) /\ RS!passes({}, o.result)} = X
    BY <1>4 DEF RS!passes, RunsOf
  <2> QED BY <2>1 DEF RS!GetGroupRuns, RS!fetchRuns
<1>6. RS!clampLimit(MaxRunsLimit + 1) = MaxRunsLimit /\ MaxRunsLimit + 1 # RS!NoLimit
      /\ ~(MaxRunsLimit + 1 < 0)
  BY <1>2 DEF RS!clampLimit, RS!NoLimit
<1>7. /\ gq.group = base /\ gq.phases = {} /\ gq.results = {} /\ gq.start = n
      /\ gq.limit = MaxRunsLimit + 1 /\ gq.asc
  BY <1>3
<1>8. GetRuns(db, rq) = RS!RunsByGroupHandler(db, gq)
  BY DEF GetRuns
<1> HIDE DEF gq, rq, page
<1>9. \E a : GetRuns(db, rq) = {a} /\ a.runs = page
  <2> DEFINE e == RS!GetChangeGroupsUpdateTokens(db, gq.cgroups)
             a == [runs |-> page, d |-> e, token |-> RS!tokenOf(e, gq.cgroups)]
  <2>1. RS!GetGroupRuns(db, gq.group, gq.phases, gq.results, gq.start, RS!clampLimit(gq.limit),
                        gq.asc) = page
    BY <1>5, <1>6, <1>7
  <2>2. RS!RunsByGroupHandler(db, gq) = {a}
    BY <1>6, <1>7, <2>1 DEF RS!RunsByGroupHandler
  <2>3. a.runs = page
    OBVIOUS
  <2> QED BY <1>8, <2>2, <2>3
<1>10. PICK a : GetRuns(db, rq) = {a} /\ a.runs = page
  BY <1>9
<1>11. RunsHandler(db, rq) = {createRunsResponse(r) : r \in page}
  BY <1>10 DEF RunsHandler
<1>12. \A r : createRunsResponse(r).number = r.counter
  BY DEF createRunsResponse
<1>13. {x.number : x \in RunsHandler(db, rq)} = {r.counter : r \in page}
  <2>1. \A z : z \in {x.number : x \in RunsHandler(db, rq)} <=> \E r \in page : z = r.counter
    BY <1>11, <1>12
  <2> QED BY <2>1
<1>14. page = {r \in X : r.counter \in n + 1 .. n + MaxRunsLimit}
  <2> DEFINE m == counterOf(db, base[2])
  <2>1. Numbered(X, m) /\ n \in 0 .. m
    BY <1>1
  <2> HIDE DEF X, m
  <2>2. \A r : r \in RS!page(X, "counter", n, MaxRunsLimit, TRUE)
              <=> r \in X /\ r.counter \in n + 1 .. n + MaxRunsLimit
    BY <1>2, <2>1, PageOfRuns
  <2> QED BY <2>2 DEF page
<1>15. {r.counter : r \in page} = (n + 1 .. n + MaxRunsLimit) \cap {r.counter : r \in X}
  BY <1>14
<1> QED BY <1>13, <1>15 DEF rq

(* The run that a page of one has, in descending order. *)
LEMMA LastOfRuns ==
    ASSUME NEW X, IsFiniteSet(X)
    PROVE  \A r : r \in RS!page(X, "seq", 0, 1, FALSE) <=>
                    r \in X /\ \A x \in X : ~(x.seq > r.seq)
<1> DEFINE after(o) == {x \in X : x.seq > o.seq}
<1>1. \A r : r \in RS!page(X, "seq", 0, 1, FALSE) <=> r \in X /\ Cardinality(after(r)) < 1
  BY SameCardinality DEF RS!page
<1>2. ASSUME NEW r PROVE Cardinality(after(r)) < 1 <=> \A x \in X : ~(x.seq > r.seq)
  <2>1. IsFiniteSet(after(r))
    BY FS_Subset
  <2>2. Cardinality(after(r)) \in Nat /\ (Cardinality(after(r)) = 0 <=> after(r) = {})
    BY <2>1, FS_CardinalityType, FS_EmptySet
  <2>3. after(r) = {} <=> \A x \in X : ~(x.seq > r.seq)
    OBVIOUS
  <2> HIDE DEF after
  <2> QED BY <2>2, <2>3
<1> HIDE DEF after
<1> QED BY <1>1, <1>2

LEMMA LeastNatural ==
    ASSUME NEW T, T \subseteq Nat, T # {}
    PROVE  \E x \in T : \A y \in T : x <= y
<1> DEFINE R == OpToRel(<, Nat)
<1>1. \A x, y \in Nat : <<y, x>> \in R <=> y < x
  BY DEF OpToRel
<1>2. IsWellFoundedOn(R, Nat)
  BY NatLessThanWellFounded, Zenon
<1> HIDE DEF R
<1>3. PICK x \in T : \A y \in T : ~(<<y, x>> \in R)
  BY <1>2, WFMin
<1>4. ASSUME NEW y \in T PROVE x <= y
  <2>1. x \in Nat /\ y \in Nat /\ ~(<<y, x>> \in R)
    BY <1>3
  <2>2. ~(y < x)
    BY <1>1, <2>1
  <2> QED BY <2>1, <2>2
<1> QED BY <1>4

LEMMA LastNumbered ==
    ASSUME NEW X, NEW n, Numbered(X, n), NEW Y, Y \subseteq X, Y # {}
    PROVE  \E y \in Y : \A z \in Y : z.counter <= y.counter
<1> DEFINE T == {n - r.counter : r \in Y}
<1>1. n \in Nat /\ \A r \in Y : r.counter \in 1 .. n
  BY DEF Numbered
<1>2. T \subseteq Nat /\ T # {}
  BY <1>1
<1>3. \A r \in Y : n - r.counter \in T
  OBVIOUS
<1>4. \A t \in T : \E r \in Y : t = n - r.counter
  OBVIOUS
<1> HIDE DEF T
<1>5. PICK t \in T : \A u \in T : t <= u
  BY <1>2, LeastNatural
<1>6. PICK y \in Y : t = n - y.counter
  BY <1>4
<1>7. ASSUME NEW z \in Y PROVE z.counter <= y.counter
  <2>1. n - y.counter <= n - z.counter
    BY <1>3, <1>5, <1>6
  <2> QED BY <1>1, <2>1
<1> QED BY <1>7

LEMMA BadgeOfLast ==
    ASSUME NumbersInv, NEW q \in db.run, NEW base, base = GroupTypeIDFromRunGroup(q.group),
           q.group[3] = "branch", base[1] = "project", Alone(q.group, RunsOf(base))
    PROVE  GetBadge(db, base[2], q.group[4]) =
             {badge(x) : x \in {y \in RunsOf(base) : y.group = q.group /\
                 \A z \in RunsOf(base) : z.group = q.group => z.counter <= y.counter}}
<1> DEFINE g == GenRunGroup("project", base[2], "branch", q.group[4])
           X == RunsOf(base)
           Y == {o \in db.run : o.group = q.group}
           page == RS!page(Y, "seq", 0, 1, FALSE)
           rq == [groups |-> {g}, phases |-> {}, results |-> {}, cgroups |-> {}, start |-> 0,
                  limit |-> 1, asc |-> FALSE]
           last == {y \in X : y.group = q.group /\
                      \A z \in X : z.group = q.group => z.counter <= y.counter}
<1>1. /\ base = <<q.group[1], q.group[2]>> /\ Numbered(X, counterOf(db, base[2]))
      /\ base[1] = q.group[1] /\ base[2] = q.group[2]
  BY RunsOfBase
<1>2. GroupOK(Bases(scene), q.group)
  BY NumberOfRun
<1>3. g = q.group
  <2>1. g = <<"project", q.group[2], "branch", q.group[4]>>
    BY <1>1, RequestGroup
  <2>2. q.group = <<q.group[1], q.group[2], q.group[3], q.group[4]>>
    BY <1>2 DEF GroupOK
  <2>3. q.group[1] = "project"
    BY <1>1
  <2> QED BY <2>1, <2>2, <2>3
<1>4. \A o \in db.run : RS!below(g, o) <=> o.group = q.group
  <2> SUFFICES ASSUME NEW o \in db.run PROVE RS!below(g, o) <=> o.group = q.group
    OBVIOUS
  <2>1. GroupOK(Bases(scene), o.group)
    BY NumberOfRun
  <2>2. RS!below(q.group, o) => o \in X
    BY <1>1, <1>2, <2>1, BelowFour, RunsOfBase
  <2>3. RS!below(q.group, o) => o.group = q.group
    BY <2>2 DEF Alone
  <2> QED BY <1>2, <1>3, <2>1, <2>3, BelowFour
<1>5. \A o \in Y : o \in X
  BY <1>1, RunsOfBase
<1>6. MaxRunsLimit \in Nat \ {0}
  BY NumbersAssumption
<1>7. RS!clampLimit(1) = 1 /\ 1 # RS!NoLimit /\ ~(1 < 0)
  BY <1>6 DEF RS!clampLimit, RS!NoLimit
<1> HIDE DEF g
<1>8. RS!GetRuns(db, {g}, {}, {}, 0, 1, FALSE) = page
  <2>1. {o \in db.run : /\ RS!passes({}, o.phase) /\ RS!passes({}, o.result)
                        /\ {g} = {} \/ \E h \in {g} : RS!below(h, o)} = Y
    BY <1>4 DEF RS!passes
  <2> QED BY <2>1 DEF RS!GetRuns, RS!fetchRuns
<1>9. /\ rq.groups = {g} /\ rq.phases = {} /\ rq.results = {} /\ rq.start = 0
      /\ rq.limit = 1 /\ rq.asc = FALSE
  OBVIOUS
<1>10. GetBadge(db, base[2], q.group[4]) =
        UNION {IF a.runs = {} THEN {"unknown"} ELSE {badge(r) : r \in a.runs} :
                 a \in RS!RunsHandler(db, rq)}
  BY Zenon DEF GetBadge, g
<1> HIDE DEF rq, page
<1>11. \E a : RS!RunsHandler(db, rq) = {a} /\ a.runs = page
  <2> DEFINE e == RS!GetChangeGroupsUpdateTokens(db, rq.cgroups)
             a == [runs |-> page, d |-> e, token |-> RS!tokenOf(e, rq.cgroups)]
  <2>1. RS!GetRuns(db, rq.groups, rq.phases, rq.results, rq.start, RS!clampLimit(rq.limit),
                   rq.asc) = page
    BY <1>7, <1>8, <1>9
  <2>2. RS!RunsHandler(db, rq) = {a}
    BY <1>7, <1>9, <2>1 DEF RS!RunsHandler
  <2>3. a.runs = page
    OBVIOUS
  <2> QED BY <2>2, <2>3
<1>12. PICK a : RS!RunsHandler(db, rq) = {a} /\ a.runs = page
  BY <1>11
<1>13. page = last
  <2> HIDE DEF X, Y
  <2>1. IsFiniteSet(X) /\ Y \subseteq X
    BY <1>1, <1>5, AllNumbered
  <2>2. IsFiniteSet(Y)
    BY <2>1, FS_Subset
  <2>3. \A r : r \in page <=> r \in Y /\ \A x \in Y : ~(x.seq > r.seq)
    BY <2>2, LastOfRuns DEF page
  <2>4. \A r : r \in Y <=> r \in X /\ r.group = q.group
    BY <2>1 DEF X, Y, RunsOf
  <2>5. ASSUME NEW x \in X, NEW y \in X PROVE ~(x.seq > y.seq) <=> x.counter <= y.counter
    BY <1>1 DEF Numbered
  <2>6. \A r : r \in last <=> r \in Y /\ \A x \in Y : x.counter <= r.counter
    BY <2>4
  <2>7. \A r \in Y : (\A x \in Y : ~(x.seq > r.seq)) <=> \A x \in Y : x.counter <= r.counter
    BY <2>4, <2>5
  <2> HIDE DEF last
  <2> QED BY <2>3, <2>6, <2>7
<1>14. page # {}
  <2>1. q \in Y /\ q \in X
    BY <1>5
  <2>2. Y \subseteq X
    BY <1>5
  <2>3. PICK y \in Y : \A z \in Y : z.counter <= y.counter
    <3> HIDE DEF X, Y
    <3> QED BY <1>1, <2>1, <2>2, LastNumbered
  <2>4. y \in last
    BY <2>2, <2>3 DEF RunsOf
  <2> QED BY <1>13, <2>4
<1>15. GetBadge(db, base[2], q.group[4]) = {badge(r) : r \in page}
  BY <1>10, <1>12, <1>14
<1> QED BY <1>13, <1>15

(* The runs of a project or user, and what the API says of them. *)
LEMMA NumbersGiveRunNumbers == ASSUME NumbersInv PROVE RunNumbers
<1> SUFFICES ASSUME NEW base \in {GroupTypeIDFromRunGroup(r.group) : r \in db.run},
                    NEW mine \in {{r \in db.run : GroupTypeIDFromRunGroup(r.group) = base}}
             PROVE  /\ {r.counter : r \in mine} = 1 .. Cardinality(mine)
                    /\ \A a, b \in mine : a.seq < b.seq => a.counter < b.counter
                    /\ \A r \in mine : LET rq == [base |-> base, number |-> r.counter] IN
                         /\ {a.run : a \in GetRun(db, rq)} = {r}
                         /\ {x.name : x \in RunHandler(db, rq)} = {r.name}
                         /\ \A t \in DOMAIN r.tasks :
                              {x.status : x \in RuntaskHandler(db, [base |-> base,
                                  number |-> r.counter, task |-> t])} = {r.tasks[t].status}
                    /\ \A n \in 0 .. Cardinality(mine) :
                         {x.number : x \in RunsHandler(db, [base |-> base, subgroup |-> <<>>,
                             phases |-> {}, results |-> {}, start |-> n,
                             limit |-> MaxRunsLimit + 1, asc |-> TRUE])}
                         = (n + 1 .. n + MaxRunsLimit) \cap {r.counter : r \in mine}
                    /\ \A r \in mine :
                         r.group[3] = "branch" /\ base[1] = "project" /\ Alone(r.group, mine) =>
                         GetBadge(db, base[2], r.group[4]) =
                            {badge(x) : x \in {y \in mine : y.group = r.group /\
                                \A z \in mine : z.group = r.group => z.counter <= y.counter}}
  BY DEF RunNumbers
<1>1. PICK q \in db.run : base = GroupTypeIDFromRunGroup(q.group)
  OBVIOUS
<1>2. mine = RunsOf(base)
  BY DEF RunsOf
<1>3. Numbered(mine, counterOf(db, base[2]))
  BY <1>1, <1>2, RunsOfBase
<1>4. Cardinality(mine) = counterOf(db, base[2])
  BY <1>3, AllNumbered
<1>5. \A r \in mine : r \in db.run /\ base = GroupTypeIDFromRunGroup(r.group)
  BY <1>2 DEF RunsOf
<1>6. {r.counter : r \in mine} = 1 .. Cardinality(mine)
  BY <1>3, <1>4 DEF Numbered
<1>7. \A a, b \in mine : a.seq < b.seq => a.counter < b.counter
  BY <1>3 DEF Numbered
<1>8. ASSUME NEW r \in mine
      PROVE  LET rq == [base |-> base, number |-> r.counter] IN
               /\ {a.run : a \in GetRun(db, rq)} = {r}
               /\ {x.name : x \in RunHandler(db, rq)} = {r.name}
               /\ \A t \in DOMAIN r.tasks :
                    {x.status : x \in RuntaskHandler(db, [base |-> base,
                        number |-> r.counter, task |-> t])} = {r.tasks[t].status}
  <2>1. r \in db.run /\ base = GroupTypeIDFromRunGroup(r.group)
    BY <1>5
  <2> QED BY <2>1, ReadByNumber
<1>9. ASSUME NEW n \in 0 .. Cardinality(mine)
      PROVE  {x.number : x \in RunsHandler(db, [base |-> base, subgroup |-> <<>>,
                 phases |-> {}, results |-> {}, start |-> n,
                 limit |-> MaxRunsLimit + 1, asc |-> TRUE])}
             = (n + 1 .. n + MaxRunsLimit) \cap {r.counter : r \in mine}
  <2>1. n \in 0 .. counterOf(db, base[2])
    BY <1>4
  <2> QED BY <1>1, <1>2, <2>1, ListedByNumber
<1>10. ASSUME NEW r \in mine, r.group[3] = "branch", base[1] = "project", Alone(r.group, mine)
      PROVE  GetBadge(db, base[2], r.group[4]) =
               {badge(x) : x \in {y \in mine : y.group = r.group /\
                   \A z \in mine : z.group = r.group => z.counter <= y.counter}}
  <2>1. r \in db.run /\ base = GroupTypeIDFromRunGroup(r.group)
    BY <1>5
  <2> QED BY <1>2, <1>10, <2>1, BadgeOfLast
<1> QED BY <1>6, <1>7, <1>8, <1>9, <1>10

-----------------------------------------------------------------------------
(* In every reachable state the runs of a project or user carry the numbers *)
(* 1, 2, ... in the order in which they were saved, whatever requests       *)
(* failed, were repeated or interleaved; the gateway finds each of them by  *)
(* its number, lists them by page without missing one, and shows the last   *)
(* run of a branch in its badge, if the groups of no other runs of the      *)
(* project are LIKE the branch's, whatever LIKE holds of names.             *)
THEOREM RunsNumberedInOrder == Spec => []RunNumbers
<1>1. Init => NumbersInv
  BY InitialNumbers
<1>2. NumbersInv /\ [Next]_vars => NumbersInv'
  BY NumbersInvKept
<1>3. NumbersInv => RunNumbers
  BY NumbersGiveRunNumbers
<1> QED BY <1>1, <1>2, <1>3, PTL DEF Spec
=============================================================================
