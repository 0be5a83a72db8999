--------------------------- MODULE RunQueueProofs ---------------------------
(* Proofs about RunQueue, for any groups, patterns, schedulers and bounds. *)
EXTENDS RunQueue, TLAPS

-----------------------------------------------------------------------------
(* Types *)

LEMMA TypeInit == Init => TypeOK
BY BoundsAssumption DEF Init, TypeOK, Runs, Phases, Created

LEMMA CreatedRuns == ASSUME TypeOK PROVE last \in Nat /\ Created \subseteq Runs
BY BoundsAssumption DEF TypeOK, Created, Runs

LEMMA OutdatedType ==
    ASSUME TypeOK, NEW G, NEW s \in Schedulers
    PROVE  /\ Outdated(G) \in [Schedulers -> {None, "current", "outdated"}]
           /\ Outdated(G)[s] # None <=> pc[s] = "start"
BY NoneAssumption DEF TypeOK, Outdated

LEMMA TypeNext == TypeOK /\ [Next]_vars => TypeOK'
<1> SUFFICES ASSUME TypeOK, [Next]_vars PROVE TypeOK'
  OBVIOUS
<1> USE NoneAssumption, BoundsAssumption, CreatedRuns DEF TypeOK, Phases
<1>1. CASE CompactChangeGroups
  <2>1. PICK old \in SUBSET Groups : token' = Outdated(old)
    BY <1>1 DEF CompactChangeGroups
  <2>2. /\ token' \in [Schedulers -> {None, "current", "outdated"}]
        /\ \A s \in Schedulers : token'[s] # None <=> pc[s] = "start"
    BY <2>1, OutdatedType DEF Outdated
  <2> QED BY <1>1, <2>2 DEF CompactChangeGroups, runs, Created
<1>2. ASSUME NEW g \in Groups, CreateRun(g) PROVE TypeOK'
  <2>1. last' \in 0..MaxRuns /\ last' \in Runs /\ Created' = Created \cup {last'}
    BY <1>2 DEF CreateRun, Created, Runs
  <2> QED BY <1>2, <2>1 DEF CreateRun, local
<1>3. ASSUME NEW r \in Runs, CancelRun(r) PROVE TypeOK'
  BY <1>3 DEF CancelRun, local, Created
<1>4. ASSUME NEW r \in Runs, FinishRun(r) PROVE TypeOK'
  BY <1>4 DEF FinishRun, local, Created
<1>5. ASSUME NEW s \in Schedulers, Schedule(s) PROVE TypeOK'
  BY <1>5 DEF Schedule, runs, Created
<1>6. ASSUME NEW s \in Schedulers, GetQueuedRuns(s) PROVE TypeOK'
  <2>1. \A r \in InPhase("queued") : r \in 0..MaxRuns /\ group[r] \in Groups
    BY DEF InPhase, Runs, Created
  <2> DEFINE after == QueuedAfter(page[s])
             runsPage == {r \in after : Cardinality({q \in after : q <= r}) <= PageSize}
  <2>2. /\ groups' = [groups EXCEPT ![s] = @ \cup {group[r] : r \in runsPage}]
        /\ \/ page' = [page EXCEPT ![s] = 0]
           \/ \E r \in runsPage : page' = [page EXCEPT ![s] = r]
    BY <1>6 DEF GetQueuedRuns
  <2>3. runsPage \subseteq InPhase("queued")
    BY DEF QueuedAfter
  <2> HIDE DEF runsPage
  <2>4. groups' \in [Schedulers -> SUBSET Groups]
    BY <2>1, <2>2, <2>3
  <2>5. page' \in [Schedulers -> 0..MaxRuns]
    BY <2>1, <2>2, <2>3
  <2>6. pc[s] = "list" /\ (UNCHANGED pc \/ pc' = [pc EXCEPT ![s] = "next"])
    BY <1>6 DEF GetQueuedRuns
  <2>7. UNCHANGED <<last, phase, group, cur, first, token>>
    BY <1>6 DEF GetQueuedRuns, runs
  <2> QED BY <2>4, <2>5, <2>6, <2>7 DEF Created
<1>7. ASSUME NEW s \in Schedulers, ScheduleEnds(s) PROVE TypeOK'
  BY <1>7 DEF ScheduleEnds, runs, Created
<1>8. ASSUME NEW s \in Schedulers, NEW g \in Groups, GetGroupFirstQueuedRuns(s, g) PROVE TypeOK'
  <2>1. UNCHANGED <<last, phase, group, page, token>> /\ pc[s] = "next"
    BY <1>8 DEF GetGroupFirstQueuedRuns, runs
  <2>2. groups' \in [Schedulers -> SUBSET Groups]
    BY <1>8 DEF GetGroupFirstQueuedRuns
  <2>3. CASE UNCHANGED <<pc, cur, first>>
    BY <2>1, <2>2, <2>3 DEF Created
  <2>4. ASSUME NEW r \in RunsOf(g, "queued"),
               first' = [first EXCEPT ![s] = r], pc' = [pc EXCEPT ![s] = "check"],
               cur' = [cur EXCEPT ![s] = g]
        PROVE  TypeOK'
    <3>1. r \in Created /\ r \in Runs
      BY DEF RunsOf, InPhase
    <3> QED BY <2>1, <2>2, <2>4, <3>1 DEF Created
  <2> QED BY <1>8, <2>3, <2>4 DEF GetGroupFirstQueuedRuns
<1>9. ASSUME NEW s \in Schedulers, GetGroupRunningRuns(s) PROVE TypeOK'
  BY <1>9 DEF GetGroupRunningRuns, NextGroup, runs, Created
<1>10. ASSUME NEW s \in Schedulers, StartRun(s) PROVE TypeOK'
  <2>1. /\ token' \in [Schedulers -> {None, "current", "outdated"}] /\ token'[s] = None
        /\ \A i \in Schedulers : i # s => token'[i] = Outdated({cur[s]})[i]
    BY <1>10, OutdatedType DEF StartRun
  <2>2. \A i \in Schedulers : token'[i] # None <=> pc'[i] = "start"
    BY <1>10, <2>1, OutdatedType DEF StartRun, NextGroup
  <2>3. first[s] \in Runs
    BY <1>10 DEF StartRun
  <2>4. phase' \in [Runs -> Phases]
    BY <1>10, <2>3 DEF StartRun
  <2>5. UNCHANGED <<last, group, page, groups>>
    BY <1>10 DEF StartRun, NextGroup
  <2>6. /\ pc' = [pc EXCEPT ![s] = "next"] /\ cur' = [cur EXCEPT ![s] = None]
        /\ first' = [first EXCEPT ![s] = None]
    BY <1>10 DEF StartRun, NextGroup
  <2> QED BY <2>1, <2>2, <2>4, <2>5, <2>6 DEF Created
<1>11. ASSUME NEW s \in Schedulers, StartRefused(s) PROVE TypeOK'
  BY <1>11 DEF StartRefused, NextGroup, runs, Created
<1>12. ASSUME NEW s \in Schedulers, ScheduleRunFails(s) PROVE TypeOK'
  BY <1>12 DEF ScheduleRunFails, NextGroup, runs, Created
<1>13. ASSUME NEW s \in Schedulers, SchedulerAborts(s) PROVE TypeOK'
  BY <1>13 DEF SchedulerAborts, runs, Created
<1>14. CASE UNCHANGED vars
  BY <1>14 DEF vars, runs, local, Created
<1> QED BY <1>1, <1>2, <1>3, <1>4, <1>5, <1>6, <1>7, <1>8, <1>9, <1>10, <1>11, <1>12, <1>13, <1>14
       DEF Next, Call

\* Every variable keeps its type; in particular a scheduler has a group, a run
\* and a token exactly while it makes the calls that need them.
THEOREM TypeCorrect == Spec => []TypeOK
BY TypeInit, TypeNext, PTL DEF Spec

-----------------------------------------------------------------------------
(* The inductive invariant *)

\* Nobody has touched the runs still to be created.
Fresh == \A r \in Runs : r > last => phase[r] = "queued"
\* The run a scheduler is about to start is still the first queued one of its
\* group, whoever else is in the queue by now; it was found with the group's pattern.
FirstInv ==
    \A s \in Schedulers : pc[s] \in {"check", "start"} =>
        /\ group[first[s]] \in Covers[cur[s]]
        /\ \A q \in InPhase("queued") : group[q] = group[first[s]] => first[s] <= q
\* As long as that run is queued, no run of its group has been started since the
\* scheduler looked.
FreeInv ==
    \A s \in Schedulers : pc[s] = "start" /\ phase[first[s]] = "queued" =>
        \A r \in InPhase("running") : group[r] # group[first[s]]
OneRunning == \A r, q \in InPhase("running") : group[r] = group[q] => r = q
IInv == TypeOK /\ Fresh /\ FirstInv /\ FreeInv /\ OneRunning

LEMMA InvInit == Init => IInv
<1> SUFFICES ASSUME Init PROVE IInv
  OBVIOUS
<1>1. TypeOK
  BY TypeInit
<1>2. InPhase("running") = {} /\ \A s \in Schedulers : pc[s] = "idle"
  BY DEF Init, InPhase, Runs, Created
<1> QED BY <1>1, <1>2 DEF Init, IInv, Fresh, FirstInv, FreeInv, OneRunning

\* A step that leaves the runs alone, and a scheduler that goes on with the
\* same run or stops working on it.
LEMMA InvSame ==
    ASSUME IInv, TypeOK', UNCHANGED runs,
           \A s \in Schedulers : pc'[s] \in {"check", "start"} =>
                pc'[s] = pc[s] /\ cur'[s] = cur[s] /\ first'[s] = first[s]
    PROVE  IInv'
BY DEF IInv, Fresh, FirstInv, FreeInv, OneRunning, runs, InPhase, Created

LEMMA InvNext == IInv /\ [Next]_vars => IInv'
<1> SUFFICES ASSUME IInv, [Next]_vars PROVE IInv'
  OBVIOUS
<1>a. TypeOK /\ TypeOK'
  BY TypeNext DEF IInv
<1>b. last \in Nat /\ Created \subseteq Runs /\ \A r \in Runs : r \in Nat
  BY <1>a, CreatedRuns DEF Runs
<1>1. CASE CompactChangeGroups
  BY <1>1, <1>a, InvSame DEF CompactChangeGroups
<1>2. ASSUME NEW g \in Groups, CreateRun(g) PROVE IInv'
  <2>1. /\ last' = last + 1 /\ last' \in Runs /\ group' = [group EXCEPT ![last'] = g]
        /\ UNCHANGED <<phase, pc, cur, first>>
    BY <1>2, <1>b, BoundsAssumption DEF CreateRun, local, Runs
  <2>2. Created' = Created \cup {last'} /\ last' \notin Created /\ \A r \in Created : r <= last'
    BY <1>b, <2>1 DEF Created
  <2>3. phase[last'] = "queued"
    BY <1>b, <2>1 DEF IInv, Fresh
  <2>4. /\ InPhase("queued")' = InPhase("queued") \cup {last'}
        /\ InPhase("running")' = InPhase("running")
        /\ \A r \in Created : group'[r] = group[r]
    BY <1>a, <1>b, <2>1, <2>2, <2>3 DEF InPhase, TypeOK
  <2>5. \A s \in Schedulers : pc[s] \in {"check", "start"} => first[s] \in Created
    BY <1>a DEF TypeOK
  <2>6. \A p : InPhase(p) \subseteq Created
    BY DEF InPhase
  <2>7. Fresh'
    BY <1>b, <2>1 DEF IInv, Fresh
  <2>8. FirstInv'
    BY <2>1, <2>2, <2>4, <2>5, <2>6 DEF IInv, FirstInv
  <2>9. FreeInv' /\ OneRunning'
    BY <2>1, <2>4, <2>5, <2>6 DEF IInv, FreeInv, OneRunning
  <2> QED BY <1>a, <2>7, <2>8, <2>9 DEF IInv
<1>3. ASSUME NEW r \in Runs, CancelRun(r) \/ FinishRun(r) PROVE IInv'
  <2>1. /\ r \in Created /\ UNCHANGED <<last, group, pc, cur, first>>
        /\ phase' = [phase EXCEPT ![r] = phase'[r]] /\ phase'[r] \in {"cancelled", "finished"}
    BY <1>3, <1>a DEF CancelRun, FinishRun, local, InPhase, TypeOK
  <2>2. /\ InPhase("queued")' \subseteq InPhase("queued")
        /\ InPhase("running")' \subseteq InPhase("running")
        /\ \A q \in Runs : phase'[q] = "queued" => phase[q] = "queued"
    BY <1>a, <1>b, <2>1 DEF InPhase, TypeOK, Created
  <2>3. \A s \in Schedulers : pc[s] = "start" => first[s] \in Runs
    BY <1>a, <1>b DEF TypeOK
  <2>4. Fresh'
    BY <1>a, <1>b, <2>1 DEF IInv, Fresh, Created, TypeOK
  <2>5. FirstInv' /\ OneRunning'
    BY <2>1, <2>2 DEF IInv, FirstInv, OneRunning
  <2>6. FreeInv'
    BY <2>1, <2>2, <2>3 DEF IInv, FreeInv
  <2> QED BY <1>a, <2>4, <2>5, <2>6 DEF IInv
<1>4. ASSUME NEW s \in Schedulers, Schedule(s) \/ GetQueuedRuns(s) \/ ScheduleEnds(s) PROVE IInv'
  BY <1>4, <1>a, InvSame DEF Schedule, GetQueuedRuns, ScheduleEnds, TypeOK
<1>5. ASSUME NEW s \in Schedulers, NEW g \in Groups, GetGroupFirstQueuedRuns(s, g) PROVE IInv'
  <2>1. CASE UNCHANGED <<pc, cur, first>>
    BY <1>5, <1>a, <2>1, InvSame DEF GetGroupFirstQueuedRuns
  <2>2. ASSUME NEW r \in RunsOf(g, "queued"), IsFirst(r, RunsOf(g, "queued")),
               first' = [first EXCEPT ![s] = r], pc' = [pc EXCEPT ![s] = "check"],
               cur' = [cur EXCEPT ![s] = g]
        PROVE  IInv'
    <3>1. /\ group[r] \in Covers[g]
          /\ \A q \in InPhase("queued") : group[q] = group[r] => r <= q
      BY <2>2 DEF RunsOf, IsFirst
    <3>2. UNCHANGED <<last, phase, group>>
      BY <1>5 DEF GetGroupFirstQueuedRuns, runs
    <3>3. \A p : InPhase(p)' = InPhase(p)
      BY <3>2 DEF InPhase, Created
    <3>4. Fresh' /\ OneRunning'
      BY <3>2, <3>3 DEF IInv, Fresh, OneRunning
    <3>5. FirstInv'
      BY <1>a, <2>2, <3>1, <3>2, <3>3 DEF IInv, FirstInv, TypeOK
    <3>6. FreeInv'
      BY <1>a, <2>2, <3>2, <3>3 DEF IInv, FreeInv, TypeOK
    <3> QED BY <1>a, <3>4, <3>5, <3>6 DEF IInv
  <2> QED BY <1>5, <2>1, <2>2 DEF GetGroupFirstQueuedRuns
<1>6. ASSUME NEW s \in Schedulers, GetGroupRunningRuns(s) PROVE IInv'
  <2>1. CASE NextGroup(s)
    BY <1>6, <1>a, <2>1, InvSame DEF GetGroupRunningRuns, NextGroup, TypeOK
  <2>2. CASE /\ RunsOf(cur[s], "running") = {} /\ pc' = [pc EXCEPT ![s] = "start"]
             /\ UNCHANGED <<cur, first>>
    <3>1. UNCHANGED <<last, phase, group>> /\ pc[s] = "check"
      BY <1>6 DEF GetGroupRunningRuns, runs
    <3>2. \A p : InPhase(p)' = InPhase(p)
      BY <3>1 DEF InPhase, Created
    <3>3. Fresh' /\ OneRunning'
      BY <3>1, <3>2 DEF IInv, Fresh, OneRunning
    <3>4. FirstInv'
      BY <1>a, <2>2, <3>1, <3>2 DEF IInv, FirstInv, TypeOK
    <3>5. \A r \in InPhase("running") : group[r] # group[first[s]]
      BY <2>2, <3>1 DEF IInv, FirstInv, RunsOf
    <3>6. FreeInv'
      BY <1>a, <2>2, <3>1, <3>2, <3>5 DEF IInv, FreeInv, TypeOK
    <3> QED BY <1>a, <3>3, <3>4, <3>6 DEF IInv
  <2> QED BY <1>6, <2>1, <2>2 DEF GetGroupRunningRuns
<1>7. ASSUME NEW s \in Schedulers, StartRun(s) PROVE IInv'
  <2> DEFINE f == first[s]
  <2>1. /\ pc[s] = "start" /\ phase[f] = "queued" /\ phase' = [phase EXCEPT ![f] = "running"]
        /\ pc' = [pc EXCEPT ![s] = "next"] /\ cur' = [cur EXCEPT ![s] = None]
        /\ first' = [first EXCEPT ![s] = None] /\ UNCHANGED <<last, group>>
    BY <1>7 DEF StartRun, NextGroup
  <2>2. f \in Created /\ f \in Runs /\ f \in InPhase("queued")
    BY <1>a, <1>b, <2>1 DEF TypeOK, InPhase
  <2>3. /\ InPhase("queued")' = InPhase("queued") \ {f}
        /\ InPhase("running")' = InPhase("running") \cup {f}
    BY <1>a, <1>b, <2>1, <2>2 DEF InPhase, TypeOK, Created
  <2>4. \A r \in InPhase("running") : group[r] # group[f]
    BY <2>1 DEF IInv, FreeInv
  <2>5. ASSUME NEW i \in Schedulers, i # s, pc[i] = "start", phase'[first[i]] = "queued"
        PROVE  group[first[i]] # group[f]
    <3>1. first[i] \in Created /\ first[i] \in Runs
      BY <1>a, <1>b, <2>5 DEF TypeOK
    <3>2. first[i] # f /\ first[i] \in InPhase("queued")
      BY <1>a, <2>1, <2>2, <2>5, <3>1 DEF InPhase, TypeOK
    <3>3. group[first[i]] = group[f] => f <= first[i] /\ first[i] <= f
      BY <2>1, <2>2, <2>5, <3>2 DEF IInv, FirstInv
    <3> QED BY <1>b, <2>2, <3>1, <3>2, <3>3
  <2>6. \A i \in Schedulers : pc'[i] \in {"check", "start"} =>
            i # s /\ pc'[i] = pc[i] /\ cur'[i] = cur[i] /\ first'[i] = first[i]
    BY <1>a, <2>1 DEF TypeOK
  <2>7. \A i \in Schedulers : pc[i] = "start" /\ phase'[first[i]] = "queued" => phase[first[i]] = "queued"
    BY <1>a, <1>b, <2>1, <2>2 DEF TypeOK
  <2>8. Fresh'
    BY <1>a, <1>b, <2>1, <2>2 DEF IInv, Fresh, Created, TypeOK
  <2> HIDE DEF f
  <2>9. FirstInv'
    BY <2>1, <2>3, <2>6 DEF IInv, FirstInv
  <2>10. FreeInv'
    BY <2>1, <2>3, <2>5, <2>6, <2>7 DEF IInv, FreeInv
  <2>11. OneRunning'
    BY <2>1, <2>3, <2>4 DEF IInv, OneRunning
  <2> QED BY <1>a, <2>8, <2>9, <2>10, <2>11 DEF IInv
<1>8. ASSUME NEW s \in Schedulers, StartRefused(s) \/ ScheduleRunFails(s) \/ SchedulerAborts(s) PROVE IInv'
  BY <1>8, <1>a, InvSame DEF StartRefused, ScheduleRunFails, SchedulerAborts, NextGroup, TypeOK
<1>9. CASE UNCHANGED vars
  BY <1>9, <1>a, InvSame DEF vars, local
<1> QED BY <1>1, <1>2, <1>3, <1>4, <1>5, <1>6, <1>7, <1>8, <1>9 DEF Next, Call

LEMMA AlwaysIInv == Spec => []IInv
BY InvInit, InvNext, PTL DEF Spec

-----------------------------------------------------------------------------
(* Refinement: the queue and the running runs of every group *)

QueuedOf(g) == {r \in InPhase("queued") : group[r] = g}
RunningOf(g) == {r \in InPhase("running") : group[r] = g}
QueuedMap == [g \in Groups |-> QueuedOf(g)]
RunningMap == [g \in Groups |-> RunningOf(g)]

LEMMA QueueUnchanged ==
    ASSUME UNCHANGED runs
    PROVE  UNCHANGED <<last, QueuedMap, RunningMap>>
BY DEF runs, QueuedMap, RunningMap, QueuedOf, RunningOf, InPhase, Created

LEMMA QueueStep ==
    ASSUME IInv, [Next]_vars
    PROVE  [Queue!QueueNext]_(Queue!queueVars)
<1> USE DEF Queue!queueVars, Queue!QueueNext, QueuedMap, RunningMap, QueuedOf, RunningOf
<1>a. TypeOK /\ Created \subseteq Runs /\ last \in Nat
  BY CreatedRuns DEF IInv
<1>b. ASSUME UNCHANGED runs PROVE UNCHANGED Queue!queueVars
  BY <1>b, QueueUnchanged
<1>1. ASSUME NEW g \in Groups, CreateRun(g) PROVE Queue!QueueNext
  <2>1. /\ last' = last + 1 /\ last' \in Runs /\ group' = [group EXCEPT ![last'] = g]
        /\ UNCHANGED phase /\ phase[last'] = "queued"
    BY <1>1, <1>a, BoundsAssumption DEF CreateRun, Runs, IInv, Fresh
  <2>2. Created' = Created \cup {last'} /\ last' \notin Created
    BY <1>a, <2>1 DEF Created
  <2>3. \A r \in Created : group'[r] = group[r]
    BY <1>a, <2>1, <2>2 DEF TypeOK
  <2>4. group'[last'] = g
    BY <1>a, <2>1 DEF TypeOK
  <2>5. \A h \in Groups : QueuedOf(h)' = IF h = g THEN QueuedOf(h) \cup {last'} ELSE QueuedOf(h)
    BY <2>1, <2>2, <2>3, <2>4 DEF InPhase
  <2>6. \A h \in Groups : RunningOf(h)' = RunningOf(h)
    BY <2>1, <2>2, <2>3, <2>4 DEF InPhase
  <2>7. Queue!Create(g)
    BY <2>1, <2>5, <2>6 DEF Queue!Create
  <2> QED BY <2>7
<1>2. ASSUME NEW r \in Runs, CancelRun(r) PROVE Queue!QueueNext
  <2>1. /\ r \in Created /\ phase[r] = "queued" /\ phase' = [phase EXCEPT ![r] = "cancelled"]
        /\ UNCHANGED <<last, group>>
    BY <1>2 DEF CancelRun, InPhase
  <2>2. \A q \in Created : phase'[q] = IF q = r THEN "cancelled" ELSE phase[q]
    BY <1>a, <2>1 DEF TypeOK
  <2>3. \A h \in Groups : /\ QueuedOf(h)' = IF h = group[r] THEN QueuedOf(h) \ {r} ELSE QueuedOf(h)
                          /\ RunningOf(h)' = RunningOf(h)
    BY <2>1, <2>2 DEF InPhase, Created
  <2>4. group[r] \in Groups /\ r \in QueuedOf(group[r])
    BY <1>a, <2>1 DEF TypeOK, InPhase
  <2>5. PICK g \in Groups : g = group[r]
    BY <2>4
  <2> HIDE DEF QueuedOf, RunningOf
  <2>6. QueuedMap' = [QueuedMap EXCEPT ![g] = @ \ {r}] /\ RunningMap' = RunningMap
    BY <2>3, <2>5
  <2>7. r \in QueuedMap[g]
    BY <2>4, <2>5
  <2>8. Queue!Cancel(g, r)
    BY <2>1, <2>6, <2>7 DEF Queue!Cancel, QueuedOf, RunningOf
  <2> QED BY <2>7, <2>8 DEF QueuedOf
<1>3. ASSUME NEW r \in Runs, FinishRun(r) PROVE Queue!QueueNext
  <2>1. /\ r \in Created /\ phase[r] = "running" /\ phase' = [phase EXCEPT ![r] = "finished"]
        /\ UNCHANGED <<last, group>>
    BY <1>3 DEF FinishRun, InPhase
  <2>2. \A q \in Created : phase'[q] = IF q = r THEN "finished" ELSE phase[q]
    BY <1>a, <2>1 DEF TypeOK
  <2>3. group[r] \in Groups /\ RunningOf(group[r]) = {r}
    BY <1>a, <2>1 DEF TypeOK, InPhase, IInv, OneRunning
  <2>4. \A h \in Groups : /\ QueuedOf(h)' = QueuedOf(h)
                          /\ RunningOf(h)' = IF h = group[r] THEN {} ELSE RunningOf(h)
    BY <2>1, <2>2, <2>3 DEF InPhase, Created
  <2>5. PICK g \in Groups : g = group[r]
    BY <2>3
  <2>6. Queue!End(g)
    BY <2>1, <2>3, <2>4, <2>5 DEF Queue!End
  <2> QED BY <2>5, <2>6
<1>4. ASSUME NEW s \in Schedulers, StartRun(s) PROVE Queue!QueueNext
  <2>1. PICK f : /\ f = first[s] /\ pc[s] = "start" /\ phase[f] = "queued"
                 /\ phase' = [phase EXCEPT ![f] = "running"] /\ UNCHANGED <<last, group>>
    BY <1>4 DEF StartRun
  <2>2. f \in Created
    BY <1>a, <2>1 DEF TypeOK
  <2>3. PICK g \in Groups : g = group[f]
    BY <1>a, <2>2 DEF TypeOK
  <2>4. \A q \in Created : phase'[q] = IF q = f THEN "running" ELSE phase[q]
    BY <1>a, <2>1, <2>2 DEF TypeOK
  <2>5. f \in QueuedOf(g) /\ \A q \in QueuedOf(g) : f <= q
    BY <2>1, <2>2, <2>3 DEF IInv, FirstInv, InPhase
  <2>6. RunningOf(g) = {}
    BY <2>1, <2>3 DEF IInv, FreeInv
  <2>7. \A h \in Groups : /\ QueuedOf(h)' = IF h = g THEN QueuedOf(h) \ {f} ELSE QueuedOf(h)
                          /\ RunningOf(h)' = IF h = g THEN {f} ELSE RunningOf(h)
    BY <2>1, <2>2, <2>3, <2>4, <2>6 DEF InPhase, Created
  <2> HIDE DEF QueuedOf, RunningOf
  <2>8. /\ QueuedMap' = [QueuedMap EXCEPT ![g] = @ \ {f}]
        /\ RunningMap' = [RunningMap EXCEPT ![g] = {f}]
    BY <2>7
  <2>9. RunningMap[g] = {} /\ f \in QueuedMap[g] /\ \A q \in QueuedMap[g] : f <= q
    BY <2>5, <2>6
  <2>10. Queue!Start(g, f)
    BY <2>1, <2>8, <2>9 DEF Queue!Start, QueuedOf, RunningOf
  <2> QED BY <2>9, <2>10 DEF QueuedOf
<1>5. ASSUME NEW s \in Schedulers, Call(s) \/ ScheduleRunFails(s) \/ SchedulerAborts(s), ~StartRun(s)
      PROVE  UNCHANGED runs
  BY <1>5 DEF Call, Schedule, GetQueuedRuns, ScheduleEnds, GetGroupFirstQueuedRuns,
              GetGroupRunningRuns, StartRefused, ScheduleRunFails, SchedulerAborts
<1>6. CASE CompactChangeGroups \/ UNCHANGED vars
  BY <1>6, <1>b DEF CompactChangeGroups, vars
<1> QED BY <1>1, <1>2, <1>3, <1>4, <1>5, <1>6, <1>b DEF Next

LEMMA QueueStart == Init => Queue!QueueInit
BY DEF Init, InPhase, Created, Queue!QueueInit

\* The scheduler and the runservice implement one queue per group, for any number
\* of schedulers and whatever the paths of the groups match: the runs of a group
\* are started in order and one at a time.
THEOREM RunsAreQueued == Spec => IsGroupQueue
<1>1. IInv /\ [Next]_vars => [Queue!QueueNext]_(Queue!queueVars)
  BY QueueStep
<1> QED BY <1>1, QueueStart, AlwaysIInv, PTL DEF Spec, IsGroupQueue, Queue!QueueSpec
=============================================================================
