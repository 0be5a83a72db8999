------------------------- MODULE RunSchedulerProofs -------------------------
(***************************************************************************)
(* Proofs about RunScheduler, for every run config, set of executors and   *)
(* number of workers.                                                      *)
(***************************************************************************)
EXTENDS RunScheduler, FiniteSetTheorems, TLAPS

-----------------------------------------------------------------------------
(* Types.  InsertExecutorTask stores the worker's task and executor, and   *)
(* AdvanceRun updates the executor tasks of the worker's snapshot: both    *)
(* must be known to be there.                                              *)

LocalOK ==
    \A w \in Workers : /\ pc[w] \in {"choose", "insert"} => cur[w] \in Tasks
                       /\ pc[w] = "insert" => chosen[w] \in Executors

\* what the revisions of the executor tasks guarantee to a worker that will
\* update them
SnapshotOK ==
    \A w \in Workers : pc[w] = "read" /\ stop => \A t \in ets[w] : et[t] # None

TypeInv == TypeOK /\ LocalOK /\ SnapshotOK

USE DEF run, local, vars

LEMMA TypeInit == Init => TypeInv
<1> SUFFICES ASSUME Init PROVE TypeInv
  OBVIOUS
<1>1. /\ archives \in [Tasks -> BOOLEAN] /\ waiting \in [Tasks -> BOOLEAN]
      /\ approved \in [Tasks -> BOOLEAN] /\ logs \in [Tasks -> BOOLEAN]
      /\ stop \in BOOLEAN /\ archived \in BOOLEAN
  BY Zenon DEF Init
<1>2. events \in Seq(Phases \X Results)
  BY DEF Init, Phases, Results
<1>3. LocalOK /\ SnapshotOK
  BY DEF Init, LocalOK, SnapshotOK
<1>4. status \in [Tasks -> Statuses] /\ phase \in Phases /\ result \in Results
  BY DEF Init, Statuses, Phases, Results
<1> QED BY <1>1, <1>2, <1>3, <1>4 DEF Init, TypeInv, TypeOK

LEMMA RunUpdatedType ==
    ASSUME TypeOK
    PROVE  /\ RunUpdated \in [Workers -> {"idle", "start", "read", "stale", "submit", "choose", "insert"}]
           /\ \A w \in Workers : RunUpdated[w] # "read"
           /\ \A w \in Workers : RunUpdated[w] \in {pc[w], "stale"}
BY DEF RunUpdated, TypeOK

LEMMA EtUpdatedType ==
    ASSUME TypeOK, NEW t \in Tasks
    PROVE  /\ EtUpdated(t) \in [Workers -> {"idle", "start", "read", "stale", "submit", "choose", "insert"}]
           /\ \A w \in Workers : EtUpdated(t)[w] \in {pc[w], "stale"}
           /\ \A w \in Workers : EtUpdated(t)[w] = "read" /\ stop => t \notin ets[w]
BY DEF EtUpdated, TypeOK

LEMMA ExecutorTaskUpdates ==
    ASSUME NEW x \in ExecutorTask, NEW p \in EtPhases
    PROVE  /\ [x EXCEPT !.stop = TRUE] \in ExecutorTask
           /\ [x EXCEPT !.phase = p] \in ExecutorTask
           /\ [x EXCEPT !.actual = p] \in ExecutorTask
BY DEF ExecutorTask

LEMMA AdvanceTypes ==
    ASSUME TypeOK, NEW S
    PROVE  /\ advanceRunResult \in Results
           /\ advanceRunPhase(S) \in Phases
           /\ \A t \in Tasks : advanceTaskStatus(t, S) \in Statuses
           /\ \A t \in Tasks : advanceTaskWaiting(t, S) \in BOOLEAN
           /\ \A st, ar : getTasksToRun(st, ar) \subseteq Tasks
<1>1. advanceRunResult \in Results
  BY DEF advanceRunResult, TypeOK, Results
<1>2. advanceRunPhase(S) \in Phases
  BY DEF advanceRunPhase, TypeOK, Phases
<1>3. \A t \in Tasks : advanceTaskStatus(t, S) \in Statuses
  BY DEF advanceTaskStatus, TypeOK, Statuses
<1>4. \A t \in Tasks : advanceTaskWaiting(t, S) \in BOOLEAN
  BY DEF advanceTaskWaiting, TypeOK
<1>5. \A st, ar : getTasksToRun(st, ar) \subseteq Tasks
  BY DEF getTasksToRun
<1> QED BY <1>1, <1>2, <1>3, <1>4, <1>5

LEMMA AdvanceRunType ==
    ASSUME TypeInv, NEW w \in Workers, AdvanceRun(w)
    PROVE  TypeInv'
<1> USE DEF TypeInv
<1>1. /\ phase' \in Phases /\ result' \in Results
      /\ stop' \in BOOLEAN /\ archived' \in BOOLEAN
  BY AdvanceTypes DEF AdvanceRun, TypeOK
<1>2. /\ status' \in [Tasks -> Statuses] /\ waiting' \in [Tasks -> BOOLEAN]
      /\ todo' \in [Workers -> SUBSET Tasks]
  <2>1. CASE phase' = "running"
    <3>1. status' = [t \in Tasks |-> advanceTaskStatus(t, ets[w])]
      BY <2>1 DEF AdvanceRun
    <3>2. waiting' = [t \in Tasks |-> advanceTaskWaiting(t, ets[w])]
      BY <2>1 DEF AdvanceRun
    <3>3. todo' = [todo EXCEPT ![w] = getTasksToRun(status', archives')]
      BY <2>1 DEF AdvanceRun
    <3>4. getTasksToRun(status', archives') \subseteq Tasks
      BY DEF getTasksToRun
    <3> QED BY <3>1, <3>2, <3>3, <3>4, AdvanceTypes DEF TypeOK
  <2>2. CASE phase' # "running"
    BY <2>2 DEF AdvanceRun, TypeOK
  <2> QED BY <2>1, <2>2
<1>3. /\ logs' \in [Tasks -> BOOLEAN] /\ archives' \in [Tasks -> BOOLEAN]
      /\ approved' \in [Tasks -> BOOLEAN]
  BY DEF AdvanceRun, TypeOK
<1>4. et' \in [Tasks -> ExecutorTask \cup {None}]
  <2>1. \A t \in Tasks : stop /\ t \in ets[w] => et[t] \in ExecutorTask
    BY DEF AdvanceRun, TypeOK, SnapshotOK
  <2>2. \A x \in ExecutorTask : [x EXCEPT !.stop = TRUE] \in ExecutorTask
    BY DEF ExecutorTask
  <2>3. et' = [t \in Tasks |-> IF stop /\ t \in ets[w] THEN [et[t] EXCEPT !.stop = TRUE]
                               ELSE et[t]]
    BY DEF AdvanceRun, stopExecutorTasks
  <2> QED BY <2>1, <2>2, <2>3 DEF TypeOK
<1>5. events' \in Seq(Phases \X Results)
  BY <1>1 DEF AdvanceRun, TypeOK
<1>6. pc' \in [Workers -> {"idle", "start", "read", "stale", "submit", "choose", "insert"}]
  BY RunUpdatedType DEF AdvanceRun, TypeOK
<1>7. /\ registry' = registry /\ cur' = cur /\ chosen' = chosen /\ fetcher' = fetcher
      /\ submits' = submits /\ ets' \in [Workers -> SUBSET Tasks]
  BY DEF AdvanceRun, TypeOK
<1>8. TypeOK'
  BY <1>1, <1>2, <1>3, <1>4, <1>5, <1>6, <1>7 DEF TypeOK
<1>9. \A v \in Workers : pc'[v] \in {pc[v], "stale", "submit", "idle"} /\ pc'[v] # "read"
  BY RunUpdatedType DEF AdvanceRun
<1>10. LocalOK' /\ SnapshotOK'
  BY <1>7, <1>9 DEF LocalOK, SnapshotOK
<1> QED BY <1>8, <1>10

LEMMA TypeNext == TypeInv /\ [Next]_vars => TypeInv'
<1> SUFFICES ASSUME TypeInv, [Next]_vars PROVE TypeInv'
  OBVIOUS
<1> USE DEF TypeInv
<1>1. ASSUME NEW p \in Phases, ChangeRunPhase(p) PROVE TypeInv'
  BY <1>1, RunUpdatedType DEF ChangeRunPhase, TypeOK, LocalOK, SnapshotOK
<1>2. CASE StopRun
  BY <1>2, RunUpdatedType DEF StopRun, TypeOK, LocalOK, SnapshotOK
<1>3. ASSUME NEW t \in Tasks, ApproveRunTask(t) PROVE TypeInv'
  BY <1>3, RunUpdatedType DEF ApproveRunTask, TypeOK, LocalOK, SnapshotOK
<1>4. CASE RunTaskSetAnnotations
  BY <1>4, RunUpdatedType DEF RunTaskSetAnnotations, TypeOK, LocalOK, SnapshotOK
<1>5. ASSUME NEW w \in Workers, RunsScheduler(w) PROVE TypeInv'
  BY <1>5 DEF RunsScheduler, TypeOK, LocalOK, SnapshotOK
<1>6. ASSUME NEW w \in Workers, ReadRun(w) PROVE TypeInv'
  BY <1>6 DEF ReadRun, TypeOK, LocalOK, SnapshotOK, Scheduled
<1>7. ASSUME NEW w \in Workers, AdvanceRun(w) PROVE TypeInv'
  BY <1>7, AdvanceRunType
<1>8. ASSUME NEW w \in Workers, AdvanceConflict(w) PROVE TypeInv'
  BY <1>8 DEF AdvanceConflict, TypeOK, LocalOK, SnapshotOK
<1>9. ASSUME NEW w \in Workers, WorkerAborts(w) PROVE TypeInv'
  BY <1>9 DEF WorkerAborts, TypeOK, LocalOK, SnapshotOK
<1>10. ASSUME NEW w \in Workers, NEW t \in Tasks, NextTask(w, t) PROVE TypeInv'
  BY <1>10 DEF NextTask, TypeOK, LocalOK, SnapshotOK
<1>11. ASSUME NEW w \in Workers, SubmitEnds(w) PROVE TypeInv'
  BY <1>11 DEF SubmitEnds, TypeOK, LocalOK, SnapshotOK
<1>12. ASSUME NEW w \in Workers, NEW e \in Executors, ChooseExecutor(w, e) PROVE TypeInv'
  BY <1>12 DEF ChooseExecutor, TypeOK, LocalOK, SnapshotOK
<1>13. ASSUME NEW w \in Workers, NoExecutor(w) PROVE TypeInv'
  BY <1>13 DEF NoExecutor, TypeOK, LocalOK, SnapshotOK
<1>14. ASSUME NEW w \in Workers, InsertExecutorTask(w) PROVE TypeInv'
  <2>1. cur[w] \in Tasks /\ chosen[w] \in Executors
    BY <1>14 DEF InsertExecutorTask, LocalOK
  <2>2. [phase |-> "notstarted", stop |-> FALSE, executor |-> chosen[w],
         actual |-> "notstarted"] \in ExecutorTask
    BY <2>1 DEF ExecutorTask, EtPhases
  <2>3. et' \in [Tasks -> ExecutorTask \cup {None}] /\ submits' \in [Tasks -> Nat]
    <3>1. CASE et[cur[w]] # None
      BY <1>14, <3>1 DEF InsertExecutorTask, TypeOK
    <3>2. CASE et[cur[w]] = None
      <4> DEFINE x == [phase |-> "notstarted", stop |-> FALSE, executor |-> chosen[w],
                       actual |-> "notstarted"]
      <4>1. et' = [et EXCEPT ![cur[w]] = x] /\ submits' = [submits EXCEPT ![cur[w]] = @ + 1]
        BY <1>14, <3>2 DEF InsertExecutorTask
      <4>2. x \in ExecutorTask
        BY <2>2
      <4> HIDE DEF x
      <4> QED BY <2>1, <4>1, <4>2 DEF TypeOK
    <3> QED BY <3>1, <3>2
  <2>4. \A t \in Tasks : et[t] # None => et'[t] # None
    BY <1>14, <2>1 DEF InsertExecutorTask, TypeOK
  <2> QED BY <1>14, <2>3, <2>4 DEF InsertExecutorTask, TypeOK, LocalOK, SnapshotOK
<1>15. ASSUME NEW t \in Tasks, NEW x \in ExecutorTask, et[t] # None,
              et' = [et EXCEPT ![t] = x], pc' = pc \/ pc' = EtUpdated(t),
              UNCHANGED <<run, registry, events, local, fetcher, submits>>
       PROVE  TypeInv'
  <2>1. x # None
    BY NoneAssumption
  <2>2. et' \in [Tasks -> ExecutorTask \cup {None}] /\ \A u \in Tasks : et[u] # None => et'[u] # None
    BY <1>15, <2>1 DEF TypeOK
  <2>3. /\ pc' \in [Workers -> {"idle", "start", "read", "stale", "submit", "choose", "insert"}]
        /\ \A w \in Workers : pc'[w] \in {pc[w], "stale"}
    BY <1>15, EtUpdatedType DEF TypeOK
  <2>4. TypeOK'
    BY <1>15, <2>2, <2>3 DEF TypeOK
  <2>5. LocalOK' /\ SnapshotOK'
    BY <1>15, <2>2, <2>3 DEF TypeOK, LocalOK, SnapshotOK
  <2> QED BY <2>4, <2>5
<1>16. ASSUME NEW t \in Tasks, NEW p \in EtPhases, ExecutorProgress(t, p) PROVE TypeInv'
  <2>1. et[t] \in ExecutorTask
    BY <1>16 DEF ExecutorProgress, TypeOK
  <2>2. [et[t] EXCEPT !.actual = p] \in ExecutorTask
    BY <2>1, ExecutorTaskUpdates
  <2> QED BY <1>15, <1>16, <2>2 DEF ExecutorProgress
<1>17. ASSUME NEW t \in Tasks, NEW p \in EtPhases, ExecutorTaskStatus(t, p) PROVE TypeInv'
  <2>1. et[t] \in ExecutorTask
    BY <1>17 DEF ExecutorTaskStatus, TypeOK
  <2>2. [et[t] EXCEPT !.phase = p] \in ExecutorTask
    BY <2>1, ExecutorTaskUpdates
  <2> QED BY <1>15, <1>17, <2>2 DEF ExecutorTaskStatus
<1>18. ASSUME NEW t \in Tasks, ExecutorTaskCleaner(t) PROVE TypeInv'
  <2>1. et[t] \in ExecutorTask /\ "failed" \in EtPhases
    BY <1>18 DEF ExecutorTaskCleaner, TypeOK, EtPhases
  <2>2. /\ [et[t] EXCEPT !.stop = TRUE] \in ExecutorTask
        /\ [et[t] EXCEPT !.phase = "failed"] \in ExecutorTask
    BY <2>1, ExecutorTaskUpdates
  <2> QED BY <1>15, <1>18, <2>2 DEF ExecutorTaskCleaner
<1>20. ASSUME NEW w \in Workers, NEW t \in Tasks, HandleExecutorTaskUpdate(w, t) PROVE TypeInv'
  <2>0. et[t] \in ExecutorTask
    BY <1>20 DEF HandleExecutorTaskUpdate, TypeOK
  <2>1. et[t].phase \in EtPhases
    BY <2>0 DEF ExecutorTask
  <2>2. updateRunTaskStatus(status[t], et[t].phase) \in Statuses
    BY <2>1 DEF updateRunTaskStatus, TypeOK, EtPhases, Statuses
  <2> QED BY <1>20, <2>2, RunUpdatedType DEF HandleExecutorTaskUpdate, TypeOK, LocalOK, SnapshotOK
<1>21. ASSUME NEW e \in Executors, NEW s \in {"usable", "unusable"}, ExecutorStatus(e, s)
       PROVE TypeInv'
  BY <1>21 DEF ExecutorStatus, TypeOK, LocalOK, SnapshotOK
<1>22. ASSUME NEW e \in Executors, DeleteStaleExecutor(e) \/ DeleteExecutor(e) PROVE TypeInv'
  <2>1. registry' = [registry EXCEPT ![e] = "absent"] /\
        UNCHANGED <<run, et, events, pc, local, fetcher, submits>>
    BY <1>22 DEF DeleteStaleExecutor, DeleteExecutor
  <2> QED BY <2>1 DEF TypeOK, LocalOK, SnapshotOK
<1>23. ASSUME NEW t \in Tasks, TaskFetcher(t) PROVE TypeInv'
  BY <1>23 DEF TaskFetcher, TypeOK, LocalOK, SnapshotOK
<1>24. ASSUME NEW t \in Tasks, FetchLog(t) PROVE TypeInv'
  BY <1>24, RunUpdatedType DEF FetchLog, AfterLog, TypeOK, LocalOK, SnapshotOK
<1>25. ASSUME NEW t \in Tasks, FetchArchive(t) PROVE TypeInv'
  BY <1>25, RunUpdatedType DEF FetchArchive, TypeOK, LocalOK, SnapshotOK
<1>26. ASSUME NEW t \in Tasks, FetchFails(t) PROVE TypeInv'
  BY <1>26 DEF FetchFails, AfterLog, TypeOK, LocalOK, SnapshotOK
<1>27. ASSUME NEW t \in Tasks, DeleteExecutorTask(t) PROVE TypeInv'
  BY <1>27, EtUpdatedType DEF DeleteExecutorTask, TypeOK, LocalOK, SnapshotOK
<1>28. ASSUME NEW t \in Tasks, FetcherAborts(t) PROVE TypeInv'
  BY <1>28 DEF FetcherAborts, TypeOK, LocalOK, SnapshotOK
<1>29. CASE FinishedRunArchiver
  BY <1>29, RunUpdatedType DEF FinishedRunArchiver, TypeOK, LocalOK, SnapshotOK
<1>30. CASE UNCHANGED vars
  BY <1>30 DEF TypeOK, LocalOK, SnapshotOK
<1>31. CASE Step
  BY <1>31, <1>5, <1>6, <1>7, <1>8, <1>10, <1>11, <1>12, <1>13, <1>14, <1>16, <1>17, <1>18,
     <1>20, <1>23, <1>24, <1>25, <1>27, <1>29 DEF Step
<1>32. CASE Request
  BY <1>32, <1>1, <1>2, <1>3, <1>4 DEF Request
<1>33. CASE Fault
  BY <1>33, <1>9, <1>21, <1>22, <1>26, <1>28 DEF Fault
<1> QED BY <1>30, <1>31, <1>32, <1>33 DEF Next

\* Type correctness: whatever the run config and the interleaving of workers,
\* reports, fetchers and API calls, the rows and local variables keep their
\* types; in particular scheduleRun never marks to stop an executor task that
\* is gone, because the deletion changed the rows it read.
THEOREM TypeCorrect == Spec => []TypeOK
<1>1. Spec => []TypeInv
  BY TypeInit, TypeNext, PTL DEF Spec
<1>2. TypeInv => TypeOK
  BY DEF TypeInv
<1> QED BY <1>1, <1>2, PTL

-----------------------------------------------------------------------------
(* What a step may change of the run's row: the actions that don't update   *)
(* it are dealt with once.                                                  *)

RunStep ==
    \/ \E p \in Phases : ChangeRunPhase(p)
    \/ StopRun
    \/ \E t \in Tasks : ApproveRunTask(t) \/ FetchLog(t) \/ FetchArchive(t)
    \/ \E w \in Workers : AdvanceRun(w) \/ \E t \in Tasks : HandleExecutorTaskUpdate(w, t)
    \/ FinishedRunArchiver

LEMMA RunSteps == [Next]_vars => RunStep \/ UNCHANGED run
<1> SUFFICES ASSUME [Next]_vars, ~RunStep PROVE UNCHANGED run
  OBVIOUS
<1>1. CASE Step
  BY <1>1 DEF Step, RunStep, RunsScheduler, ReadRun, AdvanceConflict, SubmitEnds, NoExecutor,
     InsertExecutorTask, NextTask, ChooseExecutor, ExecutorTaskCleaner,
     ExecutorProgress, ExecutorTaskStatus, TaskFetcher, DeleteExecutorTask
<1>2. CASE Request
  BY <1>2 DEF Request, RunStep, RunTaskSetAnnotations
<1>3. CASE Fault
  BY <1>3 DEF Fault, WorkerAborts, FetchFails, FetcherAborts, DeleteStaleExecutor, DeleteExecutor, ExecutorStatus
<1> QED BY <1>1, <1>2, <1>3 DEF Next

\* NothingTakenBack's claim but for the phase, and the same of the logs
Kept ==
    /\ \A t \in Tasks : /\ status[t] \in FinishedStatuses => status'[t] = status[t]
                        /\ approved[t] => approved'[t]
                        /\ archives[t] => archives'[t]
                        /\ logs[t] => logs'[t]
    /\ result # "unknown" => result' = result
    /\ stop => stop'

LEMMA StepKeeps == TypeInv /\ [Next]_vars => Kept
<1> SUFFICES ASSUME TypeInv, [Next]_vars PROVE Kept
  OBVIOUS
<1> USE DEF TypeInv, Kept
<1>1. ASSUME NEW p \in Phases, ChangeRunPhase(p) PROVE Kept
  BY <1>1 DEF ChangeRunPhase
<1>2. CASE StopRun
  BY <1>2 DEF StopRun, TypeOK
<1>3. ASSUME NEW t \in Tasks, ApproveRunTask(t) PROVE Kept
  BY <1>3 DEF ApproveRunTask, TypeOK
<1>4. ASSUME NEW t \in Tasks, FetchLog(t) PROVE Kept
  BY <1>4 DEF FetchLog, TypeOK
<1>5. ASSUME NEW t \in Tasks, FetchArchive(t) PROVE Kept
  BY <1>5 DEF FetchArchive, TypeOK
<1>6. ASSUME NEW w \in Workers, AdvanceRun(w) PROVE Kept
  <2>1. \A t \in Tasks : status[t] \in FinishedStatuses => status'[t] = status[t]
    BY <1>6 DEF AdvanceRun, TypeOK, advanceTaskStatus, FinishedStatuses
  <2>2. \A t \in Tasks : (approved[t] => approved'[t]) /\ (archives[t] => archives'[t])
                         /\ (logs[t] => logs'[t])
    BY <1>6 DEF AdvanceRun, TypeOK
  <2>3. (result # "unknown" => result' = result) /\ (stop => stop')
    BY <1>6 DEF AdvanceRun, advanceRunResult
  <2> QED BY <2>1, <2>2, <2>3
<1>7. ASSUME NEW w \in Workers, NEW t \in Tasks, HandleExecutorTaskUpdate(w, t) PROVE Kept
  BY <1>7 DEF HandleExecutorTaskUpdate, updateRunTaskStatus, TypeOK, FinishedStatuses
<1>8. CASE FinishedRunArchiver
  BY <1>8 DEF FinishedRunArchiver, TypeOK
<1>9. CASE UNCHANGED run
  BY <1>9 DEF TypeOK
<1> QED BY RunSteps, <1>1, <1>2, <1>3, <1>4, <1>5, <1>6, <1>7, <1>8, <1>9 DEF RunStep

-----------------------------------------------------------------------------
(* What a step may change of the workers' lists: only AdvanceRun fills a   *)
(* list, only NextTask takes a task of it, only InsertExecutorTask         *)
(* submits.                                                                *)

Busy == {"submit", "choose", "insert"}

Quiet ==
    /\ submits' = submits
    /\ \A w \in Workers : /\ todo'[w] \subseteq todo[w]
                          /\ pc'[w] \in Busy => pc[w] \in Busy
                          /\ pc'[w] \in {"choose", "insert"} =>
                                pc[w] \in {"choose", "insert"} /\ cur'[w] = cur[w]

LEMMA WorkerSteps ==
    TypeInv /\ [Next]_vars =>
        \/ Quiet
        \/ \E w \in Workers : \/ AdvanceRun(w) \/ InsertExecutorTask(w)
                              \/ \E t \in Tasks : NextTask(w, t)
<1> SUFFICES ASSUME TypeInv, [Next]_vars,
                    \A w \in Workers : /\ ~AdvanceRun(w) /\ ~InsertExecutorTask(w)
                                       /\ \A t \in Tasks : ~NextTask(w, t)
             PROVE  Quiet
  OBVIOUS
<1> USE DEF TypeInv, Busy
<1>1. ASSUME UNCHANGED <<todo, cur, submits>>, pc' = pc \/ pc' = RunUpdated
      PROVE Quiet
  BY <1>1, RunUpdatedType DEF Quiet
<1>2. ASSUME UNCHANGED <<todo, cur, submits>>, NEW t \in Tasks, pc' = EtUpdated(t)
      PROVE Quiet
  BY <1>2, EtUpdatedType DEF Quiet
<1>3. ASSUME NEW w \in Workers,
             \/ RunsScheduler(w) \/ ReadRun(w) \/ AdvanceConflict(w) \/ SubmitEnds(w)
             \/ NoExecutor(w) \/ WorkerAborts(w) \/ \E e \in Executors : ChooseExecutor(w, e)
      PROVE Quiet
  BY <1>3 DEF RunsScheduler, ReadRun, AdvanceConflict, SubmitEnds, NoExecutor, WorkerAborts,
     ChooseExecutor, Quiet, TypeOK
<1>4. ASSUME NEW w \in Workers, NEW t \in Tasks, HandleExecutorTaskUpdate(w, t) PROVE Quiet
  BY <1>4, RunUpdatedType DEF HandleExecutorTaskUpdate, Quiet, TypeOK
<1>5. ASSUME NEW t \in Tasks,
             \/ ExecutorTaskCleaner(t) \/ DeleteExecutorTask(t)
             \/ \E p \in EtPhases : ExecutorTaskStatus(t, p)
      PROVE Quiet
  BY <1>5, <1>2 DEF ExecutorTaskCleaner, DeleteExecutorTask, ExecutorTaskStatus
<1>6. CASE Step
  BY <1>6, <1>1, <1>3, <1>4, <1>5 DEF Step, ExecutorProgress, TaskFetcher,
     FetchLog, FetchArchive, FinishedRunArchiver
<1>7. CASE Request
  BY <1>7, <1>1 DEF Request, ChangeRunPhase, StopRun, ApproveRunTask, RunTaskSetAnnotations
<1>8. CASE Fault
  BY <1>8, <1>1, <1>3 DEF Fault, FetchFails, FetcherAborts, DeleteStaleExecutor, DeleteExecutor, ExecutorStatus
<1>9. CASE UNCHANGED vars
  BY <1>9, <1>1
<1> QED BY <1>6, <1>7, <1>8, <1>9 DEF Next

-----------------------------------------------------------------------------
(* DependenciesRespected: the tasks a worker still holds may run, however  *)
(* old its copy of the run is, because nothing that allowed a task to run  *)
(* is ever taken back.                                                     *)

HeldMayRun ==
    \A w \in Workers : /\ \A t \in todo[w] : MayRun(t)
                       /\ pc[w] \in {"choose", "insert"} => MayRun(cur[w])

DependInv == HeldMayRun /\ DependenciesRespected

LEMMA MayRunStable ==
    ASSUME TypeInv, Kept, NEW t \in Tasks, MayRun(t)
    PROVE  MayRun(t)'
<1>1. Parents(t) \subseteq Tasks
  BY DependsAssumption DEF Parents
<1>2. \A p \in Parents(t) : status'[p] = status[p] /\ archives'[p]
  BY <1>1 DEF MayRun, AllParentsFinished, Kept
<1>3. AllParentsFinished(t, status, archives)'
  BY <1>2 DEF MayRun, AllParentsFinished
<1>4. taskMatchesParentDependCondition(t, status)'
  BY <1>2 DEF MayRun, taskMatchesParentDependCondition
<1> QED BY <1>3, <1>4 DEF MayRun, Kept

LEMMA DependNext == TypeInv /\ DependInv /\ [Next]_vars => DependInv'
<1> SUFFICES ASSUME TypeInv, DependInv, [Next]_vars PROVE DependInv'
  OBVIOUS
<1> USE DEF DependInv
<1>0. TypeInv' /\ Kept
  BY TypeNext, StepKeeps
<1>1. \A t \in Tasks : MayRun(t) => MayRun(t)'
  BY <1>0, MayRunStable
<1>2. /\ \A w \in Workers : todo[w] \subseteq Tasks
      /\ \A w \in Workers : pc[w] \in {"choose", "insert"} => cur[w] \in Tasks
  BY DEF TypeInv, TypeOK, LocalOK
<1>3. CASE Quiet
  <2>1. HeldMayRun'
    BY <1>1, <1>2, <1>3 DEF Quiet, HeldMayRun
  <2>2. DependenciesRespected'
    BY <1>1, <1>3 DEF Quiet, DependenciesRespected
  <2> QED BY <2>1, <2>2
<1>4. ASSUME NEW w \in Workers, AdvanceRun(w) PROVE DependInv'
  <2>1. \A v \in Workers : pc'[v] \in {"choose", "insert"} => pc[v] = pc'[v] /\ cur'[v] = cur[v]
    BY <1>4, RunUpdatedType DEF AdvanceRun, TypeInv, TypeOK
  <2>2. \A v \in Workers : todo'[v] # todo[v] => todo'[v] = getTasksToRun(status', archives')
    BY <1>4 DEF AdvanceRun, TypeInv, TypeOK
  <2>3. \A t \in getTasksToRun(status', archives') : MayRun(t)'
    <3>1. approved' = approved
      BY <1>4 DEF AdvanceRun
    <3> QED BY <3>1 DEF getTasksToRun, MayRun
  <2>4. HeldMayRun'
    BY <1>1, <1>2, <2>1, <2>2, <2>3 DEF HeldMayRun
  <2>5. DependenciesRespected'
    BY <1>1, <1>4 DEF AdvanceRun, DependenciesRespected
  <2> QED BY <2>4, <2>5
<1>5. ASSUME NEW w \in Workers, InsertExecutorTask(w) PROVE DependInv'
  <2>1. cur[w] \in Tasks /\ MayRun(cur[w])
    BY <1>2, <1>5 DEF InsertExecutorTask, HeldMayRun
  <2>2. \A t \in Tasks \ {cur[w]} : submits'[t] = submits[t]
    BY <1>5, <2>1 DEF InsertExecutorTask, TypeInv, TypeOK
  <2>3. DependenciesRespected'
    BY <1>1, <2>1, <2>2 DEF DependenciesRespected
  <2>4. /\ todo' = todo
        /\ \A v \in Workers : pc'[v] \in {"choose", "insert"} => pc[v] = pc'[v] /\ cur'[v] = cur[v]
    BY <1>5 DEF InsertExecutorTask, TypeInv, TypeOK
  <2>5. HeldMayRun'
    BY <1>1, <1>2, <2>4 DEF HeldMayRun
  <2> QED BY <2>3, <2>5
<1>6. ASSUME NEW w \in Workers, NEW t \in Tasks, NextTask(w, t) PROVE DependInv'
  <2>1. MayRun(t)'
    BY <1>1, <1>6 DEF NextTask, HeldMayRun
  <2>2. /\ submits' = submits
        /\ \A v \in Workers : todo'[v] \subseteq todo[v]
        /\ \A v \in Workers : pc'[v] \in {"choose", "insert"} =>
                (pc[v] = pc'[v] /\ cur'[v] = cur[v]) \/ cur'[v] = t
    BY <1>6 DEF NextTask, TypeInv, TypeOK
  <2>3. HeldMayRun'
    BY <1>1, <1>2, <2>1, <2>2 DEF HeldMayRun
  <2>4. DependenciesRespected'
    BY <1>1, <2>2 DEF DependenciesRespected
  <2> QED BY <2>3, <2>4
<1> QED BY WorkerSteps, <1>3, <1>4, <1>5, <1>6

\* Whatever the run config and the number of workers, a task is submitted only
\* when its parents, their archives and the approval allow it (submitRunTasks
\* acts on copies of the run that may be outdated).
THEOREM DependenciesAlwaysRespected == Spec => []DependenciesRespected
<1>1. Init => DependInv
  BY DEF Init, DependInv, HeldMayRun, DependenciesRespected
<1>2. DependInv => DependenciesRespected
  BY DEF DependInv
<1> QED BY TypeInit, TypeNext, DependNext, <1>1, <1>2, PTL DEF Spec

-----------------------------------------------------------------------------
(* ResultConsistent.  That nothing is submitted of a run that isn't        *)
(* started needs to know that no worker holds a list by then.              *)

NotStartedIdle ==
    phase \in {"queued", "cancelled"} => \A w \in Workers : pc[w] \notin Busy

ResultInv == ResultConsistent /\ NotStartedIdle

\* the parts of ResultConsistent about the tasks of a run, and about a run
\* that isn't started
ResultOfTasks ==
    /\ result = "success" => AllTasksFinished /\
                             \A t \in Tasks \ IgnoreFailure : status[t] # "failed"
    /\ result = "failed" => \E t \in Tasks \ IgnoreFailure : status[t] = "failed"
    /\ result = "stopped" => stop
    /\ phase = "finished" => result # "unknown" /\ AllTasksFinished

NotStarted ==
    phase \in {"queued", "cancelled"} => /\ result = "unknown" /\ ~stop
                                         /\ \A t \in Tasks : submits[t] = 0

LEMMA ResultParts == ResultConsistent <=> ResultOfTasks /\ NotStarted
BY DEF ResultConsistent, ResultOfTasks, NotStarted

LEMMA PhaseStep ==
    ASSUME TypeInv, NotStarted, [Next]_vars
    PROVE  /\ phase' \in PhaseOrder[phase]
           /\ phase' # phase => phase = "queued" \/ phase' = "finished"
           /\ result' # result => phase = "running"
           /\ stop' # stop => phase = "running"
<1> USE DEF TypeInv
<1>0. \A p \in Phases : p \in PhaseOrder[p]
  BY DEF PhaseOrder, Phases
<1>1. ASSUME NEW p \in Phases, ChangeRunPhase(p)
      PROVE  phase = "queued" /\ phase' \in PhaseOrder[phase] /\ UNCHANGED <<result, stop>>
  BY <1>1 DEF ChangeRunPhase, PhaseOrder, Phases
<1>2. ASSUME NEW w \in Workers, AdvanceRun(w)
      PROVE  /\ phase' # phase => phase = "running" /\ phase' = "finished"
             /\ result' # result => phase = "running"
             /\ stop' = stop
  BY <1>2 DEF AdvanceRun, advanceRunPhase, advanceRunResult, TypeOK, Phases, FinishedPhases,
     NotStarted
<1>3. "finished" \in PhaseOrder["running"]
  BY DEF PhaseOrder, Phases
<1>4. CASE StopRun
  BY <1>0, <1>4 DEF StopRun, TypeOK
<1>5. ASSUME UNCHANGED <<phase, result, stop>> PROVE phase' \in PhaseOrder[phase]
  BY <1>0, <1>5 DEF TypeOK
<1>6. RunStep /\ ~StopRun /\ (\A p \in Phases : ~ChangeRunPhase(p)) /\ (\A w \in Workers : ~AdvanceRun(w))
      => UNCHANGED <<phase, result, stop>>
  BY DEF RunStep, ApproveRunTask, FetchLog, FetchArchive, HandleExecutorTaskUpdate,
     FinishedRunArchiver
<1>7. CASE \E p \in Phases : ChangeRunPhase(p)
  BY <1>1, <1>7
<1>8. CASE \E w \in Workers : AdvanceRun(w)
  BY <1>0, <1>2, <1>3, <1>8 DEF TypeOK
<1> QED BY RunSteps, <1>4, <1>5, <1>6, <1>7, <1>8

LEMMA ResultNext == TypeInv /\ ResultInv /\ [Next]_vars => ResultInv'
<1> SUFFICES ASSUME TypeInv, ResultInv, [Next]_vars PROVE ResultInv'
  OBVIOUS
<1>0. ResultOfTasks /\ NotStarted /\ NotStartedIdle
  BY ResultParts DEF ResultInv
<1>1. TypeInv' /\ Kept
  BY TypeNext, StepKeeps
<1>2. AllTasksFinished => AllTasksFinished' /\ \A t \in Tasks : status'[t] = status[t]
  BY <1>1 DEF AllTasksFinished, Kept
<1>3. \A t \in Tasks : status[t] = "failed" => status'[t] = "failed"
  BY <1>1 DEF Kept, FinishedStatuses
<1>4. ASSUME result' = result, phase' = "finished" => phase = "finished"
      PROVE  ResultOfTasks'
  BY <1>0, <1>1, <1>2, <1>3, <1>4 DEF ResultOfTasks, Kept
<1>5. ASSUME NEW w \in Workers, AdvanceRun(w) PROVE ResultOfTasks'
  <2>0. result' = advanceRunResult /\ phase' = advanceRunPhase(ets[w]) /\ stop' = stop
    BY <1>5 DEF AdvanceRun
  <2>1. result' = "success" => AllTasksFinished /\
                               \A t \in Tasks \ IgnoreFailure : status[t] # "failed"
    BY <1>0, <2>0 DEF advanceRunResult, ResultOfTasks
  <2>2. result' = "failed" => \E t \in Tasks \ IgnoreFailure : status[t] = "failed"
    BY <1>0, <2>0 DEF advanceRunResult, ResultOfTasks
  <2>3. result' = "stopped" => stop
    BY <1>0, <2>0 DEF advanceRunResult, ResultOfTasks
  <2>4. phase' = "finished" => result' # "unknown" /\ AllTasksFinished
    BY <1>0, <2>0 DEF advanceRunPhase, advanceRunResult, ResultOfTasks
  <2> QED BY <1>2, <1>3, <2>0, <2>1, <2>2, <2>3, <2>4 DEF ResultOfTasks
<1>6. ResultOfTasks'
  <2>1. CASE \E w \in Workers : AdvanceRun(w)
    BY <1>5, <2>1
  <2>2. CASE ~\E w \in Workers : AdvanceRun(w)
    <3>1. result' = result /\ (phase' = "finished" => phase = "finished")
      BY RunSteps, <2>2 DEF RunStep, ChangeRunPhase, StopRun, ApproveRunTask, FetchLog,
         FetchArchive, HandleExecutorTaskUpdate, FinishedRunArchiver
    <3> QED BY <1>4, <3>1
  <2> QED BY <2>1, <2>2
<1>7. ASSUME phase' \in {"queued", "cancelled"}
      PROVE  /\ phase \in {"queued", "cancelled"}
             /\ result' = "unknown" /\ ~stop'
  <2>1. phase \in {"queued", "cancelled"}
    BY <1>0, <1>7, PhaseStep
  <2> QED BY <1>0, <2>1, PhaseStep DEF NotStarted, TypeInv, TypeOK
<1>8. ASSUME phase' \in {"queued", "cancelled"}
      PROVE  submits' = submits /\ \A w \in Workers : pc'[w] \notin Busy
  <2>0. \A w \in Workers : pc[w] \notin Busy
    BY <1>0, <1>7, <1>8 DEF NotStartedIdle
  <2>1. CASE Quiet
    BY <2>0, <2>1 DEF Quiet
  <2>2. ASSUME NEW w \in Workers, AdvanceRun(w)
        PROVE  submits' = submits /\ \A v \in Workers : pc'[v] \notin Busy
    BY <1>8, <2>0, <2>2, RunUpdatedType DEF AdvanceRun, TypeInv, TypeOK, Busy
  <2>3. \A w \in Workers : ~InsertExecutorTask(w) /\ \A t \in Tasks : ~NextTask(w, t)
    BY <2>0 DEF InsertExecutorTask, NextTask, Busy
  <2> QED BY WorkerSteps, <2>1, <2>2, <2>3
<1>9. NotStarted' /\ NotStartedIdle'
  BY <1>0, <1>7, <1>8 DEF NotStarted, NotStartedIdle
<1>10. ResultConsistent'
  BY <1>6, <1>9, ResultParts, PTL
<1> QED BY <1>9, <1>10 DEF ResultInv

LEMMA ResultInit == Init => ResultInv
<1> SUFFICES ASSUME Init PROVE ResultInv
  OBVIOUS
<1>1. ResultConsistent
  BY DEF Init, ResultConsistent
<1>2. NotStartedIdle
  BY DEF Init, NotStartedIdle, Busy
<1> QED BY <1>1, <1>2 DEF ResultInv

\* The run's result agrees with its tasks, a finished run has only finished
\* tasks, and nothing is submitted for a run that isn't started, whatever
\* order advanceRun, handleExecutorTaskUpdate and the API calls come in.
THEOREM ResultAlwaysConsistent == Spec => []ResultConsistent
<1>1. ResultInv => ResultConsistent
  BY DEF ResultInv
<1> QED BY TypeInit, TypeNext, ResultInit, ResultNext, <1>1, PTL DEF Spec

\* Nothing that a transaction committed about a task's end, the result, an
\* approval, a stop or the phase is undone by a later one.
THEOREM NeverTakenBack == Spec => NothingTakenBack
<1>1. TypeInv /\ ResultInv /\ [Next]_vars =>
        [/\ \A t \in Tasks : /\ status[t] \in FinishedStatuses => status'[t] = status[t]
                             /\ approved[t] => approved'[t]
                             /\ archives[t] => archives'[t]
         /\ result # "unknown" => result' = result
         /\ stop => stop'
         /\ phase' \in PhaseOrder[phase]]_vars
  BY StepKeeps, PhaseStep, ResultParts DEF ResultInv, Kept
<1> QED BY TypeInit, TypeNext, ResultInit, ResultNext, <1>1, PTL DEF Spec, NothingTakenBack

-----------------------------------------------------------------------------
(* KeptUntilFetched and ArchivedComplete.  taskFetcher decides to delete   *)
(* an executor task on a copy of the run; the decision stays right because *)
(* finished tasks and fetch phases are never taken back.                   *)

FetcherOK ==
    \A t \in Tasks : /\ fetcher[t] # "idle" => status[t] \in FinishedStatuses
                     /\ fetcher[t] = "delete" => logs[t] /\ archives[t]

FetchInv == FetcherOK /\ ArchivedComplete

FetcherStep ==
    \E t \in Tasks : \/ TaskFetcher(t) \/ FetchLog(t) \/ FetchArchive(t) \/ FetchFails(t)
                     \/ DeleteExecutorTask(t) \/ FetcherAborts(t)

LEMMA FetcherSteps == [Next]_vars => FetcherStep \/ UNCHANGED fetcher
<1> SUFFICES ASSUME [Next]_vars, ~FetcherStep PROVE UNCHANGED fetcher
  OBVIOUS
<1>1. CASE Step
  BY <1>1 DEF Step, FetcherStep, RunsScheduler, ReadRun, AdvanceRun, AdvanceConflict, SubmitEnds,
     NoExecutor, InsertExecutorTask, NextTask, ChooseExecutor, HandleExecutorTaskUpdate,
     ExecutorTaskCleaner, ExecutorProgress, ExecutorTaskStatus, FinishedRunArchiver
<1>2. CASE Request
  BY <1>2 DEF Request, ChangeRunPhase, StopRun, ApproveRunTask, RunTaskSetAnnotations
<1>3. CASE Fault
  BY <1>3 DEF Fault, FetcherStep, WorkerAborts, DeleteStaleExecutor, DeleteExecutor, ExecutorStatus
<1> QED BY <1>1, <1>2, <1>3 DEF Next

LEMMA FetchNext == TypeInv /\ ResultInv /\ FetchInv /\ [Next]_vars => FetchInv'
<1> SUFFICES ASSUME TypeInv, ResultInv, FetchInv, [Next]_vars PROVE FetchInv'
  OBVIOUS
<1> USE DEF FetchInv
<1>0. TypeInv' /\ Kept /\ phase' \in PhaseOrder[phase]
  BY TypeNext, StepKeeps, PhaseStep, ResultParts DEF ResultInv
<1>1. \A t \in Tasks : /\ status[t] \in FinishedStatuses => status'[t] \in FinishedStatuses
                       /\ logs[t] => logs'[t]
                       /\ archives[t] => archives'[t]
  BY <1>0 DEF Kept
<1>2. FetcherOK'
  <2>1. CASE UNCHANGED fetcher
    BY <1>1, <2>1 DEF FetcherOK
  <2>2. ASSUME NEW t \in Tasks,
               \/ TaskFetcher(t) \/ FetchLog(t) \/ FetchArchive(t) \/ FetchFails(t)
               \/ DeleteExecutorTask(t) \/ FetcherAborts(t)
        PROVE  /\ \A u \in Tasks \ {t} : fetcher'[u] = fetcher[u]
               /\ fetcher'[t] # "idle" => status[t] \in FinishedStatuses
               /\ fetcher'[t] = "delete" => logs[t] /\ archives[t]
    BY <2>2 DEF TaskFetcher, FetchLog, FetchArchive, FetchFails, DeleteExecutorTask,
       FetcherAborts, AfterLog, FetcherOK, TypeInv, TypeOK
  <2>3. CASE FetcherStep
    <3>1. PICK t \in Tasks : \/ TaskFetcher(t) \/ FetchLog(t) \/ FetchArchive(t)
                             \/ FetchFails(t) \/ DeleteExecutorTask(t) \/ FetcherAborts(t)
      BY <2>3 DEF FetcherStep
    <3> QED BY <1>1, <2>2, <3>1 DEF FetcherOK
  <2> QED BY FetcherSteps, <2>1, <2>3
<1>3. ArchivedComplete'
  <2>1. phase \in FinishedPhases => phase' \in FinishedPhases
    BY <1>0 DEF PhaseOrder, Phases, FinishedPhases, TypeInv, TypeOK
  <2>2. archived' = archived \/ FinishedRunArchiver
    BY RunSteps DEF RunStep, ChangeRunPhase, StopRun, ApproveRunTask, FetchLog, FetchArchive,
       HandleExecutorTaskUpdate, AdvanceRun
  <2>3. archived' => phase \in FinishedPhases /\ \A t \in Tasks : logs[t] /\ archives[t]
    BY <2>2 DEF FinishedRunArchiver, ArchivedComplete
  <2> QED BY <1>1, <2>1, <2>3 DEF ArchivedComplete
<1> QED BY <1>2, <1>3

LEMMA FetchInit == Init => FetchInv
BY DEF Init, FetchInv, FetcherOK, ArchivedComplete

\* An archived run, which the fetcher no longer looks at, is over and has
\* nothing left to fetch.
THEOREM ArchivedAlwaysComplete == Spec => []ArchivedComplete
<1>1. FetchInv => ArchivedComplete
  BY DEF FetchInv
<1> QED BY TypeInit, TypeNext, ResultInit, ResultNext, FetchInit, FetchNext, <1>1, PTL DEF Spec

LEMMA EtDeleted ==
    ASSUME TypeInv, [Next]_vars, NEW t \in Tasks, et[t] # None, et'[t] = None
    PROVE  fetcher[t] = "delete"
<1> SUFFICES ASSUME ~DeleteExecutorTask(t) PROVE FALSE
  BY DEF DeleteExecutorTask
<1> USE DEF TypeInv
<1>1. ASSUME NEW u \in Tasks, NEW x \in ExecutorTask, et' = [et EXCEPT ![u] = x] PROVE FALSE
  BY <1>1, NoneAssumption DEF TypeOK
<1>2. et[t] \in ExecutorTask
  BY DEF TypeOK
<1>3. ASSUME NEW w \in Workers, AdvanceRun(w) PROVE FALSE
  <2>1. et'[t] = et[t] \/ et'[t] = [et[t] EXCEPT !.stop = TRUE]
    BY <1>3 DEF AdvanceRun, stopExecutorTasks
  <2>2. [et[t] EXCEPT !.stop = TRUE] \in ExecutorTask
    BY <1>2 DEF ExecutorTask
  <2> QED BY <2>1, <2>2, NoneAssumption
<1>4. ASSUME NEW w \in Workers, InsertExecutorTask(w) PROVE FALSE
  BY <1>4 DEF InsertExecutorTask, TypeOK, LocalOK
<1>5. ASSUME NEW u \in Tasks, NEW p \in EtPhases,
             ExecutorProgress(u, p) \/ ExecutorTaskStatus(u, p) \/ ExecutorTaskCleaner(u)
      PROVE FALSE
  <2>1. et[u] \in ExecutorTask /\ "failed" \in EtPhases
    BY <1>5 DEF ExecutorProgress, ExecutorTaskStatus, ExecutorTaskCleaner, TypeOK, EtPhases
  <2>2. /\ [et[u] EXCEPT !.stop = TRUE] \in ExecutorTask
        /\ [et[u] EXCEPT !.phase = p] \in ExecutorTask
        /\ [et[u] EXCEPT !.phase = "failed"] \in ExecutorTask
        /\ [et[u] EXCEPT !.actual = p] \in ExecutorTask
    BY <2>1, ExecutorTaskUpdates
  <2> QED BY <1>1, <1>5, <2>2 DEF ExecutorProgress, ExecutorTaskStatus, ExecutorTaskCleaner
<1>6. ASSUME NEW u \in Tasks, DeleteExecutorTask(u) PROVE FALSE
  BY <1>6 DEF DeleteExecutorTask, TypeOK
<1>7. ASSUME et' = et PROVE FALSE
  BY <1>7
<1>8. EtPhases # {}
  BY DEF EtPhases
<1>9. CASE Step
  BY <1>3, <1>4, <1>5, <1>6, <1>7, <1>8, <1>9 DEF Step, RunsScheduler, ReadRun, AdvanceConflict,
     SubmitEnds, NoExecutor, NextTask, ChooseExecutor, HandleExecutorTaskUpdate,
     TaskFetcher, FetchLog, FetchArchive, FinishedRunArchiver
<1>10. CASE Request
  BY <1>7, <1>10 DEF Request, ChangeRunPhase, StopRun, ApproveRunTask, RunTaskSetAnnotations
<1>11. CASE Fault
  BY <1>7, <1>11 DEF Fault, WorkerAborts, FetchFails, FetcherAborts, DeleteStaleExecutor,
     DeleteExecutor, ExecutorStatus
<1> QED BY <1>7, <1>9, <1>10, <1>11 DEF Next

\* The executor task, the only link to the executor that holds a task's logs
\* and archives, is deleted only after both are recorded as fetched.
THEOREM ExecutorTaskKeptUntilFetched == Spec => KeptUntilFetched
<1>1. TypeInv /\ FetchInv /\ [Next]_vars =>
        [\A t \in Tasks : et[t] # None /\ et'[t] = None =>
            status[t] \in FinishedStatuses /\ logs[t] /\ archives[t]]_vars
  BY EtDeleted DEF FetchInv, FetcherOK
<1> QED BY TypeInit, TypeNext, ResultInit, ResultNext, FetchInit, FetchNext, <1>1, PTL
        DEF Spec, KeptUntilFetched

-----------------------------------------------------------------------------
(* EventsMatchRun.  Every event has a higher rank than the ones before it:  *)
(* a run is queued, is running or cancelled, has a result, is finished.     *)

PhaseRank(p) == IF p = "queued" THEN 0 ELSE IF p = "finished" THEN 2 ELSE 1
EventRank(e) == PhaseRank(e[1]) + (IF e[2] = "unknown" THEN 0 ELSE 1)

EventInv ==
    /\ Len(events) > 0
    /\ events[Len(events)] = <<phase, result>>
    /\ \A i, j \in 1..Len(events) : i < j => EventRank(events[i]) < EventRank(events[j])

\* The events are written by the transactions that change phase or result.
LEMMA EventSteps ==
    ASSUME TypeInv, [Next]_vars
    PROVE  \/ UNCHANGED <<phase, result, events>>
           \/ /\ events' = Append(events, <<phase', result'>>)
              /\ phase' # phase \/ result' # result
<1> DEFINE Goal == \/ UNCHANGED <<phase, result, events>>
                   \/ /\ events' = Append(events, <<phase', result'>>)
                      /\ phase' # phase \/ result' # result
<1>1. ASSUME NEW p \in Phases, ChangeRunPhase(p) PROVE Goal
  BY <1>1 DEF ChangeRunPhase
<1>2. ASSUME NEW w \in Workers, AdvanceRun(w) PROVE Goal
  BY <1>2 DEF AdvanceRun
<1>3. ASSUME UNCHANGED <<phase, result, events>> PROVE Goal
  BY <1>3
<1>4. ASSUME UNCHANGED <<run, events>> PROVE Goal
  BY <1>4
<1> HIDE DEF Goal
<1>5. ASSUME NEW w \in Workers, \/ RunsScheduler(w) \/ ReadRun(w) \/ AdvanceConflict(w) \/ SubmitEnds(w)
                                \/ NoExecutor(w) \/ WorkerAborts(w) \/ InsertExecutorTask(w)
                                \/ \E e \in Executors : ChooseExecutor(w, e)
                                \/ \E t \in Tasks : NextTask(w, t)
      PROVE  Goal
  BY <1>4, <1>5 DEF RunsScheduler, ReadRun, AdvanceConflict, SubmitEnds, NoExecutor, WorkerAborts,
     InsertExecutorTask, ChooseExecutor, NextTask
<1>6. ASSUME NEW w \in Workers, NEW t \in Tasks, HandleExecutorTaskUpdate(w, t) PROVE Goal
  BY <1>3, <1>6 DEF HandleExecutorTaskUpdate
<1>7. ASSUME NEW t \in Tasks, \/ ExecutorTaskCleaner(t) \/ TaskFetcher(t) \/ DeleteExecutorTask(t)
                              \/ FetchFails(t) \/ FetcherAborts(t)
                              \/ \E p \in EtPhases : ExecutorProgress(t, p) \/ ExecutorTaskStatus(t, p)
      PROVE  Goal
  BY <1>4, <1>7 DEF ExecutorTaskCleaner, TaskFetcher, DeleteExecutorTask, FetchFails, FetcherAborts,
     ExecutorProgress, ExecutorTaskStatus
<1>8. ASSUME NEW t \in Tasks, FetchLog(t) \/ FetchArchive(t) \/ ApproveRunTask(t) PROVE Goal
  BY <1>3, <1>8 DEF FetchLog, FetchArchive, ApproveRunTask
<1>9. ASSUME StopRun \/ FinishedRunArchiver \/ RunTaskSetAnnotations \/ UNCHANGED vars PROVE Goal
  BY <1>3, <1>4, <1>9 DEF StopRun, FinishedRunArchiver, RunTaskSetAnnotations
<1>10. ASSUME NEW e \in Executors, \/ DeleteStaleExecutor(e) \/ DeleteExecutor(e)
                                   \/ \E s \in {"usable", "unusable"} : ExecutorStatus(e, s)
       PROVE  Goal
  BY <1>4, <1>10 DEF DeleteStaleExecutor, DeleteExecutor, ExecutorStatus
<1>11. ASSUME Step PROVE Goal
  BY <1>2, <1>5, <1>6, <1>7, <1>8, <1>9, <1>11 DEF Step
<1>12. ASSUME Request PROVE Goal
  BY <1>1, <1>8, <1>9, <1>12 DEF Request
<1>13. ASSUME Fault PROVE Goal
  BY <1>5, <1>7, <1>10, <1>13 DEF Fault
<1>14. Goal
  BY <1>9, <1>11, <1>12, <1>13 DEF Next
<1> QED BY <1>14 DEF Goal

LEMMA EventNext == TypeInv /\ ResultInv /\ EventInv /\ [Next]_vars => EventInv'
<1> SUFFICES ASSUME TypeInv, ResultInv, EventInv, [Next]_vars PROVE EventInv'
  OBVIOUS
<1>1. CASE UNCHANGED <<phase, result, events>>
  BY <1>1 DEF EventInv
<1>2. CASE /\ events' = Append(events, <<phase', result'>>)
           /\ phase' # phase \/ result' # result
  <2> DEFINE n == Len(events)
             e == <<phase', result'>>
  <2>1. /\ NotStarted /\ ResultOfTasks /\ Kept
        /\ phase' \in PhaseOrder[phase]
        /\ phase' # phase => phase = "queued" \/ phase' = "finished"
        /\ result' # result => phase = "running"
        /\ phase \in Phases
        /\ result # "unknown" => result' = result
    BY ResultParts, StepKeeps, PhaseStep DEF ResultInv, Kept, TypeInv, TypeOK
  <2>2. /\ phase = "queued" => PhaseOrder[phase] = {"queued", "running", "cancelled"}
        /\ phase = "running" => PhaseOrder[phase] = {"running", "finished"}
        /\ phase \notin {"queued", "running"} => PhaseOrder[phase] = {phase}
    BY <2>1 DEF PhaseOrder, Phases
  <2>3. EventRank(<<phase, result>>) < EventRank(e)
    <3>1. CASE phase = "queued"
      BY <1>2, <2>1, <2>2, <3>1 DEF EventRank, PhaseRank
    <3>2. CASE phase = "running"
      BY <1>2, <2>1, <2>2, <3>2 DEF EventRank, PhaseRank
    <3>3. CASE phase \notin {"queued", "running"}
      BY <1>2, <2>1, <2>2, <3>3
    <3> QED BY <3>1, <3>2, <3>3
  <2>4. /\ events \in Seq(Phases \X Results) /\ n \in Nat /\ n > 0
        /\ events' \in Seq(Phases \X Results)
    BY TypeNext DEF EventInv, TypeInv, TypeOK
  <2>5. /\ Len(events') = n + 1 /\ events'[n + 1] = e
        /\ \A i \in 1..n : events'[i] = events[i]
    BY <1>2, <2>4
  <2>6. \A i \in 1..n : EventRank(events[i]) < EventRank(e)
    <3>1. \A x : EventRank(x) \in Nat
      BY DEF EventRank, PhaseRank
    <3>2. ASSUME NEW i \in 1..n PROVE EventRank(events[i]) <= EventRank(<<phase, result>>)
      <4>1. CASE i = n
        BY <3>1, <4>1 DEF EventInv
      <4>2. CASE i < n
        <5>0. i \in 1..Len(events) /\ Len(events) \in 1..Len(events) /\ i < Len(events)
          BY <2>4, <4>2
        <5>1. EventRank(events[i]) < EventRank(events[Len(events)])
          BY <5>0 DEF EventInv
        <5>2. EventRank(events[Len(events)]) = EventRank(<<phase, result>>)
          BY DEF EventInv
        <5>3. \A k, l, m \in Nat : k < l /\ l = m => k <= m
          OBVIOUS
        <5> QED BY <3>1, <5>1, <5>2, <5>3
      <4> QED BY <2>4, <4>1, <4>2
    <3> QED BY <2>3, <3>1, <3>2
  <2>7. ASSUME NEW i \in 1..(n + 1), NEW j \in 1..(n + 1), i < j
        PROVE  EventRank(events'[i]) < EventRank(events'[j])
    <3>1. i \in 1..n
      BY <2>4, <2>7
    <3>2. CASE j = n + 1
      BY <2>5, <2>6, <3>1, <3>2
    <3>3. CASE j \in 1..n
      BY <2>5, <2>7, <3>1, <3>3 DEF EventInv
    <3> QED BY <2>4, <3>2, <3>3
  <2> QED BY <2>4, <2>5, <2>7 DEF EventInv
<1> QED BY <1>1, <1>2, EventSteps

\* An observer of a run's events knows its phase and result, and is told of no
\* pair twice, whichever of the API and the scheduler's workers changed the run.
THEOREM EventsAlwaysMatch == Spec => []EventsMatchRun
<1>1. Init => EventInv
  BY DEF Init, EventInv
<1>2. TypeInv /\ EventInv => EventsMatchRun
  <2> SUFFICES ASSUME TypeInv, EventInv, NEW i \in 1..Len(events), NEW j \in 1..Len(events),
                      events[i] = events[j]
               PROVE  i = j
    BY DEF EventInv, EventsMatchRun
  <2>1. EventRank(events[i]) \in Nat /\ EventRank(events[j]) = EventRank(events[i])
    BY DEF EventRank, PhaseRank
  <2>2. i \in Nat /\ j \in Nat
    OBVIOUS
  <2> QED BY <2>1, <2>2 DEF EventInv
<1> QED BY TypeInit, TypeNext, ResultInit, ResultNext, EventNext, <1>1, <1>2, PTL DEF Spec

-----------------------------------------------------------------------------
(* SubmittedOncePerWorker.  A task is added to a worker's list while it     *)
(* isn't started, and its executor task is deleted once it is finished.     *)
(* When it finishes, the worker that finishes it doesn't hold it; from then *)
(* on nobody takes it up any more, and whoever still holds it may submit it *)
(* once.                                                                    *)

\* w has t in its list, or is about to submit it
Holds(w, t) == t \in todo[w] \/ (pc[w] \in {"choose", "insert"} /\ cur[w] = t)
Holders(t) == {w \in Workers : Holds(w, t)}

\* a worker has a list while it submits, and takes a task off it to submit it
ListsOK ==
    \A w \in Workers : /\ pc[w] \notin Busy => todo[w] = {}
                       /\ pc[w] \in {"choose", "insert"} => cur[w] \notin todo[w]

\* what has an executor task, or had one when a worker read it, was submitted
ScheduledOK ==
    /\ \A t \in Tasks : et[t] # None => submits[t] > 0
    /\ \A w \in Workers : \A t \in ets[w] : submits[t] > 0

SubmitInv ==
    /\ ListsOK /\ ScheduledOK
    /\ \A t \in Tasks : submits[t] > 0 => Workers # {}
    /\ \A t \in Tasks : status[t] \notin FinishedStatuses =>
            submits[t] = IF et[t] = None THEN 0 ELSE 1
    /\ \A t \in Tasks : status[t] \in FinishedStatuses =>
            submits[t] + Cardinality(Holders(t)) <= Cardinality(Workers)

LEMMA ListsNext ==
    ASSUME TypeInv, ListsOK, [Next]_vars
    PROVE  ListsOK'
<1> USE DEF TypeInv, Busy
<1>0. /\ \A w \in Workers : RunUpdated[w] = pc[w] \/ (RunUpdated[w] = "stale" /\ pc[w] = "read")
      /\ \A t \in Tasks : \A w \in Workers :
            EtUpdated(t)[w] = pc[w] \/ (EtUpdated(t)[w] = "stale" /\ pc[w] = "read")
  BY DEF RunUpdated, EtUpdated
<1>1. ASSUME UNCHANGED <<todo, cur>>,
             \A w \in Workers : pc'[w] = pc[w] \/ (pc'[w] = "stale" /\ pc[w] = "read")
      PROVE  ListsOK'
  BY <1>1 DEF ListsOK
<1>2. ASSUME UNCHANGED local, pc' = pc \/ pc' = RunUpdated \/ \E t \in Tasks : pc' = EtUpdated(t)
      PROVE  ListsOK'
  <2>1. \A w \in Workers : pc'[w] = pc[w] \/ (pc'[w] = "stale" /\ pc[w] = "read")
    BY <1>0, <1>2
  <2> QED BY <1>1, <1>2, <2>1
<1>3. ASSUME NEW w \in Workers, \/ RunsScheduler(w) \/ ReadRun(w) \/ AdvanceConflict(w) \/ SubmitEnds(w)
                                \/ NoExecutor(w) \/ WorkerAborts(w)
      PROVE  ListsOK'
  BY <1>3 DEF RunsScheduler, ReadRun, AdvanceConflict, SubmitEnds, NoExecutor, WorkerAborts, ListsOK,
     TypeOK
<1>4. ASSUME NEW w \in Workers, NEW e \in Executors, ChooseExecutor(w, e) PROVE ListsOK'
  BY <1>4 DEF ChooseExecutor, ListsOK, TypeOK
<1>5. ASSUME NEW w \in Workers, InsertExecutorTask(w) PROVE ListsOK'
  BY <1>5 DEF InsertExecutorTask, ListsOK, TypeOK
<1>6. ASSUME NEW w \in Workers, NEW t \in Tasks, NextTask(w, t) PROVE ListsOK'
  <2>1. CASE et[t] # None
    BY <1>6, <2>1 DEF NextTask, ListsOK, TypeOK
  <2>2. CASE et[t] = None
    BY <1>6, <2>2 DEF NextTask, ListsOK, TypeOK
  <2> QED BY <2>1, <2>2
<1>7. ASSUME NEW w \in Workers, AdvanceRun(w) PROVE ListsOK'
  <2>1. /\ pc[w] = "read" /\ todo[w] = {} /\ cur' = cur
        /\ \A v \in Workers \ {w} : todo'[v] = todo[v] /\ pc'[v] = RunUpdated[v]
    BY <1>7, RunUpdatedType DEF AdvanceRun, ListsOK, TypeOK
  <2>2. \/ pc'[w] = "submit"
        \/ pc'[w] = "idle" /\ todo' = todo
    BY <1>7, RunUpdatedType DEF AdvanceRun, TypeOK
  <2> QED BY <1>0, <2>1, <2>2 DEF ListsOK
<1>8. ASSUME NEW w \in Workers, NEW t \in Tasks, HandleExecutorTaskUpdate(w, t) PROVE ListsOK'
  <2>1. /\ UNCHANGED <<todo, cur>> /\ pc[w] = "idle" /\ pc'[w] = "start"
        /\ \A v \in Workers \ {w} : pc'[v] = RunUpdated[v]
    BY <1>8, RunUpdatedType DEF HandleExecutorTaskUpdate
  <2> QED BY <1>0, <2>1 DEF ListsOK
<1>9. ASSUME NEW t \in Tasks, \/ ExecutorTaskCleaner(t) \/ TaskFetcher(t) \/ DeleteExecutorTask(t)
                              \/ FetchFails(t) \/ FetcherAborts(t) \/ FetchLog(t) \/ FetchArchive(t)
                              \/ ApproveRunTask(t)
      PROVE  ListsOK'
  BY <1>2, <1>9 DEF ExecutorTaskCleaner, TaskFetcher, DeleteExecutorTask, FetchFails, FetcherAborts,
     FetchLog, FetchArchive, ApproveRunTask
<1>10. ASSUME NEW t \in Tasks, NEW p \in EtPhases, ExecutorProgress(t, p) \/ ExecutorTaskStatus(t, p)
       PROVE  ListsOK'
  BY <1>2, <1>10 DEF ExecutorProgress, ExecutorTaskStatus
<1>11. ASSUME \/ StopRun \/ FinishedRunArchiver \/ RunTaskSetAnnotations \/ UNCHANGED vars
              \/ \E p \in Phases : ChangeRunPhase(p)
       PROVE  ListsOK'
  BY <1>2, <1>11 DEF StopRun, FinishedRunArchiver, RunTaskSetAnnotations, ChangeRunPhase
<1>12. ASSUME NEW e \in Executors, \/ DeleteStaleExecutor(e) \/ DeleteExecutor(e)
                                   \/ \E s \in {"usable", "unusable"} : ExecutorStatus(e, s)
       PROVE  ListsOK'
  BY <1>2, <1>12 DEF DeleteStaleExecutor, DeleteExecutor, ExecutorStatus
<1>13. CASE Step
  BY <1>3, <1>4, <1>5, <1>6, <1>7, <1>8, <1>9, <1>10, <1>11, <1>13 DEF Step
<1>14. CASE Request
  BY <1>9, <1>11, <1>14 DEF Request
<1>15. CASE Fault
  BY <1>3, <1>9, <1>12, <1>15 DEF Fault
<1> QED BY <1>11, <1>13, <1>14, <1>15 DEF Next

\* An executor task appears when a worker inserts the task it holds, and only
\* then is the task counted.
LEMMA SubmitSteps ==
    ASSUME TypeInv, [Next]_vars, NEW t \in Tasks
    PROVE  \/ submits'[t] = submits[t]
           \/ /\ \E w \in Workers : InsertExecutorTask(w) /\ cur[w] = t
              /\ et[t] = None /\ et'[t] # None /\ submits'[t] = submits[t] + 1
<1> USE DEF TypeInv
<1>1. ASSUME NEW w \in Workers, InsertExecutorTask(w), submits'[t] # submits[t]
      PROVE  cur[w] = t /\ et[t] = None /\ et'[t] # None /\ submits'[t] = submits[t] + 1
  <2> DEFINE x == [phase |-> "notstarted", stop |-> FALSE, executor |-> chosen[w],
                   actual |-> "notstarted"]
  <2>1. cur[w] \in Tasks /\ chosen[w] \in Executors /\ et[cur[w]] = None
    BY <1>1 DEF InsertExecutorTask, LocalOK
  <2>2. x \in ExecutorTask
    BY <2>1 DEF ExecutorTask, EtPhases
  <2>3. et' = [et EXCEPT ![cur[w]] = x] /\ submits' = [submits EXCEPT ![cur[w]] = @ + 1]
    BY <1>1, <2>1 DEF InsertExecutorTask
  <2> HIDE DEF x
  <2> QED BY <1>1, <2>1, <2>2, <2>3, NoneAssumption DEF TypeOK
<1>2. (\E w \in Workers : InsertExecutorTask(w)) \/ submits' = submits
  BY WorkerSteps DEF Quiet, AdvanceRun, NextTask
<1> QED BY <1>1, <1>2

LEMMA EtInserted ==
    ASSUME TypeInv, [Next]_vars, NEW t \in Tasks, et[t] = None, et'[t] # None
    PROVE  submits'[t] = submits[t] + 1
<1> SUFFICES ASSUME submits'[t] # submits[t] + 1 PROVE FALSE
  OBVIOUS
<1> USE DEF TypeInv
<1>1. ASSUME NEW u \in Tasks, et[u] # None, NEW x, et' = [et EXCEPT ![u] = x] PROVE FALSE
  BY <1>1 DEF TypeOK
<1>2. ASSUME NEW w \in Workers, AdvanceRun(w) PROVE FALSE
  <2>1. ~(stop /\ t \in ets[w])
    BY <1>2 DEF AdvanceRun, SnapshotOK
  <2> QED BY <1>2, <2>1 DEF AdvanceRun, stopExecutorTasks
<1>3. ASSUME NEW w \in Workers, InsertExecutorTask(w) PROVE FALSE
  <2>1. cur[w] \in Tasks /\ cur[w] = t
    BY <1>3 DEF InsertExecutorTask, LocalOK, TypeOK
  <2> QED BY <1>3, <2>1 DEF InsertExecutorTask, TypeOK
<1>4. ASSUME NEW u \in Tasks, NEW p \in EtPhases,
             ExecutorProgress(u, p) \/ ExecutorTaskStatus(u, p) \/ ExecutorTaskCleaner(u)
      PROVE FALSE
  BY <1>1, <1>4 DEF ExecutorProgress, ExecutorTaskStatus, ExecutorTaskCleaner
<1>5. ASSUME NEW u \in Tasks, DeleteExecutorTask(u) PROVE FALSE
  BY <1>5 DEF DeleteExecutorTask, TypeOK
<1>6. ASSUME et' = et PROVE FALSE
  BY <1>6
<1>7. EtPhases # {}
  BY DEF EtPhases
<1>8. CASE Step
  BY <1>2, <1>3, <1>4, <1>5, <1>6, <1>7, <1>8 DEF Step, RunsScheduler, ReadRun, AdvanceConflict,
     SubmitEnds, NoExecutor, NextTask, ChooseExecutor, HandleExecutorTaskUpdate,
     TaskFetcher, FetchLog, FetchArchive, FinishedRunArchiver
<1>9. CASE Request
  BY <1>6, <1>9 DEF Request, ChangeRunPhase, StopRun, ApproveRunTask, RunTaskSetAnnotations
<1>10. CASE Fault
  BY <1>6, <1>10 DEF Fault, WorkerAborts, FetchFails, FetcherAborts, DeleteStaleExecutor,
     DeleteExecutor, ExecutorStatus
<1> QED BY <1>6, <1>8, <1>9, <1>10 DEF Next

\* A worker's snapshot has the executor tasks of the time it is read.
LEMMA SnapshotSteps ==
    ASSUME TypeInv, [Next]_vars, NEW w \in Workers
    PROVE  ets'[w] \subseteq ets[w] \cup Scheduled
<1> USE DEF TypeInv
<1>1. ASSUME NEW v \in Workers, \/ ReadRun(v) \/ AdvanceRun(v) \/ AdvanceConflict(v) \/ WorkerAborts(v)
      PROVE  ets'[w] \subseteq ets[w] \cup Scheduled
  BY <1>1 DEF ReadRun, AdvanceRun, AdvanceConflict, WorkerAborts, TypeOK
<1>2. ASSUME ets' = ets PROVE ets'[w] \subseteq ets[w] \cup Scheduled
  BY <1>2
<1>3. CASE Step
  BY <1>1, <1>2, <1>3 DEF Step, RunsScheduler, SubmitEnds, NoExecutor, NextTask, ChooseExecutor,
     InsertExecutorTask, HandleExecutorTaskUpdate, ExecutorTaskCleaner, ExecutorProgress,
     ExecutorTaskStatus, TaskFetcher, FetchLog, FetchArchive, DeleteExecutorTask, FinishedRunArchiver
<1>4. CASE Request
  BY <1>2, <1>4 DEF Request, ChangeRunPhase, StopRun, ApproveRunTask, RunTaskSetAnnotations
<1>5. CASE Fault
  BY <1>1, <1>2, <1>5 DEF Fault, FetchFails, FetcherAborts, DeleteStaleExecutor, DeleteExecutor,
     ExecutorStatus
<1> QED BY <1>2, <1>3, <1>4, <1>5 DEF Next

\* A worker comes to hold a task only when it advances the run and finds it not
\* started; what it submits it holds no more.
LEMMA HoldSteps ==
    ASSUME TypeInv, ListsOK, [Next]_vars, NEW w \in Workers, NEW t \in Tasks, Holds(w, t)'
    PROVE  /\ Holds(w, t) \/ (AdvanceRun(w) /\ t \in getTasksToRun(status', archives'))
           /\ ~(InsertExecutorTask(w) /\ cur[w] = t)
<1> USE DEF TypeInv
<1>1. CASE Quiet
  <2>1. Holds(w, t)
    BY <1>1 DEF Quiet, Holds
  <2>2. ~InsertExecutorTask(w) \/ cur[w] # t
    BY <2>1 DEF InsertExecutorTask, Holds, ListsOK, TypeOK
  <2> QED BY <2>1, <2>2
<1>2. ASSUME NEW v \in Workers, AdvanceRun(v)
      PROVE  /\ Holds(w, t) \/ (AdvanceRun(w) /\ t \in getTasksToRun(status', archives'))
             /\ ~(InsertExecutorTask(w) /\ cur[w] = t)
  <2>1. \A u \in Workers : pc'[u] \in {"choose", "insert"} => pc[u] = pc'[u] /\ cur'[u] = cur[u]
    BY <1>2, RunUpdatedType DEF AdvanceRun, TypeOK
  <2>2. \A u \in Workers : todo'[u] = todo[u] \/ (u = v /\ todo'[u] = getTasksToRun(status', archives'))
    BY <1>2 DEF AdvanceRun, TypeOK
  <2>3. Holds(w, t) \/ (AdvanceRun(w) /\ t \in getTasksToRun(status', archives'))
    BY <1>2, <2>1, <2>2 DEF Holds
  <2>4. ~(InsertExecutorTask(w) /\ cur[w] = t)
    <3> SUFFICES ASSUME InsertExecutorTask(w) PROVE FALSE
      OBVIOUS
    <3>1. todo' = todo /\ cur' # cur
      BY NoneAssumption DEF InsertExecutorTask, LocalOK, TypeOK
    <3> QED BY <1>2, <3>1 DEF AdvanceRun
  <2> QED BY <2>3, <2>4
<1>3. ASSUME NEW v \in Workers, InsertExecutorTask(v)
      PROVE  Holds(w, t) /\ ~(v = w /\ cur[w] = t)
  <2>1. /\ todo' = todo /\ pc'[v] = "submit" /\ pc[v] = "insert"
        /\ \A u \in Workers \ {v} : pc'[u] = pc[u] /\ cur'[u] = cur[u]
    BY <1>3 DEF InsertExecutorTask, TypeOK
  <2> QED BY <2>1 DEF Holds, ListsOK
<1>4. ASSUME NEW v \in Workers, NEW u \in Tasks, NextTask(v, u)
      PROVE  Holds(w, t)
  <2>1. /\ \A x \in Workers : todo'[x] \subseteq todo[x]
        /\ \A x \in Workers : pc'[x] \in {"choose", "insert"} =>
                (pc[x] = pc'[x] /\ cur'[x] = cur[x]) \/ (x = v /\ cur'[x] = u)
        /\ u \in todo[v]
    BY <1>4 DEF NextTask, TypeOK
  <2> QED BY <2>1 DEF Holds
<1> QED BY WorkerSteps, <1>1, <1>2, <1>3, <1>4

\* The worker that finishes a task, by a report of its executor task or by
\* skipping or cancelling it, doesn't hold it.
LEMMA FinishSteps ==
    ASSUME TypeInv, ListsOK, [Next]_vars, NEW t \in Tasks,
           status[t] \notin FinishedStatuses, status'[t] \in FinishedStatuses
    PROVE  submits' = submits /\ \E w \in Workers : ~Holds(w, t)'
<1> USE DEF TypeInv
<1>1. ASSUME NEW w \in Workers, AdvanceRun(w) PROVE submits' = submits /\ ~Holds(w, t)'
  <2>1. /\ submits' = submits /\ pc[w] = "read"
        /\ pc'[w] \in {"idle", "submit"}
        /\ todo'[w] = todo[w] \/ todo'[w] = getTasksToRun(status', archives')
    BY <1>1, RunUpdatedType DEF AdvanceRun, TypeOK
  <2>2. todo[w] = {}
    BY <2>1 DEF ListsOK, Busy
  <2>3. t \notin getTasksToRun(status', archives')
    BY DEF getTasksToRun, FinishedStatuses
  <2> QED BY <2>1, <2>2, <2>3 DEF Holds
<1>2. ASSUME NEW w \in Workers, NEW u \in Tasks, HandleExecutorTaskUpdate(w, u)
      PROVE  submits' = submits /\ ~Holds(w, t)'
  <2>1. /\ submits' = submits /\ pc[w] = "idle" /\ pc'[w] = "start" /\ todo'[w] = todo[w]
    BY <1>2, RunUpdatedType DEF HandleExecutorTaskUpdate
  <2> QED BY <2>1 DEF ListsOK, Busy, Holds
<1>3. RunStep
  BY RunSteps
<1> QED BY <1>1, <1>2, <1>3 DEF RunStep, ChangeRunPhase, StopRun, ApproveRunTask, FetchLog,
        FetchArchive, FinishedRunArchiver

\* the finite sets of workers that are compared
LEMMA FewerWorkers ==
    ASSUME NEW S \in SUBSET Workers, NEW T \in SUBSET S
    PROVE  /\ Cardinality(S) \in Nat /\ Cardinality(T) \in Nat
           /\ Cardinality(T) <= Cardinality(S)
           /\ \A w \in S \ T : Cardinality(T) + 1 <= Cardinality(S)
<1>1. IsFiniteSet(S)
  BY WorkersAssumption, FS_Subset
<1>2. IsFiniteSet(T) /\ Cardinality(T) <= Cardinality(S)
  BY <1>1, FS_Subset
<1>3. Cardinality(S) \in Nat /\ Cardinality(T) \in Nat
  BY <1>1, <1>2, FS_CardinalityType
<1>4. ASSUME NEW w \in S \ T PROVE Cardinality(T) + 1 <= Cardinality(S)
  <2>1. IsFiniteSet(S \ {w}) /\ Cardinality(S \ {w}) = Cardinality(S) - 1
    BY <1>1, FS_RemoveElement
  <2>2. Cardinality(T) <= Cardinality(S \ {w})
    BY <2>1, FS_Subset
  <2> QED BY <1>3, <2>1, <2>2
<1> QED BY <1>2, <1>3, <1>4

LEMMA SubmitNext == TypeInv /\ FetchInv /\ SubmitInv /\ [Next]_vars => SubmitInv'
<1> SUFFICES ASSUME TypeInv, FetchInv, SubmitInv, [Next]_vars PROVE SubmitInv'
  OBVIOUS
<1> USE DEF SubmitInv
<1>0. TypeInv' /\ Kept /\ ListsOK'
  BY TypeNext, StepKeeps, ListsNext
<1>1. \A t \in Tasks : submits[t] \in Nat /\ submits'[t] \in Nat
  BY <1>0 DEF TypeInv, TypeOK
<1>2. \A t \in Tasks : submits[t] > 0 => submits'[t] > 0
  BY <1>1, SubmitSteps
<1>3. ScheduledOK'
  <2>1. ASSUME NEW t \in Tasks, et'[t] # None PROVE submits'[t] > 0
    BY <1>1, <1>2, <2>1, EtInserted DEF ScheduledOK
  <2>2. ASSUME NEW w \in Workers, NEW t \in ets'[w] PROVE submits'[t] > 0
    BY <1>2, <2>2, SnapshotSteps DEF ScheduledOK, Scheduled, TypeInv, TypeOK
  <2> QED BY <2>1, <2>2 DEF ScheduledOK
<1>4. \A t \in Tasks : submits'[t] > 0 => Workers # {}
  BY SubmitSteps
<1>5. ASSUME NEW t \in Tasks, status'[t] \notin FinishedStatuses
      PROVE  submits'[t] = IF et'[t] = None THEN 0 ELSE 1
  <2>1. status[t] \notin FinishedStatuses
    BY <1>0, <1>5 DEF Kept
  <2>2. ~(et[t] # None /\ et'[t] = None)
    BY <2>1, EtDeleted DEF FetchInv, FetcherOK
  <2> QED BY <1>1, <2>1, <2>2, SubmitSteps, EtInserted
<1>6. ASSUME NEW t \in Tasks, status'[t] \in FinishedStatuses
      PROVE  submits'[t] + Cardinality(Holders(t)') <= Cardinality(Workers)
  <2>0. Holders(t) \subseteq Workers /\ Holders(t)' \subseteq Workers
    BY DEF Holders
  <2>1. CASE status[t] \in FinishedStatuses
    <3>1. t \notin getTasksToRun(status', archives')
      BY <1>6 DEF getTasksToRun, FinishedStatuses
    <3>2. /\ Holders(t)' \subseteq Holders(t)
          /\ \A w \in Workers : InsertExecutorTask(w) /\ cur[w] = t => w \notin Holders(t)'
      BY <3>1, HoldSteps DEF Holders
    <3>3. submits[t] + Cardinality(Holders(t)) <= Cardinality(Workers)
      BY <2>1
    <3>4. CASE submits'[t] = submits[t]
      BY <1>1, <2>0, <3>2, <3>3, <3>4, FewerWorkers
    <3>5. CASE submits'[t] # submits[t]
      <4>1. PICK w \in Workers : InsertExecutorTask(w) /\ cur[w] = t
        BY <3>5, SubmitSteps
      <4>2. w \in Holders(t) \ Holders(t)'
        BY <3>2, <4>1 DEF Holders, Holds, InsertExecutorTask
      <4>3. submits'[t] = submits[t] + 1
        BY <3>5, SubmitSteps
      <4> QED BY <1>1, <2>0, <3>2, <3>3, <4>2, <4>3, FewerWorkers
    <3> QED BY <3>4, <3>5
  <2>2. CASE status[t] \notin FinishedStatuses
    <3>1. submits'[t] = submits[t] /\ submits[t] <= 1
      BY <1>6, <2>2, FinishSteps
    <3>2. PICK w \in Workers : w \notin Holders(t)'
      BY <1>6, <2>2, FinishSteps DEF Holders
    <3> QED BY <1>1, <2>0, <3>1, <3>2, FewerWorkers
  <2> QED BY <2>1, <2>2
<1> QED BY <1>0, <1>3, <1>4, <1>5, <1>6

LEMMA SubmitInit == Init => SubmitInv
<1> SUFFICES ASSUME Init PROVE SubmitInv
  OBVIOUS
<1>1. ListsOK /\ ScheduledOK
  BY DEF Init, ListsOK, ScheduledOK, Busy
<1>2. \A t \in Tasks : submits[t] = 0 /\ et[t] = None /\ Holders(t) = {}
  BY DEF Init, Holders, Holds
<1>3. Cardinality({}) = 0 /\ Cardinality(Workers) \in Nat
  BY WorkersAssumption, FS_EmptySet, FS_CardinalityType
<1> QED BY <1>1, <1>2, <1>3 DEF SubmitInv

LEMMA SubmitBound == TypeInv /\ SubmitInv => SubmittedOncePerWorker
<1> SUFFICES ASSUME TypeInv, SubmitInv, NEW t \in Tasks
             PROVE  submits[t] <= Cardinality(Workers)
  BY DEF SubmittedOncePerWorker
<1>0. Cardinality(Workers) \in Nat /\ (Workers # {} => Cardinality(Workers) >= 1)
  BY WorkersAssumption, FS_CardinalityType, FS_EmptySet
<1>1. submits[t] \in Nat /\ Holders(t) \subseteq Workers
  BY DEF TypeInv, TypeOK, Holders
<1>2. CASE status[t] \in FinishedStatuses
  BY <1>0, <1>1, <1>2, FewerWorkers DEF SubmitInv
<1>3. CASE status[t] \notin FinishedStatuses
  BY <1>0, <1>1, <1>3 DEF SubmitInv
<1> QED BY <1>2, <1>3

\* However the workers of runsScheduler and executorTaskUpdateHandler
\* interleave, fail and start again, a task gets at most as many executor tasks
\* as there are workers.
THEOREM SubmittedAtMostOncePerWorker == Spec => []SubmittedOncePerWorker
BY TypeInit, TypeNext, ResultInit, ResultNext, FetchInit, FetchNext, SubmitInit, SubmitNext,
   SubmitBound, PTL DEF Spec

-----------------------------------------------------------------------------
(* WorkspaceComplete.  The tasks that finish before the run is set to stop  *)
(* leave no unfinished task behind them, and what a worker takes up it      *)
(* takes up before that.                                                    *)

\* the ancestors of t are finished and their archives fetched
Complete(t) == \A p \in Ancestors[t] : status[p] \in FinishedStatuses /\ archives[p]

\* until the run is set to stop, a task that finishes is one whose parents are
\* finished
FinishedInOrder ==
    ~stop => \A q \in Tasks \ Skip :
                status[q] \in FinishedStatuses => AllParentsFinished(q, status, archives)

\* a task that a worker takes up is complete, and stays so
WorkspaceInv ==
    /\ FinishedInOrder
    /\ \A w \in Workers : \A t \in Tasks : Holds(w, t) => Complete(t)
    /\ WorkspaceComplete

LEMMA CompleteStable ==
    ASSUME Kept, NEW t \in Tasks, Complete(t)
    PROVE  Complete(t)'
<1>1. Ancestors[t] \subseteq Tasks
  BY DEF Ancestors
<1> QED BY <1>1 DEF Complete, Kept

\* The finished tasks of a run that isn't to be stopped are closed under
\* Parents, so that what holds of a task's parents holds of its ancestors.
LEMMA OrderComplete ==
    ASSUME NEW st, NEW ar, NEW t \in Tasks,
           \A q \in Tasks \ Skip : st[q] \in FinishedStatuses => AllParentsFinished(q, st, ar),
           AllParentsFinished(t, st, ar)
    PROVE  \A p \in Ancestors[t] : st[p] \in FinishedStatuses /\ ar[p]
<1> DEFINE S == {q \in Tasks : st[q] \in FinishedStatuses /\ ar[q]}
<1>1. \A q \in Tasks : Parents(q) \subseteq Tasks
  BY DependsAssumption DEF Parents
<1>2. Parents(t) \subseteq S
  BY <1>1 DEF AllParentsFinished
<1>3. \A q \in S \ Skip : Parents(q) \subseteq S
  BY <1>1 DEF AllParentsFinished
<1>4. Ancestors[t] = {p \in Tasks : \A T \in SUBSET Tasks :
            Parents(t) \subseteq T /\ (\A q \in T \ Skip : Parents(q) \subseteq T) => p \in T}
  BY DEF Ancestors
<1>5. S \in SUBSET Tasks
  OBVIOUS
<1>6. Ancestors[t] \subseteq S
  <2> HIDE DEF S
  <2> QED BY <1>2, <1>3, <1>4, <1>5
<1> QED BY <1>6

LEMMA OrderNext ==
    ASSUME TypeInv, DependInv, ScheduledOK, FinishedInOrder, [Next]_vars
    PROVE  FinishedInOrder'
<1>0. Kept
  BY StepKeeps
<1> SUFFICES ASSUME ~stop', NEW q \in Tasks \ Skip, status'[q] \in FinishedStatuses
             PROVE  AllParentsFinished(q, status', archives')
  BY DEF FinishedInOrder
<1>1. AllParentsFinished(q, status, archives) => AllParentsFinished(q, status', archives')
  <2>1. Parents(q) \subseteq Tasks
    BY DependsAssumption DEF Parents
  <2> QED BY <1>0, <2>1 DEF AllParentsFinished, Kept
<1>2. ~stop
  BY <1>0 DEF Kept
<1>3. CASE status[q] \in FinishedStatuses
  BY <1>1, <1>2, <1>3 DEF FinishedInOrder
<1>4. ASSUME NEW w \in Workers, AdvanceRun(w), status[q] \notin FinishedStatuses
      PROVE  AllParentsFinished(q, status, archives)
  <2>1. status'[q] = advanceTaskStatus(q, ets[w])
    BY <1>4 DEF AdvanceRun
  <2> QED BY <1>2, <1>4, <2>1 DEF advanceTaskStatus, AllParentsFinished, FinishedStatuses
<1>5. ASSUME NEW w \in Workers, NEW t \in Tasks, HandleExecutorTaskUpdate(w, t),
             status[q] \notin FinishedStatuses
      PROVE  AllParentsFinished(q, status, archives)
  <2>1. t = q /\ et[q] # None
    BY <1>5 DEF HandleExecutorTaskUpdate, TypeInv, TypeOK
  <2> QED BY <2>1 DEF ScheduledOK, DependInv, DependenciesRespected, MayRun
<1>6. CASE status[q] \notin FinishedStatuses
  <2>1. RunStep
    BY <1>6, RunSteps
  <2> QED BY <1>1, <1>4, <1>5, <1>6, <2>1 DEF RunStep, ChangeRunPhase, StopRun, ApproveRunTask,
          FetchLog, FetchArchive, FinishedRunArchiver
<1> QED BY <1>3, <1>6

LEMMA WorkspaceNext ==
    TypeInv /\ DependInv /\ SubmitInv /\ WorkspaceInv /\ [Next]_vars => WorkspaceInv'
<1> SUFFICES ASSUME TypeInv, DependInv, SubmitInv, WorkspaceInv, [Next]_vars PROVE WorkspaceInv'
  OBVIOUS
<1> USE DEF SubmitInv, WorkspaceInv
<1>0. TypeInv' /\ Kept /\ FinishedInOrder'
  BY TypeNext, StepKeeps, OrderNext
<1>1. \A t \in Tasks : Complete(t) => Complete(t)'
  BY <1>0, CompleteStable
<1>2. \A t \in Tasks : submits[t] > 0 => Complete(t)
  BY DEF WorkspaceComplete, Complete
<1>3. ASSUME NEW w \in Workers, NEW t \in Tasks, Holds(w, t)' PROVE Complete(t)'
  <2>1. CASE Holds(w, t)
    BY <1>1, <2>1
  <2>2. CASE ~Holds(w, t)
    <3>1. AdvanceRun(w) /\ t \in getTasksToRun(status', archives')
      BY <1>3, <2>2, HoldSteps
    <3>2. stop' = stop /\ AllParentsFinished(t, status', archives') /\ status'[t] = "notstarted"
      BY <3>1 DEF AdvanceRun, getTasksToRun
    <3>3. CASE ~stop
      <4>1. \A q \in Tasks \ Skip : status'[q] \in FinishedStatuses =>
                AllParentsFinished(q, status', archives')
        BY <1>0, <3>2, <3>3 DEF FinishedInOrder
      <4>2. \A p \in Ancestors[t] : status'[p] \in FinishedStatuses /\ archives'[p]
        BY <3>2, <4>1, OrderComplete
      <4> QED BY <4>2 DEF Complete
    <3>4. CASE stop
      <4>1. t \in todo'[w] \ todo[w]
        BY <1>3, <2>2, <3>1, RunUpdatedType DEF Holds, AdvanceRun, TypeInv, TypeOK
      <4>2. status'[t] = advanceTaskStatus(t, ets[w])
        BY <3>1, <4>1 DEF AdvanceRun
      <4>3. t \in ets[w]
        BY <3>2, <3>4, <4>2 DEF advanceTaskStatus
      <4> QED BY <1>1, <1>2, <4>3 DEF ScheduledOK
    <3> QED BY <3>3, <3>4, <3>2 DEF TypeInv, TypeOK
  <2> QED BY <2>1, <2>2
<1>4. ASSUME NEW t \in Tasks, submits'[t] > 0 PROVE Complete(t)'
  <2>1. CASE submits'[t] = submits[t]
    BY <1>1, <1>2, <1>4, <2>1
  <2>2. ASSUME NEW w \in Workers, InsertExecutorTask(w), cur[w] = t PROVE Complete(t)'
    BY <1>1, <2>2 DEF InsertExecutorTask, Holds
  <2> QED BY <2>1, <2>2, SubmitSteps
<1>5. WorkspaceComplete'
  BY <1>4 DEF WorkspaceComplete, Complete
<1> QED BY <1>0, <1>3, <1>5

LEMMA WorkspaceInit == Init => WorkspaceInv
<1> SUFFICES ASSUME Init PROVE WorkspaceInv
  OBVIOUS
<1>1. FinishedInOrder
  BY DEF Init, FinishedInOrder, FinishedStatuses
<1>2. \A w \in Workers : \A t \in Tasks : ~Holds(w, t)
  BY DEF Init, Holds
<1>3. WorkspaceComplete
  BY DEF Init, WorkspaceComplete
<1> QED BY <1>1, <1>2, <1>3 DEF WorkspaceInv

\* When a task is submitted, every task whose archives its workspace may need
\* is finished and fetched, in every run config, although getTasksToRun only
\* looks at the direct parents.
THEOREM WorkspaceAlwaysComplete == Spec => []WorkspaceComplete
<1>1. Init => DependInv
  BY DEF Init, DependInv, HeldMayRun, DependenciesRespected
<1>2. WorkspaceInv => WorkspaceComplete
  BY DEF WorkspaceInv
<1> QED BY TypeInit, TypeNext, ResultInit, ResultNext, FetchInit, FetchNext, SubmitInit, SubmitNext,
        DependNext, WorkspaceInit, WorkspaceNext, <1>1, <1>2, PTL DEF Spec
=============================================================================
