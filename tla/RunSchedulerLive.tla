-------------------------- MODULE RunSchedulerLive --------------------------
(***************************************************************************)
(* Liveness of RunScheduler.  Faults and requests are finitely many, here  *)
(* at most MaxFaults and MaxRequests, and the faults don't leave the run   *)
(* without an executor: that is all that is assumed of the environment.    *)
(***************************************************************************)
EXTENDS RunScheduler
CONSTANTS MaxFaults, MaxRequests,
          Endless   \* tasks that only end when they are stopped
ASSUME EndlessAssumption == Endless \subseteq Tasks
VARIABLES faults, requests
liveVars == <<vars, faults, requests>>

\* every task may still run on an executor that isn't removed
Served == \A t \in Tasks : \E e \in CanRun[t] \ Dynamic : registry[e] = "usable"

LiveInit == Init /\ faults = 0 /\ requests = 0
LiveNext ==
    \/ Step /\ UNCHANGED <<faults, requests>>
    \/ Request /\ requests < MaxRequests /\ requests' = requests + 1 /\ UNCHANGED faults
    \/ Fault /\ Served' /\ faults < MaxFaults /\ faults' = faults + 1 /\ UNCHANGED requests

\* a removed executor may never run its task or report it
Answers(t) == et[t] # None /\ registry[et[t].executor] # "absent"

(* The loops run for ever, hence weak fairness of each step.  A free worker *)
(* has both runsScheduler and the reports to handle, and a worker's update  *)
(* conflicts with those of the others: these are strongly fair.             *)
Fairness ==
    /\ \A w \in Workers :
        /\ WF_vars(RunsScheduler(w)) /\ WF_vars(ReadRun(w)) /\ SF_vars(AdvanceRun(w))
        /\ WF_vars(AdvanceConflict(w)) /\ WF_vars(SubmitEnds(w)) /\ WF_vars(NoExecutor(w))
        /\ WF_vars(\E e \in Executors : ChooseExecutor(w, e))
        /\ WF_vars(InsertExecutorTask(w)) /\ WF_vars(\E t \in Tasks : NextTask(w, t))
    /\ \A t \in Tasks :
        /\ SF_vars(\E w \in Workers : HandleExecutorTaskUpdate(w, t))
        /\ WF_vars(Answers(t) /\ \E p \in EtPhases : ExecutorTaskStatus(t, p))
        /\ WF_vars(ExecutorTaskCleaner(t)) /\ WF_vars(TaskFetcher(t))
        /\ WF_vars(FetchLog(t)) /\ WF_vars(FetchArchive(t)) /\ WF_vars(DeleteExecutorTask(t))
    /\ WF_vars(FinishedRunArchiver)

Progress(t) == Answers(t) /\ \E p \in EtPhases : ExecutorProgress(t, p)
RunsForever(t) == t \in Endless /\ et[t].actual = "running" /\ ~et[t].stop

LiveSpec ==
    LiveInit /\ [][LiveNext]_liveVars /\ Fairness /\
    \A t \in Tasks : WF_vars(Progress(t) /\ ~RunsForever(t))

-----------------------------------------------------------------------------
\* A started run finishes, unless it waits for an approval or for a task that
\* doesn't end.  The executor of a task may be removed, and an update may fail
\* or conflict with another.
RunFinishes ==
    phase = "running" ~> \/ phase = "finished"
                         \/ \E t \in Tasks : waiting[t] \/ (Answers(t) /\ RunsForever(t))

\* A finished run is archived: its fetches complete and the archiver sees it.
FinishedRunArchived == phase = "finished" ~> archived

\* A stopped run finishes even when its tasks would never end: the stop reaches
\* the executor tasks, the ones that a worker inserts later included.
StoppedRunFinishes == stop ~> phase = "finished"

-----------------------------------------------------------------------------
(* Statements of the code's comments that the code doesn't meet.           *)

\* scheduler.go, advanceRun: "if the run is finished AND there're no executor
\* tasks scheduled we can mark all not started runtasks' fetch phases (setup
\* step, logs and archives) as finished", which is what the archiver waits for.
CancelledRunArchived == phase = "cancelled" ~> archived
=============================================================================
