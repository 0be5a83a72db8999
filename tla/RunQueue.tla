------------------------------ MODULE RunQueue ------------------------------
(***************************************************************************)
(* The queues of runs.  The runservice creates runs in groups, numbers     *)
(* them and changes their phases; schedulers, which only see the runservice*)
(* through its API, start the queued ones.  A scheduler makes three calls  *)
(* for a group (its first queued run, its running runs, the start), and a  *)
(* change group tells the runservice whether somebody else started a run   *)
(* of the group in between.                                                *)
(*                                                                         *)
(* The runs of a group are selected with LIKE, and the group's path is     *)
(* used as a pattern as it is: a "_" or "%" in the name of a branch, or    *)
(* the case of letters in sqlite3, makes it match other groups as well.    *)
(***************************************************************************)
EXTENDS Naturals, FiniteSets

CONSTANTS Groups,          \* the groups of runs
          Covers,          \* Covers[g]: the groups whose path matches the pattern of g
          Schedulers,      \* instances of the scheduler service
          PageSize,        \* DefaultRunsLimit
          MaxRuns,         \* bound: runs
          MaxFaults,       \* bound: compactions, failed calls of schedulers and restarts
          None

ASSUME CoversAssumption ==
    /\ Covers \in [Groups -> SUBSET Groups]
    /\ \A g \in Groups : g \in Covers[g]
ASSUME BoundsAssumption ==
    /\ PageSize \in Nat \ {0}
    /\ MaxRuns \in Nat /\ MaxFaults \in Nat
ASSUME NoneAssumption == None \notin Groups \cup Nat \cup {"current", "outdated"}

Runs == 1..MaxRuns   \* a run is its sequence
Phases == {"queued", "cancelled", "running", "finished"}

VARIABLES
    \* the runservice's database
    last,      \* the sequence of runs
    phase,     \* phase[r], for the runs created so far
    group,     \* group[r]
    \* a scheduler
    pc, page,  \* where it is; the last run of the page it read
    groups,    \* groups with queued runs
    cur, first,\* the group at hand, its first queued run
    token,     \* whether its value of the group's change group is still "current"
    \* bound
    faults

runs == <<last, phase, group>>
local == <<pc, page, groups, cur, first, token>>
vars == <<runs, local, faults>>

Created == 1..last
InPhase(p) == {r \in Created : phase[r] = p}
\* the runs that getRunsFiltered selects for a group
RunsOf(g, p) == {r \in InPhase(p) : group[r] \in Covers[g]}
IsLast(r, S) == r \in S /\ \A q \in S : q <= r
\* slip: the runs come in descending order
IsFirst_desc(r, S) == IsLast(r, S)
IsFirst(r, S) == r \in S /\ \A q \in S : r <= q

Init ==
    /\ last = 0
    /\ phase = [r \in Runs |-> "queued"] /\ group = [r \in Runs |-> None]
    /\ pc = [s \in Schedulers |-> "idle"] /\ page = [s \in Schedulers |-> 0]
    /\ groups = [s \in Schedulers |-> {}] /\ cur = [s \in Schedulers |-> None]
    /\ first = [s \in Schedulers |-> None] /\ token = [s \in Schedulers |-> None]
    /\ faults = 0

-----------------------------------------------------------------------------
(* The runservice                                                          *)

\* saveRun (a run whose config has errors isn't queued, and no concern here)
CreateRun(g) ==
    /\ last < MaxRuns /\ last' = last + 1
    /\ group' = [group EXCEPT ![last'] = g]
    /\ UNCHANGED <<phase, local, faults>>

\* ChangeRunPhase, without a token
CancelRun(r) ==
    /\ r \in InPhase("queued")
    /\ phase' = [phase EXCEPT ![r] = "cancelled"]
    /\ UNCHANGED <<last, group, local, faults>>

\* see RunScheduler
FinishRun(r) ==
    /\ r \in InPhase("running")
    /\ phase' = [phase EXCEPT ![r] = "finished"]
    /\ UNCHANGED <<last, group, local, faults>>

\* the values of change groups are never used again: those of the groups in G
\* are outdated once they are changed or deleted
Outdated(G) ==
    [s \in Schedulers |-> IF cur[s] \in G /\ token[s] = "current" THEN "outdated" ELSE token[s]]

\* compactChangeGroups: those not updated in the last minutes are deleted, also
\* when somebody has just got their value (a change group whose value nobody has
\* makes no difference)
CompactChangeGroups ==
    /\ faults < MaxFaults /\ faults' = faults + 1
    /\ \E old \in SUBSET Groups :
        /\ Outdated(old) # token /\ token' = Outdated(old)
    /\ UNCHANGED <<runs, pc, page, groups, cur, first>>

-----------------------------------------------------------------------------
(* The scheduler                                                           *)

Schedule(s) ==
    /\ pc[s] = "idle" /\ pc' = [pc EXCEPT ![s] = "list"]
    /\ page' = [page EXCEPT ![s] = 0] /\ groups' = [groups EXCEPT ![s] = {}]
    /\ UNCHANGED <<runs, cur, first, token, faults>>

\* slip: a page starts with the last run of the one before
QueuedAfter_from(seq) == {r \in InPhase("queued") : r >= seq}
QueuedAfter(seq) == {r \in InPhase("queued") : r > seq}

\* a page of queued runs, in the order of their sequence
GetQueuedRuns(s) ==
    LET after == QueuedAfter(page[s])
        runsPage == {r \in after : Cardinality({q \in after : q <= r}) <= PageSize}
    IN
    /\ pc[s] = "list"
    /\ groups' = [groups EXCEPT ![s] = @ \cup {group[r] : r \in runsPage}]
    /\ \/ /\ runsPage = {} /\ pc' = [pc EXCEPT ![s] = "next"]
          /\ page' = [page EXCEPT ![s] = 0]
       \/ \E r \in runsPage :
            IsLast(r, runsPage) /\ page' = [page EXCEPT ![s] = r] /\ UNCHANGED pc
    /\ UNCHANGED <<runs, cur, first, token, faults>>

ScheduleEnds(s) ==
    /\ pc[s] = "next" /\ groups[s] = {}
    /\ pc' = [pc EXCEPT ![s] = "idle"]
    /\ UNCHANGED <<runs, page, groups, cur, first, token, faults>>

\* slip: it isn't checked that there is one
GetGroupFirstQueuedRuns_unchecked(s, g) ==
    LET queued == RunsOf(g, "queued") IN
    /\ pc[s] = "next" /\ g \in groups[s]
    /\ groups' = [groups EXCEPT ![s] = @ \ {g}]
    /\ pc' = [pc EXCEPT ![s] = "check"] /\ cur' = [cur EXCEPT ![s] = g]
    /\ \/ queued = {} /\ first' = [first EXCEPT ![s] = None]
       \/ \E r \in queued : IsFirst(r, queued) /\ first' = [first EXCEPT ![s] = r]
    /\ UNCHANGED <<runs, page, token, faults>>
\* scheduleRun, first call
GetGroupFirstQueuedRuns(s, g) ==
    LET queued == RunsOf(g, "queued") IN
    /\ pc[s] = "next" /\ g \in groups[s]
    /\ groups' = [groups EXCEPT ![s] = @ \ {g}]
    /\ \/ queued = {} /\ UNCHANGED <<pc, cur, first>>
       \/ \E r \in queued :
            /\ IsFirst(r, queued) /\ first' = [first EXCEPT ![s] = r]
            /\ pc' = [pc EXCEPT ![s] = "check"] /\ cur' = [cur EXCEPT ![s] = g]
    /\ UNCHANGED <<runs, page, token, faults>>

\* the scheduler turns to the next group
NextGroup(s) ==
    /\ pc' = [pc EXCEPT ![s] = "next"] /\ cur' = [cur EXCEPT ![s] = None]
    /\ first' = [first EXCEPT ![s] = None]
    /\ UNCHANGED <<page, groups>>

\* second call: the running runs and, in the same transaction, the value of
\* the change group, which is created if need be
GetGroupRunningRuns(s) ==
    /\ pc[s] = "check"
    /\ IF RunsOf(cur[s], "running") # {} THEN NextGroup(s) /\ UNCHANGED token
       ELSE /\ pc' = [pc EXCEPT ![s] = "start"]
            /\ token' = [token EXCEPT ![s] = "current"]
            /\ UNCHANGED <<page, groups, cur, first>>
    /\ UNCHANGED <<runs, faults>>

\* third call, ChangeRunPhase with the token: UpdateChangeGroups compares the
\* values and changes them, the run must be queued
StartRun(s) ==
    /\ pc[s] = "start" /\ token[s] = "current" /\ phase[first[s]] = "queued"
    /\ phase' = [phase EXCEPT ![first[s]] = "running"]
    /\ NextGroup(s)
    /\ token' = [Outdated({cur[s]}) EXCEPT ![s] = None]
    /\ UNCHANGED <<last, group, faults>>

\* the transaction is rolled back and the error is logged
StartRefused(s) ==
    /\ pc[s] = "start" /\ ~(token[s] = "current" /\ phase[first[s]] = "queued")
    /\ NextGroup(s)
    /\ token' = [token EXCEPT ![s] = None]
    /\ UNCHANGED <<runs, faults>>

\* one of the calls of scheduleRun fails: the other groups have their turn
ScheduleRunFails(s) ==
    /\ faults < MaxFaults /\ faults' = faults + 1
    /\ \/ /\ pc[s] \in {"check", "start"} /\ NextGroup(s)
          /\ token' = [token EXCEPT ![s] = None]
       \/ /\ pc[s] = "next"
          /\ \E g \in groups[s] : groups' = [groups EXCEPT ![s] = @ \ {g}]
          /\ UNCHANGED <<pc, page, cur, first, token>>
    /\ UNCHANGED runs

\* GetQueuedRuns fails, or the scheduler restarts; its next round starts from nothing
SchedulerAborts(s) ==
    /\ pc[s] # "idle" /\ faults < MaxFaults /\ faults' = faults + 1
    /\ pc' = [pc EXCEPT ![s] = "idle"] /\ cur' = [cur EXCEPT ![s] = None]
    /\ first' = [first EXCEPT ![s] = None] /\ token' = [token EXCEPT ![s] = None]
    /\ page' = [page EXCEPT ![s] = 0] /\ groups' = [groups EXCEPT ![s] = {}]
    /\ UNCHANGED runs

-----------------------------------------------------------------------------
Call(s) ==
    \/ Schedule(s) \/ GetQueuedRuns(s) \/ ScheduleEnds(s)
    \/ \E g \in Groups : GetGroupFirstQueuedRuns(s, g)
    \/ GetGroupRunningRuns(s) \/ StartRun(s) \/ StartRefused(s)

Next ==
    \/ CompactChangeGroups \/ \E g \in Groups : CreateRun(g)
    \/ \E r \in Runs : CancelRun(r) \/ FinishRun(r)
    \/ \E s \in Schedulers : Call(s) \/ ScheduleRunFails(s) \/ SchedulerAborts(s)

Spec == Init /\ [][Next]_vars

\* scheduleLoop runs for ever, and runs end (see RunSchedulerLive)
LiveSpec ==
    /\ Spec
    /\ \A s \in Schedulers : WF_vars(Call(s))
    /\ \A r \in Runs : WF_vars(FinishRun(r))

-----------------------------------------------------------------------------
(* Properties *)

\* Every variable has its type.
TypeOK ==
    /\ last \in 0..MaxRuns /\ phase \in [Runs -> Phases]
    /\ group \in [Runs -> Groups \cup {None}] /\ \A r \in Created : group[r] # None
    /\ pc \in [Schedulers -> {"idle", "list", "next", "check", "start"}]
    /\ page \in [Schedulers -> 0..MaxRuns]
    /\ groups \in [Schedulers -> SUBSET Groups]
    /\ cur \in [Schedulers -> Groups \cup {None}]
    /\ first \in [Schedulers -> Runs \cup {None}]
    /\ token \in [Schedulers -> {None, "current", "outdated"}]
    /\ \A s \in Schedulers :
        /\ pc[s] \in {"check", "start"} => cur[s] # None /\ first[s] \in Created
        /\ pc[s] \notin {"check", "start"} => cur[s] = None /\ first[s] = None
        /\ token[s] # None <=> pc[s] = "start"

\* The groups are queues: however the calls of the schedulers, cancellations and
\* compactions interleave and whatever patterns the groups' paths are, the runs
\* of a group are started in order and one at a time.
Queue == INSTANCE GroupQueue WITH
            queued <- [g \in Groups |-> {r \in InPhase("queued") : group[r] = g}],
            running <- [g \in Groups |-> {r \in InPhase("running") : group[r] = g}]
IsGroupQueue == Queue!QueueSpec

\* No queued run is forgotten: neither a compaction of its change group, nor the
\* start of another run, nor runs that appear while the pages are read keep it
\* from being started or cancelled.
QueuedRunLeaves == \A r \in Runs : (r <= last /\ phase[r] = "queued") ~> phase[r] # "queued"
=============================================================================
