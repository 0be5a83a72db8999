----------------------------- MODULE GroupQueue -----------------------------
(***************************************************************************)
(* What the runservice and the scheduler promise for the groups of runs: a *)
(* group is a queue whose runs are started in the order of their creation, *)
(* and one at a time.                                                      *)
(***************************************************************************)
EXTENDS Naturals

CONSTANT Groups

VARIABLES
    last,     \* the last number given to a run
    queued,   \* queued[g]: the runs of g that wait
    running   \* running[g]: the runs of g that were started and haven't ended

queueVars == <<last, queued, running>>

QueueInit ==
    /\ last = 0
    /\ queued = [g \in Groups |-> {}] /\ running = [g \in Groups |-> {}]

Create(g) ==
    /\ last' = last + 1
    /\ queued' = [queued EXCEPT ![g] = @ \cup {last + 1}]
    /\ UNCHANGED running

Cancel(g, r) ==
    /\ r \in queued[g] /\ queued' = [queued EXCEPT ![g] = @ \ {r}]
    /\ UNCHANGED <<last, running>>

\* only the first of the queue, and only when no run of the group is running
Start(g, r) ==
    /\ running[g] = {} /\ r \in queued[g] /\ \A q \in queued[g] : r <= q
    /\ queued' = [queued EXCEPT ![g] = @ \ {r}]
    /\ running' = [running EXCEPT ![g] = {r}]
    /\ UNCHANGED last

End(g) ==
    /\ running[g] # {} /\ running' = [running EXCEPT ![g] = {}]
    /\ UNCHANGED <<last, queued>>

QueueNext ==
    \E g \in Groups :
        \/ Create(g) \/ End(g)
        \/ \E r \in queued[g] : Cancel(g, r) \/ Start(g, r)

QueueSpec == QueueInit /\ [][QueueNext]_queueVars
=============================================================================
