------------------------- MODULE MCRunSchedulerLive -------------------------
(* RunSchedulerLive on a chain of two tasks. *)
EXTENDS RunSchedulerLive
CONSTANTS a, b, e1, e2, w1, w2

NoDepends == [t \in {} |-> {}]
\* b follows the success of a
ChainDepends == [t \in {a, b} |-> IF t = a THEN NoDepends ELSE [p \in {a} |-> {"on_success"}]]
AnyExecutor == [t \in Tasks |-> Executors]
Limit1 == [e \in Executors |-> 1]
=============================================================================
