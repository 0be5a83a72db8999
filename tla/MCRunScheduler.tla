--------------------------- MODULE MCRunScheduler ---------------------------
(* RunScheduler on small run configs. *)
EXTENDS RunScheduler, TLC
CONSTANTS a, b, c, d, e1, e2, w1, w2

NoDepends == [t \in {} |-> {}]
\* b follows the success of a
ChainDepends == [t \in {a, b} |-> IF t = a THEN NoDepends ELSE [p \in {a} |-> {"on_success"}]]
\* b handles the failure of a, d follows a and is skipped by the run config, c
\* follows b and d also when they are skipped
HandlerDepends == [t \in {a, b, c, d} |->
                    CASE t = a -> NoDepends
                      [] t = b -> [p \in {a} |-> {"on_failure"}]
                      [] t = c -> [p \in {b, d} |-> {"on_success", "on_skipped"}]
                      [] t = d -> [p \in {a} |-> {"on_success"}]]
AnyExecutor == [t \in Tasks |-> Executors]
\* e2 is a sibling that has other archs
OnlyE1 == [t \in Tasks |-> {e1}]
Limit1 == [e \in Executors |-> 1]
NoLimit == [e \in Executors |-> 0]
Limit2 == [e \in Executors |-> 2]
WorkerSymmetry == Permutations(Workers)
\* bound: one task is fetched at a time, and the run isn't stopped after its
\* first tasks
EarlyStop == /\ Cardinality({t \in Tasks : fetcher[t] # "idle"}) <= 1
             /\ stop => \A t \in Tasks : submits[t] > 0 => Parents(t) = {}
\* bound: the sibling, which runs none of the tasks, keeps its status
SiblingUsable == registry[e2] = "usable"
=============================================================================
