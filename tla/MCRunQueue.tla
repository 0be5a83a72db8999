----------------------------- MODULE MCRunQueue -----------------------------
(* RunQueue for two groups, the path of one of which matches the other's. *)
EXTENDS RunQueue
CONSTANTS branch_1, branch01, s1, s2
Patterns == [g \in {branch_1, branch01} |-> IF g = branch_1 THEN {branch_1, branch01} ELSE {g}]
=============================================================================
