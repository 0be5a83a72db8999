----------------------------- MODULE MCExecutor -----------------------------
(* Executor for one executor task. *)
EXTENDS Executor
CONSTANT t1
=============================================================================
