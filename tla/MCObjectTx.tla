----------------------------- MODULE MCObjectTx -----------------------------
(* ObjectTx for the operations on a run: schedule is scheduleRun of a run to *)
(* stop, whose phase changes; report updates its executor task, handle the   *)
(* run after a report, and event is the event of another run.                *)
EXTENDS ObjectTx
CONSTANTS run, et, seq, schedule, report, handle, event

RunWrites == [o \in {schedule, report, handle, event} |->
                 CASE o = schedule -> <<et, run, seq>>
                   [] o = report -> <<et>>
                   [] o = handle -> <<run>>
                   [] o = event -> <<seq>>]
\* scheduleRun holds the run and its executor tasks
ScheduleHeld == [o \in {schedule, report, handle, event} |->
                    IF o = schedule THEN {run, et} ELSE {}]
=============================================================================
