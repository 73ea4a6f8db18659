------------------------- MODULE MCScheduleExecution -------------------------
(* Every algorithm on a few ranks; two groups at most in the passing run. *)
EXTENDS ScheduleExecution
=============================================================================
