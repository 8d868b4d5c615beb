---------------------------- MODULE MCScheduler ----------------------------
(* Small instances of Scheduler for TLC. *)
EXTENDS Scheduler
CONSTANTS kmain, kidle, t1, t2
MCPrio == [t \in Threads |-> IF t = Main THEN 1 ELSE 0]
=============================================================================
