----------------------------- MODULE MCProcess -----------------------------
(* A small instance of Process, and of the Scheduler in it, for TLC. *)
EXTENDS Process
CONSTANTS kmain, kidle, t1, t2
MCPrio == [t \in Threads |-> IF t = Main THEN 1 ELSE 0]
=============================================================================
