------------------------------- MODULE MCPids -------------------------------
(* Small instances of Locking, with the callers of allocate_pid, for TLC. *)
EXTENDS Pids
CONSTANTS kmain, kidle, t1, t2
MCPrio0 == [t \in Threads |-> 0]
MCStarted2 == <<kidle, t1, t2>>
MCRounds == [t \in Threads |-> IF t = Main THEN 2 ELSE 1]
=============================================================================
