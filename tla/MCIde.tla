------------------------------- MODULE MCIde -------------------------------
(* Small channels for TLC. *)
EXTENDS Ide
CONSTANTS kmain, kidle, t1, clock, a, b
MCPrio == [t \in Threads |-> 0]
Ask(d, l, n, c) == [dev |-> d, lba |-> l, cnt |-> n, data |-> c]
MCRequests == {Ask(0, 0, 2, None), Ask(0, 1, 1, b), Ask(1, 0, 1, a)}
MCStarted == <<kidle, t1>>
=============================================================================
