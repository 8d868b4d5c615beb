----------------------------- MODULE MCIoqueue -----------------------------
(* Small instances of Ioqueue for TLC. *)
EXTENDS Ioqueue
CONSTANTS kmain, kidle, t1, t2, qlock, kbd, a, b
MCPrio == [t \in Threads |-> 0]
MCStarted1 == <<kidle, t1>>
MCStarted2 == <<kidle, t1, t2>>
MCUses == {{kmain, kbd}, {kmain, t1, kbd}, {kmain, t2, kbd}, {kmain, t1, t2}}
MCUsesBoth == {{kmain, t1}}
=============================================================================
