------------------------------- MODULE MCHeap -------------------------------
(* A small kernel heap for TLC. *)
EXTENDS Heap
CONSTANTS kmain, t1, d16, d32
MCPerArena == [d \in Descs |-> IF d = d16 THEN 2 ELSE 1]
=============================================================================
