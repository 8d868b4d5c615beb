-------------------------------- MODULE Fifo --------------------------------
(***************************************************************************)
(* What struct ioqueue of device/ioqueue.h promises: a queue of at most    *)
(* Capacity characters, each of which one reader gets, in the order they   *)
(* were put there.                                                         *)
(***************************************************************************)
EXTENDS Naturals, Sequences

CONSTANTS
  Chars,     \* the characters
  Readers,   \* the threads that read
  Capacity   \* bufsize - 1

VARIABLES
  queue,  \* what is in the buffer
  got     \* the last character each reader was given

Init ==
  /\ queue = <<>>
  /\ got \in [Readers -> Chars]

Put(c) ==
  /\ Len(queue) < Capacity
  /\ queue' = Append(queue, c)
  /\ UNCHANGED got

Get(t) ==
  /\ queue # <<>>
  /\ got' = [got EXCEPT ![t] = Head(queue)]
  /\ queue' = Tail(queue)

Next == (\E c \in Chars : Put(c)) \/ (\E t \in Readers : Get(t))

Spec == Init /\ [][Next]_<<queue, got>>
=============================================================================
