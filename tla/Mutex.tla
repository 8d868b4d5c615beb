------------------------------- MODULE Mutex -------------------------------
(***************************************************************************)
(* What struct lock of thread/sync.h promises: a lock has at most one      *)
(* owner, which may take it again; only the owner releases it, and it is   *)
(* free once it has been released as often as it was taken.                *)
(***************************************************************************)
EXTENDS Naturals

CONSTANTS Threads, Locks, Null

VARIABLES
  owner,  \* the thread that owns a lock, or Null
  depth   \* how often the owner took it

Init ==
  /\ owner = [l \in Locks |-> Null]
  /\ depth = [l \in Locks |-> 0]

Acquire(t, l) ==
  /\ owner[l] = Null
  /\ owner' = [owner EXCEPT ![l] = t]
  /\ depth' = [depth EXCEPT ![l] = 1]

Reacquire(t, l) ==
  /\ owner[l] = t
  /\ depth' = [depth EXCEPT ![l] = @ + 1]
  /\ UNCHANGED owner

Release(t, l) ==
  /\ owner[l] = t
  /\ depth' = [depth EXCEPT ![l] = @ - 1]
  /\ owner' = IF depth[l] = 1 THEN [owner EXCEPT ![l] = Null] ELSE owner

Next ==
  \E t \in Threads, l \in Locks : Acquire(t, l) \/ Reacquire(t, l) \/ Release(t, l)

Spec == Init /\ [][Next]_<<owner, depth>>
=============================================================================
