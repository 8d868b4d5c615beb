------------------------------ MODULE Locking ------------------------------
(***************************************************************************)
(* Threads that take and release the locks of Sync under the scheduler of  *)
(* Thread, preempted by the clock wherever interrupts are on.  A thread    *)
(* takes a new lock only above the ones it holds, as the kernel's nested   *)
(* acquisitions do, and acquires at most Rounds[t] times.                  *)
(***************************************************************************)
EXTENDS Sync

CONSTANTS
  MaxDepth,  \* bound on holder_repeat_nr
  Rounds     \* bound on each thread's calls of lock_acquire

ASSUME LockingAssumption ==
  /\ Locks \subseteq Nat
  /\ MaxDepth \in Nat /\ Rounds \in [Threads -> Nat]

VARIABLE rounds  \* how many acquisitions a thread has left

vars == <<tvars, pc, svars, rounds>>

TypeOK ==
  /\ ThreadTypeOK
  /\ SyncTypeOK
  /\ pc \in [Threads -> SyncPC \cup IdlePC]
  /\ rounds \in [Threads -> Nat]

Init == SystemUp /\ rounds = Rounds

Held == {l \in Locks : holder[l] = cur}

Acquire ==
  /\ rounds[cur] > 0 /\ rounds' = [rounds EXCEPT ![cur] = @ - 1]
  /\ \E l \in Locks :
       /\ IF l \in Held THEN repeat[l] < MaxDepth ELSE \A k \in Held : k < l
       /\ lock_acquire(l)

Start == Held = {} /\ Acquire

Release == (\E l \in Held : lock_release(l)) /\ UNCHANGED rounds

Operate == LockStep /\ UNCHANGED rounds

Interrupt == TimerTick /\ UNCHANGED <<svars, rounds>>

idle == IdleStep /\ UNCHANGED <<svars, rounds>>

Next == Acquire \/ Release \/ Operate \/ Interrupt \/ idle

Spec == Init /\ [][Next]_vars

-----------------------------------------------------------------------------

(* The lock refines Mutex: it changes hands at the semaphore's decrement   *)
(* and increment.                                                          *)
owner == [l \in Locks |-> IF \E t \in Threads : Owns(t, l)
                          THEN CHOOSE t \in Threads : Owns(t, l) ELSE Null]
depth == [l \in Locks |-> CASE value[l] = 1 -> 0
                            [] value[l] = 0 /\ repeat[l] = 0 -> 1
                            [] OTHER -> repeat[l]]

M == INSTANCE Mutex WITH owner <- owner, depth <- depth

(* struct lock implements the reentrant lock of Mutex. *)
ImplementsMutex == M!Spec

(* sema_up wakes one waiter and lets others overtake it; still every       *)
(* thread gets the locks it asks for, if those who hold them let go.       *)
EveryoneServed == <>[](\A t \in Threads \ {Idle} : rounds[t] = 0 /\ pc[t] = "out"
                         /\ \A l \in Locks : holder[l] # t)
=============================================================================
