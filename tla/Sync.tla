-------------------------------- MODULE Sync --------------------------------
(***************************************************************************)
(* The semaphores and locks of thread/sync.c as steps of the running       *)
(* thread.  sema_down and sema_up run with interrupts off; the rest of     *)
(* lock_acquire and lock_release runs with the caller's flag, so a thread  *)
(* can be preempted between any two of their writes.                       *)
(*                                                                         *)
(*   lock_acquire:  "out" -> down -> test (loop) -> own -> count -> "out"  *)
(*   lock_release:  "out" -> zero -> up -> "out"                           *)
(***************************************************************************)
EXTENDS Thread

CONSTANTS
  Locks,   \* the struct locks
  Null,    \* the NULL holder
  Started  \* the order in which main started the other threads

ASSUME SyncAssumption ==
  /\ Null \notin Threads
  /\ Started \in Seq(Threads)
  /\ \A i, j \in DOMAIN Started : Started[i] = Started[j] => i = j
  /\ ToSet(Started) = Threads \ {Main}

VARIABLES
  value,    \* semaphore.value
  waiters,  \* semaphore.waiters
  holder,   \* lock.holder
  repeat,   \* lock.holder_repeat_nr
  lk,       \* the lock a thread's call is about
  old       \* old_status of a thread's sema_down

svars == <<value, waiters, holder, repeat, lk, old>>

SyncPC == {"out", "down", "test", "own", "count", "zero", "up"}

SyncTypeOK ==
  /\ value \in [Locks -> {0, 1}]
  /\ waiters \in [Locks -> Seq(Threads)]
  /\ holder \in [Locks -> Threads \cup {Null}]
  /\ repeat \in [Locks -> Nat]
  /\ lk \in [Threads -> Locks]
  /\ old \in [Threads -> BOOLEAN]

(* lock_init on every lock. *)
SyncInit ==
  /\ value = [l \in Locks |-> 1]
  /\ waiters = [l \in Locks |-> <<>>]
  /\ holder = [l \in Locks |-> Null]
  /\ repeat = [l \in Locks |-> 0]
  /\ lk \in [Threads -> Locks]
  /\ old = [t \in Threads |-> TRUE]

(* main has started every thread and enabled interrupts. *)
SystemUp ==
  /\ SyncInit
  /\ cur = Main
  /\ status = [t \in Threads |-> IF t = Main THEN "RUNNING" ELSE "READY"]
  /\ ready = Started
  /\ slice = Prio
  /\ intr = TRUE
  /\ saved = [t \in Threads |-> TRUE]
  /\ panicked = FALSE
  /\ pc = [t \in Threads |-> IF t = Idle THEN "loop" ELSE "out"]

(* lock_acquire(l): taking a lock again only counts. *)
lock_acquire(l) ==
  /\ At("out")
  /\ lk' = [lk EXCEPT ![cur] = l]
  /\ IF holder[l] = cur
     THEN repeat' = [repeat EXCEPT ![l] = @ + 1] /\ UNCHANGED pc
     ELSE Goto("down") /\ UNCHANGED repeat
  /\ UNCHANGED <<tvars, value, waiters, holder, old>>

(* sema_down: intr_disable. *)
sema_down ==
  /\ At("down")
  /\ old' = [old EXCEPT ![cur] = intr]
  /\ intr_disable
  /\ Goto("test")
  /\ UNCHANGED <<value, waiters, holder, repeat, lk>>

(* sema_down: one turn of the while loop, or the way out of it. *)
sema_down_loop_If ==  \* mutant: if instead of while, the woken thread does not test again
  LET l == lk[cur] IN
  /\ At("test")
  /\ \/ /\ value[l] = 0
        /\ thread_block("BLOCKED", elem_find(waiters[l], cur))
        /\ waiters' = [waiters EXCEPT ![l] = Append(@, cur)]
        /\ Goto("own")
        /\ UNCHANGED value
     \/ /\ value[l] # 0
        /\ value' = [value EXCEPT ![l] = @ - 1]
        /\ intr' = old[cur]
        /\ Goto("own")
        /\ UNCHANGED <<waiters, cur, status, ready, slice, saved, panicked>>
  /\ UNCHANGED <<holder, repeat, lk, old>>
sema_down_loop ==
  LET l == lk[cur] IN
  /\ At("test")
  /\ \/ /\ value[l] = 0
        /\ thread_block("BLOCKED", elem_find(waiters[l], cur))
        /\ waiters' = [waiters EXCEPT ![l] = Append(@, cur)]
        /\ UNCHANGED <<value, pc>>
     \/ /\ value[l] # 0
        /\ value' = [value EXCEPT ![l] = @ - 1]
        /\ panicked' = (value[l] # 1)
        /\ intr' = old[cur]
        /\ Goto("own")
        /\ UNCHANGED <<waiters, cur, status, ready, slice, saved>>
  /\ UNCHANGED <<holder, repeat, lk, old>>

lock_acquire_own ==
  /\ At("own")
  /\ holder' = [holder EXCEPT ![lk[cur]] = cur]
  /\ Goto("count")
  /\ UNCHANGED <<tvars, value, waiters, repeat, lk, old>>

lock_acquire_count ==
  /\ At("count")
  /\ panicked' = (repeat[lk[cur]] # 0)
  /\ repeat' = [repeat EXCEPT ![lk[cur]] = 1]
  /\ Goto("out")
  /\ UNCHANGED <<cur, status, ready, slice, intr, saved, value, waiters, holder, lk, old>>

(* lock_release(l), up to holder = NULL. *)
lock_release_NoNesting(l) ==  \* mutant: the counter is not looked at
  /\ At("out")
  /\ lk' = [lk EXCEPT ![cur] = l]
  /\ panicked' = (holder[l] # cur \/ repeat[l] # 1)
  /\ holder' = [holder EXCEPT ![l] = Null]
  /\ Goto("zero")
  /\ UNCHANGED <<cur, status, ready, slice, intr, saved, value, waiters, repeat, old>>
lock_release(l) ==
  /\ At("out")
  /\ lk' = [lk EXCEPT ![cur] = l]
  /\ IF repeat[l] > 1
     THEN /\ repeat' = [repeat EXCEPT ![l] = @ - 1]
          /\ panicked' = (holder[l] # cur)
          /\ UNCHANGED <<holder, pc>>
     ELSE /\ panicked' = (holder[l] # cur \/ repeat[l] # 1)
          /\ holder' = [holder EXCEPT ![l] = Null]
          /\ Goto("zero")
          /\ UNCHANGED repeat
  /\ UNCHANGED <<cur, status, ready, slice, intr, saved, value, waiters, old>>

lock_release_zero_NoReset ==  \* mutant: holder_repeat_nr keeps its value
  At("zero") /\ Goto("up") /\ UNCHANGED <<tvars, svars>>
lock_release_zero ==
  /\ At("zero")
  /\ repeat' = [repeat EXCEPT ![lk[cur]] = 0]
  /\ Goto("up")
  /\ UNCHANGED <<tvars, value, waiters, holder, lk, old>>

(* sema_up: wakes the first waiter, which will test the value again. *)
sema_up_NoWake ==  \* mutant: the waiters are forgotten
  /\ At("up")
  /\ value' = [value EXCEPT ![lk[cur]] = @ + 1]
  /\ Goto("out")
  /\ UNCHANGED <<tvars, waiters, holder, repeat, lk, old>>
sema_up_NoPop ==   \* mutant: the waiter is woken and left on the list
  LET l == lk[cur] IN
  /\ At("up")
  /\ IF waiters[l] = <<>> THEN UNCHANGED tvars ELSE thread_unblock(Head(waiters[l]), FALSE)
  /\ value' = [value EXCEPT ![l] = @ + 1]
  /\ Goto("out")
  /\ UNCHANGED <<waiters, holder, repeat, lk, old>>
sema_up_HandOff == \* mutant: no increment when a waiter is woken
  LET l == lk[cur] IN
  /\ At("up")
  /\ IF waiters[l] = <<>>
     THEN value' = [value EXCEPT ![l] = @ + 1] /\ UNCHANGED <<tvars, waiters>>
     ELSE /\ thread_unblock(Head(waiters[l]), FALSE)
          /\ waiters' = [waiters EXCEPT ![l] = Tail(@)]
          /\ UNCHANGED value
  /\ Goto("out")
  /\ UNCHANGED <<holder, repeat, lk, old>>
sema_up ==
  LET l == lk[cur] IN
  /\ At("up")
  /\ IF waiters[l] = <<>>
     THEN /\ panicked' = (value[l] # 0)
          /\ UNCHANGED <<waiters, cur, status, ready, slice, intr, saved>>
     ELSE /\ thread_unblock(Head(waiters[l]), value[l] # 0)
          /\ waiters' = [waiters EXCEPT ![l] = Tail(@)]
  /\ value' = [value EXCEPT ![l] = @ + 1]
  /\ Goto("out")
  /\ UNCHANGED <<holder, repeat, lk, old>>

LockStep ==
  \/ sema_down \/ sema_down_loop \/ lock_acquire_own \/ lock_acquire_count
  \/ lock_release_zero \/ sema_up

(* t owns l from the decrement of the semaphore to its increment. *)
Owns(t, l) ==
  \/ holder[l] = t
  \/ lk[t] = l /\ pc[t] \in {"own", "count", "zero", "up"}

-----------------------------------------------------------------------------

(* lock_acquire/lock_release: a lock has one owner at a time.              *)
MutualExclusion ==
  \A l \in Locks : \A t, u \in Threads : Owns(t, l) /\ Owns(u, l) => t = u

(* The semaphore, the holder and the counter of a lock agree, in every     *)
(* window between the writes of lock_acquire and lock_release.             *)
LockFieldsAgree ==
  \A l \in Locks :
    /\ value[l] = 1 <=> \A t \in Threads : ~Owns(t, l)
    /\ holder[l] = Null /\ value[l] = 1 => repeat[l] = 0
    /\ \A t \in Threads :
         holder[l] = t => IF pc[t] = "count" /\ lk[t] = l THEN repeat[l] = 0
                                                          ELSE repeat[l] > 0

(* sema_down/sema_up: nobody sleeps on a free lock unless a thread that    *)
(* was woken for it is on its way to test the value.                       *)
NoLostWakeup ==
  \A l \in Locks :
    value[l] = 1 /\ waiters[l] # <<>> =>
      \E t \in Threads : pc[t] = "test" /\ lk[t] = l /\ status[t] \in {"READY", "RUNNING"}

(* general_tag is the one list node of a PCB for the ready list and for    *)
(* every waiters list: a thread is on one of them, once, and it is on a    *)
(* waiters list exactly while sema_down has it blocked there.              *)
OneListPerTag ==
  \A t \in Threads :
    /\ \A l \in Locks :
         /\ elem_find(waiters[l], t) <=> status[t] = "BLOCKED" /\ pc[t] = "test" /\ lk[t] = l
         /\ \A i, j \in DOMAIN waiters[l] : waiters[l][i] = waiters[l][j] => i = j
    /\ elem_find(ready, t) <=> status[t] = "READY"
=============================================================================
