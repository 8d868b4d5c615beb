--------------------------- MODULE LockingProofs ---------------------------
(***************************************************************************)
(* The properties of the locks of sync.c for any number of threads and     *)
(* locks, any nesting and any preemption, and of allocate_pid among the    *)
(* users of the locks.  SyncLemmas has what each step of sync.c keeps;     *)
(* here the client respects that only the holder releases a lock.          *)
(***************************************************************************)
EXTENDS Pids, SyncLemmas

IInv == LockInv /\ WaitInv /\ AllListed /\ rounds \in [Threads -> Nat]

LEMMA InvFacts == ASSUME IInv PROVE Typed /\ SyncTypes
BY TypeFacts DEF IInv, LockInv

LEMMA InitSound == Init => IInv
BY SystemUpSound, LockingAssumption DEF Init, IInv

(* The invariant the theorems rest on.                                     *)
LEMMA NextPreserves == IInv /\ [Next]_vars => IInv'
<1> SUFFICES ASSUME IInv, [Next]_vars PROVE IInv'
  OBVIOUS
<1>1. CASE Acquire
  <2>1. LockInv' /\ WaitInv' /\ AllListed'
    BY <1>1, AcquireKeepsLocks, AcquireKeepsWaits DEF Acquire, IInv
  <2>2. rounds' \in [Threads -> Nat]
    <3>1. cur \in Threads /\ rounds[cur] \in Nat
      BY InvFacts DEF Typed, IInv
    <3>2. rounds[cur] > 0 => rounds[cur] - 1 \in Nat
      BY <3>1
    <3> QED
      BY <1>1, <3>2 DEF Acquire, IInv
  <2> QED
    BY <2>1, <2>2 DEF IInv
<1>2. CASE Release
  <2>1. LockInv' /\ WaitInv' /\ AllListed'
    BY <1>2, ReleaseKeepsLocks, ReleaseKeepsWaits DEF Release, Held, IInv
  <2> QED
    BY <1>2, <2>1 DEF IInv, Release
<1>3. CASE Operate
  BY <1>3, StepKeepsWaits DEF Operate, IInv
<1>4. CASE Interrupt \/ idle
  BY <1>4, MachineKeepsAll DEF Interrupt, idle, IInv
<1>5. CASE UNCHANGED vars
  <2>1. UNCHANGED svars /\ UNCHANGED tvars /\ UNCHANGED pc /\ UNCHANGED rounds
    BY <1>5 DEF vars
  <2>2. RunSound' /\ AllListed'
    BY <2>1 DEF tvars, IInv, WaitInv, RunSound, ThreadTypeOK, RunQueue, IdleReady, AllListed
  <2>3. WaitInv'
    BY <2>1, <2>2, ElsewhereKeepsWaits DEF IInv, LockInv, PcElsewhere, tvars
  <2>4. LockInv'
    BY <2>1, <2>2, ElsewhereKeepsLocks DEF IInv, RunSound, PcElsewhere
  <2> QED
    BY <2>1, <2>2, <2>3, <2>4 DEF IInv
<1> QED
  BY <1>1, <1>2, <1>3, <1>4, <1>5 DEF Next

LEMMA Inductive == Spec => []IInv
BY NextPreserves, InitSound, PTL DEF Spec

-----------------------------------------------------------------------------

(* Every state has its type; the semaphores of locks stay binary.          *)
THEOREM LockTypeCorrect == Spec => []TypeOK
<1>1. IInv => TypeOK
  BY DEF IInv, LockInv, SyncTypes, TypeOK
<1> QED
  BY <1>1, Inductive, PTL

(* sema_down's while, sema_up: at most one thread is between the decrement *)
(* of a lock's semaphore and its increment.                                *)
THEOREM LocksExclude == Spec => []MutualExclusion
<1>1. IInv => MutualExclusion
  BY DEF IInv, LockInv, LockSound, MutualExclusion
<1> QED
  BY <1>1, Inductive, PTL

(* lock_acquire, lock_release: semaphore, holder and holder_repeat_nr      *)
(* agree in every window between their writes.                             *)
THEOREM LockFieldsConsistent == Spec => []LockFieldsAgree
<1>1. IInv => LockFieldsAgree
  <2> SUFFICES ASSUME IInv, NEW l \in Locks
      PROVE  /\ value[l] = 1 <=> \A t \in Threads : ~Owns(t, l)
             /\ holder[l] = Null /\ value[l] = 1 => repeat[l] = 0
             /\ \A t \in Threads :
                  holder[l] = t => IF pc[t] = "count" /\ lk[t] = l THEN repeat[l] = 0
                                                                   ELSE repeat[l] > 0
    BY DEF LockFieldsAgree
  <2>1. LockSound(l) /\ value[l] \in {0, 1}
    BY DEF IInv, LockInv, SyncTypes, SyncTypeOK
  <2> QED
    BY <2>1 DEF LockSound
<1> QED
  BY <1>1, Inductive, PTL

(* sync.c and thread.c: no ASSERT fails, so semaphores stay binary, no node *)
(* is inserted twice and only blocked threads are woken.                   *)
THEOREM LocksNeverPanic == Spec => []NoPanic
<1>1. IInv => NoPanic
  BY WaitProperties DEF IInv
<1> QED
  BY <1>1, Inductive, PTL

(* sema_down, sema_up: general_tag is on one list at a time, a waiters     *)
(* list exactly while its thread sleeps there.                             *)
THEOREM TagsOnOneList == Spec => []OneListPerTag
<1>1. IInv => OneListPerTag
  BY WaitProperties DEF IInv
<1> QED
  BY <1>1, Inductive, PTL

(* sema_down, sema_up: a free lock with sleepers has a woken thread on its *)
(* way to test the semaphore.                                              *)
THEOREM WakeupsNotLost == Spec => []NoLostWakeup
<1>1. IInv => NoLostWakeup
  BY WaitProperties DEF IInv
<1> QED
  BY <1>1, Inductive, PTL

-----------------------------------------------------------------------------

(* The value the refinement mapping gives the variables of Mutex.          *)
Mapped ==
  /\ owner \in [Locks -> Threads \cup {Null}] /\ depth \in [Locks -> Nat]
  /\ \A l \in Locks :
       /\ \A t \in Threads : Owns(t, l) => owner[l] = t
       /\ (\A t \in Threads : ~Owns(t, l)) => owner[l] = Null
       /\ value[l] = 1 => depth[l] = 0
       /\ value[l] = 0 => depth[l] = (IF repeat[l] = 0 THEN 1 ELSE repeat[l])
LEMMA Mapping == IInv => Mapped
<1> SUFFICES ASSUME IInv PROVE Mapped
  OBVIOUS
<1>0. Typed
  BY InvFacts
<1> USE <1>0 DEF Typed
<1>1. ASSUME NEW l \in Locks
      PROVE  /\ owner[l] \in Threads \cup {Null}
             /\ \A t \in Threads : Owns(t, l) => owner[l] = t
             /\ (\A t \in Threads : ~Owns(t, l)) => owner[l] = Null
  BY DEF IInv, LockInv, LockSound, owner
<1>2. ASSUME NEW l \in Locks
      PROVE  /\ depth[l] \in Nat
             /\ value[l] = 1 => depth[l] = 0
             /\ value[l] = 0 => depth[l] = (IF repeat[l] = 0 THEN 1 ELSE repeat[l])
  BY DEF depth
<1>3. owner \in [Locks -> Threads \cup {Null}] /\ depth \in [Locks -> Nat]
  BY <1>1, <1>2 DEF owner, depth
<1> QED
  BY <1>1, <1>2, <1>3 DEF Mapped

(* A step that neither moves a lock nor counts is a stutter of Mutex.      *)
LEMMA Stutters ==
  ASSUME IInv, Mapped, Mapped', UNCHANGED value,
         \A l \in Locks : \A t \in Threads : Owns(t, l)' <=> Owns(t, l),
         \A l \in Locks : value[l] = 0 =>
            (IF repeat'[l] = 0 THEN 1 ELSE repeat'[l]) = (IF repeat[l] = 0 THEN 1 ELSE repeat[l])
  PROVE  UNCHANGED <<owner, depth>>
<1>1. ASSUME NEW l \in Locks PROVE owner'[l] = owner[l] /\ depth'[l] = depth[l]
  <2>1. value[l] \in {0, 1}
    BY InvFacts DEF Typed
  <2>2. depth'[l] = depth[l]
    BY <2>1 DEF Mapped
  <2>3. owner'[l] = owner[l]
    BY DEF Mapped
  <2> QED
    BY <2>2, <2>3
<1>2. /\ owner \in [Locks -> Threads \cup {Null}] /\ owner' \in [Locks -> Threads \cup {Null}]
      /\ depth \in [Locks -> Nat] /\ depth' \in [Locks -> Nat]
  BY DEF Mapped
<1> QED
  BY <1>1, <1>2

(* The owners are those they were if each lock's is.                       *)
LEMMA SameOwner ==
  ASSUME Mapped, Mapped', \A l \in Locks : owner'[l] = owner[l]
  PROVE  owner' = owner
<1>1. owner \in [Locks -> Threads \cup {Null}] /\ owner' \in [Locks -> Threads \cup {Null}]
  BY DEF Mapped
<1> QED
  BY <1>1

(* Every step of lock_acquire, lock_release, sema_down and sema_up is a    *)
(* step of Mutex or a stutter.                                             *)
LEMMA StepRefines ==
  ASSUME IInv, Mapped, Mapped', [Next]_vars PROVE [M!Next]_<<owner, depth>>
<1> USE ThreadAssumption, SyncAssumption, LockingAssumption
<1>0. Typed
  BY InvFacts
<1> USE <1>0 DEF Typed
<1>1. CASE Acquire
  <2>1. PICK l \in Locks : lock_acquire(l)
    BY <1>1 DEF Acquire
  <2>2. /\ pc[cur] = "out" /\ lk' = [lk EXCEPT ![cur] = l]
        /\ UNCHANGED <<value, holder>>
    BY <2>1 DEF lock_acquire, At
  <2>3. pc' = pc \/ pc' = [pc EXCEPT ![cur] = "down"]
    BY <2>1 DEF lock_acquire, Goto
  <2>4. \A k \in Locks : \A t \in Threads : Owns(t, k)' <=> Owns(t, k)
    BY <2>2, <2>3 DEF Owns
  <2>5. CASE holder[l] = cur
    <3>1. repeat' = [repeat EXCEPT ![l] = @ + 1]
      BY <2>1, <2>5 DEF lock_acquire
    <3>2. Owns(cur, l) /\ value[l] = 0 /\ repeat[l] > 0
      BY <2>2, <2>5 DEF Owns, IInv, LockInv, LockSound
    <3>3. owner[l] = cur /\ depth[l] = repeat[l] /\ depth'[l] = repeat[l] + 1
      BY <2>2, <3>1, <3>2 DEF Mapped
    <3>4. \A k \in Locks : owner'[k] = owner[k] /\ (k # l => depth'[k] = depth[k])
      <4> TAKE k \in Locks
      <4>1. value[k] \in {0, 1}
        OBVIOUS
      <4> QED
        BY <2>2, <2>4, <3>1, <4>1 DEF Mapped
    <3>5. owner' = owner /\ depth' = [depth EXCEPT ![l] = @ + 1]
      <4>1. /\ owner \in [Locks -> Threads \cup {Null}] /\ owner' \in [Locks -> Threads \cup {Null}]
            /\ depth \in [Locks -> Nat] /\ depth' \in [Locks -> Nat]
        BY DEF Mapped
      <4>2. depth'[l] = depth[l] + 1
        BY <3>3
      <4>3. owner' = owner
        <5>1. \A k \in Locks : owner'[k] = owner[k]
          BY <3>4
        <5> QED
          BY <5>1, SameOwner
      <4>4. depth' = [depth EXCEPT ![l] = depth'[l]]
        BY <3>4, <4>1
      <4> QED
        BY <4>2, <4>3, <4>4, Zenon
    <3> QED
      BY <3>3, <3>5 DEF M!Next, M!Reacquire
  <2>6. CASE holder[l] # cur
    <3>1. repeat' = repeat
      BY <2>1, <2>6 DEF lock_acquire
    <3> QED
      BY <2>2, <2>4, <3>1, Stutters
  <2> QED
    BY <2>5, <2>6
<1>2. CASE Release
  <2>1. PICK l \in Locks : holder[l] = cur /\ lock_release(l)
    BY <1>2 DEF Release, Held
  <2>2. /\ pc[cur] = "out" /\ lk' = [lk EXCEPT ![cur] = l] /\ value' = value
    BY <2>1 DEF lock_release, At
  <2>3. Owns(cur, l) /\ value[l] = 0 /\ repeat[l] > 0
    BY <2>1, <2>2 DEF Owns, IInv, LockInv, LockSound
  <2>4. CASE repeat[l] > 1
    <3>1. repeat' = [repeat EXCEPT ![l] = @ - 1] /\ UNCHANGED <<holder, pc>>
      BY <2>1, <2>4 DEF lock_release
    <3>2. \A k \in Locks : \A t \in Threads : Owns(t, k)' <=> Owns(t, k)
      BY <2>2, <3>1 DEF Owns
    <3>3. owner[l] = cur /\ depth[l] = repeat[l] /\ depth'[l] = repeat[l] - 1 /\ depth[l] # 1
      BY <2>2, <2>3, <2>4, <3>1 DEF Mapped
    <3>4. \A k \in Locks : owner'[k] = owner[k] /\ (k # l => depth'[k] = depth[k])
      <4> TAKE k \in Locks
      <4>1. value[k] \in {0, 1}
        OBVIOUS
      <4> QED
        BY <2>2, <3>1, <3>2, <4>1 DEF Mapped
    <3>5. owner' = owner /\ depth' = [depth EXCEPT ![l] = @ - 1]
      <4>1. /\ owner \in [Locks -> Threads \cup {Null}] /\ owner' \in [Locks -> Threads \cup {Null}]
            /\ depth \in [Locks -> Nat] /\ depth' \in [Locks -> Nat]
        BY DEF Mapped
      <4>2. depth'[l] = depth[l] - 1
        BY <3>3
      <4>3. owner' = owner
        <5>1. \A k \in Locks : owner'[k] = owner[k]
          BY <3>4
        <5> QED
          BY <5>1, SameOwner
      <4>4. depth' = [depth EXCEPT ![l] = depth'[l]]
        BY <3>4, <4>1
      <4> QED
        BY <4>2, <4>3, <4>4, Zenon
    <3> QED
      BY <3>3, <3>5 DEF M!Next, M!Release
  <2>5. CASE ~(repeat[l] > 1)
    <3>1. /\ holder' = [holder EXCEPT ![l] = Null] /\ pc' = [pc EXCEPT ![cur] = "zero"]
          /\ repeat' = repeat
      BY <2>1, <2>5 DEF lock_release, Goto
    <3>2. ASSUME NEW k \in Locks PROVE \A t \in Threads : Owns(t, k)' <=> Owns(t, k)
      <4>1. CASE k = l
        <5>1. \A t \in Threads : Owns(t, l) <=> t = cur
          BY <2>3 DEF IInv, LockInv, LockSound
        <5>2. \A t \in Threads : Owns(t, l)' <=> t = cur
          BY <2>2, <3>1, <5>1 DEF Owns
        <5> QED
          BY <4>1, <5>1, <5>2
      <4>2. CASE k # l
        BY <2>2, <3>1, <4>2 DEF Owns
      <4> QED
        BY <4>1, <4>2
    <3> QED
      BY <2>2, <3>1, <3>2, Stutters
  <2> QED
    BY <2>4, <2>5
<1> DEFINE l == lk[cur]
<1>3. CASE sema_down \/ (sema_down_loop /\ value[l] = 0)
  <2>1. UNCHANGED <<value, holder, repeat, lk>>
    BY <1>3 DEF sema_down, sema_down_loop
  <2>2. pc' = pc \/ (pc[cur] = "down" /\ pc' = [pc EXCEPT ![cur] = "test"])
    BY <1>3 DEF sema_down, sema_down_loop, At, Goto
  <2>3. \A k \in Locks : \A t \in Threads : Owns(t, k)' <=> Owns(t, k)
    BY <2>1, <2>2 DEF Owns
  <2> QED
    BY <2>1, <2>3, Stutters
<1>4. CASE sema_down_loop /\ value[l] # 0
  <2>0. PICK t \in Threads, k \in Locks : t = cur /\ k = lk[cur]
    OBVIOUS
  <2>1. /\ pc[t] = "test" /\ pc' = [pc EXCEPT ![t] = "own"]
        /\ value[k] = 1 /\ value' = [value EXCEPT ![k] = 0] /\ lk[t] = k
        /\ UNCHANGED <<holder, repeat, lk>>
    <3>1. value[k] = 1
      BY <1>4, <2>0
    <3>2. /\ pc[cur] = "test" /\ pc' = [pc EXCEPT ![cur] = "own"]
          /\ value' = [value EXCEPT ![l] = value[l] - 1]
          /\ UNCHANGED <<holder, repeat, lk>>
      BY <1>4 DEF sema_down_loop, At, Goto
    <3>3. value' = [value EXCEPT ![k] = 0]
      BY <2>0, <3>1, <3>2
    <3> QED
      BY <2>0, <3>1, <3>2, <3>3
  <2>2. repeat[k] = 0 /\ \A u \in Threads : ~Owns(u, k)
    BY <2>1 DEF IInv, LockInv, LockSound
  <2>3. Owns(t, k)'
    BY <2>1 DEF Owns
  <2>4. \A x \in Locks \ {k} : \A u \in Threads : Owns(u, x)' <=> Owns(u, x)
    BY <2>1 DEF Owns
  <2>5. owner[k] = Null /\ owner'[k] = t /\ depth'[k] = 1
    <3>1. value'[k] = 0 /\ repeat'[k] = 0
      BY <2>1, <2>2
    <3>2. owner[k] = Null
      BY <2>2 DEF Mapped
    <3>3. owner'[k] = t
      BY <2>3 DEF Mapped
    <3>4. depth'[k] = 1
      BY <3>1 DEF Mapped
    <3> QED
      BY <3>2, <3>3, <3>4
  <2>6. ASSUME NEW x \in Locks \ {k} PROVE owner'[x] = owner[x] /\ depth'[x] = depth[x]
    <3>1. value[x] \in {0, 1} /\ value'[x] = value[x] /\ repeat'[x] = repeat[x]
      BY <2>1
    <3>2. owner'[x] = owner[x]
      BY <2>4 DEF Mapped
    <3>3. depth'[x] = depth[x]
      BY <3>1 DEF Mapped
    <3> QED
      BY <3>2, <3>3
  <2>7. owner' = [owner EXCEPT ![k] = t] /\ depth' = [depth EXCEPT ![k] = 1]
    <3>1. /\ owner \in [Locks -> Threads \cup {Null}] /\ owner' \in [Locks -> Threads \cup {Null}]
          /\ depth \in [Locks -> Nat] /\ depth' \in [Locks -> Nat]
      BY DEF Mapped
    <3> QED
      BY <2>5, <2>6, <3>1
  <2> QED
    BY <2>5, <2>7 DEF M!Next, M!Acquire
<1>5. CASE lock_acquire_own \/ lock_acquire_count \/ lock_release_zero
  <2>1. /\ UNCHANGED <<value, lk>>
        /\ \/ pc[cur] = "own" /\ pc' = [pc EXCEPT ![cur] = "count"] /\ repeat' = repeat
              /\ holder' = [holder EXCEPT ![l] = cur]
           \/ pc[cur] = "count" /\ pc' = [pc EXCEPT ![cur] = "out"]
              /\ holder' = holder /\ repeat' = [repeat EXCEPT ![l] = 1]
           \/ pc[cur] = "zero" /\ pc' = [pc EXCEPT ![cur] = "up"]
              /\ holder' = holder /\ repeat' = [repeat EXCEPT ![l] = 0]
    BY <1>5 DEF lock_acquire_own, lock_acquire_count, lock_release_zero, At, Goto
  <2>2. LockSound(l) /\ l \in Locks
    BY DEF IInv, LockInv
  <2>3. ASSUME NEW k \in Locks PROVE \A t \in Threads : Owns(t, k)' <=> Owns(t, k)
    <3>1. CASE k = l
      BY <2>1, <2>2, <3>1 DEF LockSound, Owns
    <3>2. CASE k # l
      BY <2>1, <3>2 DEF Owns
    <3> QED
      BY <3>1, <3>2
  <2>4. \A k \in Locks : value[k] = 0 =>
          (IF repeat'[k] = 0 THEN 1 ELSE repeat'[k]) = (IF repeat[k] = 0 THEN 1 ELSE repeat[k])
    BY <2>1, <2>2 DEF LockSound
  <2> QED
    BY <2>1, <2>3, <2>4, Stutters
<1>6. CASE sema_up
  <2>0. PICK t \in Threads, k \in Locks : t = cur /\ k = lk[cur]
    OBVIOUS
  <2>1. /\ pc[t] = "up" /\ pc' = [pc EXCEPT ![t] = "out"] /\ lk[t] = k
        /\ value' = [value EXCEPT ![k] = @ + 1]
        /\ UNCHANGED <<holder, repeat, lk>>
    BY <1>6, <2>0 DEF sema_up, At, Goto
  <2>2. LockSound(k) /\ Owns(t, k)
    BY <2>1 DEF IInv, LockInv, Owns
  <2>3. value[k] = 0 /\ holder[k] = Null /\ repeat[k] = 0 /\ \A u \in Threads : Owns(u, k) <=> u = t
    BY <2>1, <2>2 DEF LockSound
  <2>4. \A u \in Threads : ~Owns(u, k)'
    BY <2>1, <2>3, SyncAssumption DEF Owns
  <2>5. \A x \in Locks \ {k} : \A u \in Threads : Owns(u, x)' <=> Owns(u, x)
    BY <2>1 DEF Owns
  <2>6. owner[k] = t /\ owner'[k] = Null /\ depth[k] = 1 /\ depth'[k] = 0
    <3>1. value'[k] = 1
      BY <2>1, <2>3
    <3>2. owner[k] = t /\ depth[k] = 1
      BY <2>2, <2>3 DEF Mapped
    <3>3. owner'[k] = Null
      BY <2>4 DEF Mapped
    <3>4. depth'[k] = 0
      BY <3>1 DEF Mapped
    <3> QED
      BY <3>2, <3>3, <3>4
  <2>7. ASSUME NEW x \in Locks \ {k} PROVE owner'[x] = owner[x] /\ depth'[x] = depth[x]
    <3>1. value[x] \in {0, 1} /\ value'[x] = value[x] /\ repeat'[x] = repeat[x]
      BY <2>1
    <3>2. owner'[x] = owner[x]
      BY <2>5 DEF Mapped
    <3>3. depth'[x] = depth[x]
      BY <3>1 DEF Mapped
    <3> QED
      BY <3>2, <3>3
  <2>8. owner' = [owner EXCEPT ![k] = Null] /\ depth' = [depth EXCEPT ![k] = @ - 1]
    <3>1. /\ owner \in [Locks -> Threads \cup {Null}] /\ owner' \in [Locks -> Threads \cup {Null}]
          /\ depth \in [Locks -> Nat] /\ depth' \in [Locks -> Nat]
      BY DEF Mapped
    <3>2. owner' = [owner EXCEPT ![k] = Null]
      BY <2>6, <2>7, <3>1
    <3>3. depth' = [depth EXCEPT ![k] = 0]
      BY <2>6, <2>7, <3>1
    <3>4. depth[k] - 1 = 0
      BY <2>6
    <3> QED
      BY <3>2, <3>3, <3>4, Zenon
  <2> QED
    BY <2>6, <2>8 DEF M!Next, M!Release
<1>7. CASE Interrupt \/ idle \/ UNCHANGED vars
  <2>1. UNCHANGED svars
    BY <1>7 DEF Interrupt, idle, vars
  <2>2. pc' = pc \/ (pc[cur] \in IdlePC /\ \E x \in IdlePC : pc' = [pc EXCEPT ![cur] = x])
    BY <1>7 DEF Interrupt, TimerTick, LeaveHlt, idle, IdleStep, idle_block, idle_hlt, At, Goto,
                IdlePC, vars
  <2>3. \A k \in Locks : \A t \in Threads : Owns(t, k)' <=> Owns(t, k)
    BY <2>1, <2>2 DEF Owns, svars, IdlePC
  <2> QED
    BY <2>1, <2>3, Stutters DEF svars
<1> QED
  BY <1>1, <1>2, <1>3, <1>4, <1>5, <1>6, <1>7 DEF Next, Operate, LockStep

(* struct lock implements Mutex: the lock changes hands at the decrement   *)
(* and the increment of the semaphore, and the counter is its depth.       *)
THEOREM LockRefinesMutex == Spec => ImplementsMutex
<1>1. Init => M!Init
  <2> SUFFICES ASSUME Init PROVE M!Init
    OBVIOUS
  <2>1. Mapped
    BY InitSound, Mapping
  <2>2. \A l \in Locks : value[l] = 1 /\ \A t \in Threads : ~Owns(t, l)
    BY SyncAssumption DEF Init, SystemUp, SyncInit, Owns
  <2>3. \A l \in Locks : owner[l] = Null /\ depth[l] = 0
    BY <2>1, <2>2 DEF Mapped
  <2> QED
    BY <2>1, <2>3 DEF Mapped, M!Init
<1>2. IInv /\ Mapped /\ Mapped' /\ [Next]_vars => [M!Next]_<<owner, depth>>
  BY StepRefines
<1> QED
  BY <1>1, <1>2, Mapping, Inductive, PTL DEF Spec, ImplementsMutex, M!Spec

-----------------------------------------------------------------------------

(* allocate_pid for any number of threads, calls and other users of the    *)
(* locks: the load and the store of next_pid++ are one step for everybody  *)
(* else, because pid_lock has one owner.                                   *)
Steps == {"none", "load", "store", "unlock", "return"}

(* A thread in lock_acquire(&pid_lock) or past it and before lock_release. *)
Locked(t) == pc[t] = "out" /\ holder[PidLock] = t
Inside(t) == lk[t] = PidLock /\ (pc[t] \in {"down", "test", "own", "count"} \/ Locked(t))

CallTypes ==
  /\ next_pid \in Nat /\ given \in SUBSET Nat
  /\ step \in [Threads -> Steps] /\ reg \in [Threads -> Nat]
  /\ before \in [Threads -> SUBSET Nat]

(* What was returned is at most next_pid, and less than next_pid for the   *)
(* calls that have incremented it.                                         *)
InsideInv == \A t \in Threads : step[t] \in {"load", "store", "unlock"} => Inside(t)
LockedInv == \A t \in Threads : step[t] \in {"store", "unlock"} => Locked(t)
RegInv    == \A t \in Threads : step[t] = "store" => reg[t] = next_pid
GivenInv  == \A p \in given : p <= next_pid
BeforeInv == \A t \in Threads : before[t] \subseteq given
NewInv    == \A t \in Threads :
               step[t] \in {"unlock", "return"} => \A p \in before[t] : p < next_pid

CallInv ==
  CallTypes /\ InsideInv /\ LockedInv /\ RegInv /\ GivenInv /\ BeforeInv /\ NewInv

PInv == IInv /\ CallInv

-----------------------------------------------------------------------------

(* A thread that is not running keeps its place and its locks.             *)
LEMMA OthersKeep ==
  ASSUME IInv, [Next]_vars
  PROVE  \A t \in Threads : t # cur =>
           /\ pc'[t] = pc[t] /\ lk'[t] = lk[t]
           /\ \A l \in Locks : holder[l] = t => holder'[l] = t
<1> USE SyncAssumption
<1> SUFFICES ASSUME NEW t \in Threads, t # cur
             PROVE  /\ pc'[t] = pc[t] /\ lk'[t] = lk[t]
                    /\ \A l \in Locks : holder[l] = t => holder'[l] = t
  OBVIOUS
<1>0. Typed
  BY InvFacts
<1> USE <1>0 DEF Typed
<1>1. CASE Acquire
  BY <1>1 DEF Acquire, lock_acquire, Goto
<1>2. CASE Release
  <2>1. PICK k \in Held : lock_release(k)
    BY <1>2 DEF Release
  <2> QED
    BY <2>1 DEF lock_release, Goto, Held
<1>3. CASE Operate
  <2>1. CASE lock_acquire_own
    <3>1. holder[lk[cur]] = Null
      BY <2>1 DEF IInv, LockInv, LockSound, lock_acquire_own, At
    <3> QED
      BY <2>1, <3>1 DEF lock_acquire_own, Goto
  <2>2. CASE sema_down \/ sema_down_loop \/ lock_acquire_count
    BY <2>2 DEF sema_down, sema_down_loop, lock_acquire_count, Goto
  <2>3. CASE lock_release_zero \/ sema_up
    BY <2>3 DEF lock_release_zero, sema_up, Goto
  <2> QED
    BY <1>3, <2>1, <2>2, <2>3 DEF Operate, LockStep
<1>4. CASE Interrupt
  BY <1>4 DEF Interrupt, TimerTick, LeaveHlt, Goto, svars
<1>5. CASE idle
  BY <1>5 DEF idle, IdleStep, idle_block, idle_hlt, Goto, svars
<1>6. CASE UNCHANGED vars
  BY <1>6 DEF vars, svars
<1> QED
  BY <1>1, <1>2, <1>3, <1>4, <1>5, <1>6 DEF Next

(* lock_acquire(&pid_lock) returns with the lock held, whatever happens.   *)
LEMMA WaitingLeadsInside ==
  ASSUME IInv, Operate \/ Interrupt \/ idle, NEW t \in Threads, t = cur, Inside(t)
  PROVE  Inside(t)' /\ (Locked(t) => Locked(t)')
<1>0. Typed
  BY InvFacts
<1> USE <1>0, PidsAssumption DEF Typed, Inside, Locked
<1>1. CASE Operate
  <2>1. CASE sema_down \/ sema_down_loop
    BY <2>1 DEF sema_down, sema_down_loop, At, Goto
  <2>2. CASE lock_acquire_own
    BY <2>2 DEF lock_acquire_own, At, Goto
  <2>3. CASE lock_acquire_count
    <3>1. holder[PidLock] = t
      BY <2>3 DEF IInv, LockInv, LockSound, lock_acquire_count, At
    <3> QED
      BY <2>3, <3>1 DEF lock_acquire_count, At, Goto
  <2>4. CASE lock_release_zero \/ sema_up
    BY <2>4 DEF lock_release_zero, sema_up, At
  <2> QED
    BY <1>1, <2>1, <2>2, <2>3, <2>4 DEF Operate, LockStep
<1>2. CASE Interrupt
  BY <1>2 DEF Interrupt, TimerTick, LeaveHlt, Goto, svars
<1>3. CASE idle
  BY <1>3 DEF idle, IdleStep, idle_block, idle_hlt, At
<1> QED
  BY <1>1, <1>2, <1>3

(* Under the invariant every step is a step of the users of the locks.     *)
LEMMA StepIsLockingStep == ASSUME PInv, [PidsNext]_avars PROVE [Next]_vars
<1>0. Typed
  BY InvFacts DEF PInv
<1>1. CASE call
  BY <1>1, PidsAssumption DEF call, Next, Acquire, Held
<1>2. CASE unlock
  <2>1. PidLock \in Held
    BY <1>0, <1>2, PidsAssumption DEF PInv, CallInv, LockedInv, Locked, unlock, InCall, Held, Typed
  <2> QED
    BY <1>2, <2>1 DEF unlock, Next, Release
<1>3. CASE load \/ store \/ return \/ UNCHANGED avars
  BY <1>3 DEF load, store, return, avars
<1>4. CASE OtherUse \/ Machine
  BY <1>4 DEF OtherUse, Machine, Next
<1> QED
  BY <1>1, <1>2, <1>3, <1>4 DEF PidsNext, allocate_pid

-----------------------------------------------------------------------------

(* The steps of other code: nobody else gets into pid_lock.                *)
LEMMA ElsewherePreserves ==
  ASSUME PInv, OtherUse \/ Machine \/ UNCHANGED avars
  PROVE  CallInv'
<1>1. [Next]_vars /\ UNCHANGED kvars
  BY StepIsLockingStep DEF PidsNext, OtherUse, Machine, avars
<1>2. \A t \in Threads : step[t] \in {"load", "store", "unlock"} =>
        Inside(t)' /\ (Locked(t) => Locked(t)')
  <2> SUFFICES ASSUME NEW t \in Threads, step[t] \in {"load", "store", "unlock"}
               PROVE  Inside(t)' /\ (Locked(t) => Locked(t)')
    OBVIOUS
  <2>1. Inside(t)
    BY DEF PInv, CallInv, InsideInv
  <2>2. CASE t # cur
    BY <1>1, <2>1, <2>2, OthersKeep, PidsAssumption DEF PInv, Inside, Locked
  <2>3. CASE t = cur /\ Machine
    BY <2>1, <2>3, WaitingLeadsInside DEF PInv, Machine
  <2>4. CASE t = cur /\ OtherUse
    BY <2>4 DEF OtherUse
  <2>5. CASE UNCHANGED avars
    BY <2>1, <2>5 DEF avars, vars, svars, Inside, Locked
  <2> QED
    BY <2>2, <2>3, <2>4, <2>5
<1> QED
  BY <1>1, <1>2 DEF PInv, CallInv, CallTypes, kvars, InsideInv, LockedInv, RegInv, GivenInv, BeforeInv, NewInv

(* The steps of allocate_pid.                                              *)
LEMMA CallPreserves == ASSUME PInv, allocate_pid PROVE CallInv'
<1> USE PidsAssumption DEF Steps
<1>0. Typed /\ CallInv /\ PidLock \in Locks
  BY InvFacts DEF PInv
<1> USE <1>0 DEF Typed, CallInv, CallTypes
<1> PICK c \in Threads : c = cur
  OBVIOUS
<1>1. \A t \in Threads : t # c =>
        /\ (Inside(t) => Inside(t)') /\ (Locked(t) => Locked(t)')
  <2>1. [Next]_vars
    BY StepIsLockingStep DEF PidsNext
  <2> QED
    BY <2>1, OthersKeep DEF PInv, Inside, Locked
<1>2. CASE call
  <2>1. /\ step' = [step EXCEPT ![c] = "load"] /\ before' = [before EXCEPT ![c] = given]
        /\ UNCHANGED <<next_pid, reg, given>>
    BY <1>2 DEF call, StepTo
  <2>2. Inside(c)'
    BY <1>2 DEF call, InCall, At, lock_acquire, Goto, Inside, Locked, Held
  <2>3. CallTypes' /\ InsideInv' /\ LockedInv'
    BY <1>1, <2>1, <2>2 DEF InsideInv, LockedInv
  <2>4. RegInv' /\ GivenInv' /\ BeforeInv' /\ NewInv'
    BY <2>1 DEF RegInv, GivenInv, BeforeInv, NewInv
  <2> QED
    BY <2>3, <2>4
<1>3. CASE load
  <2>1. /\ step' = [step EXCEPT ![c] = "store"] /\ reg' = [reg EXCEPT ![c] = next_pid]
        /\ UNCHANGED <<next_pid, given, before>> /\ UNCHANGED <<pc, lk, holder>>
        /\ step[c] = "load" /\ pc[c] = "out"
    BY <1>3 DEF load, StepTo, InCall, At, vars, svars
  <2>2. Inside(c)' /\ Locked(c)'
    BY <2>1 DEF InsideInv, Inside, Locked
  <2>3. CallTypes' /\ InsideInv' /\ LockedInv'
    BY <1>1, <2>1, <2>2 DEF InsideInv, LockedInv
  <2>4. RegInv' /\ GivenInv' /\ BeforeInv' /\ NewInv'
    BY <2>1 DEF RegInv, GivenInv, BeforeInv, NewInv
  <2> QED
    BY <2>3, <2>4
<1>4. CASE store
  <2>1. /\ step' = [step EXCEPT ![c] = "unlock"] /\ reg' = [reg EXCEPT ![c] = 0]
        /\ next_pid' = reg[c] + 1 /\ UNCHANGED <<given, before>>
        /\ UNCHANGED <<pc, lk, holder>> /\ step[c] = "store"
    BY <1>4 DEF store, StepTo, InCall, vars, svars
  <2>2. Locked(c) /\ Inside(c) /\ Inside(c)' /\ Locked(c)'
    BY <2>1 DEF InsideInv, LockedInv, Inside, Locked
  <2>3. \A t \in Threads : t # c => step[t] # "store"
    BY <2>2 DEF LockedInv, Locked
  <2>4. next_pid' = next_pid + 1
    BY <2>1 DEF RegInv
  <2>5. \A p \in given : p < next_pid' /\ p <= next_pid'
    <3>1. \A p \in given : p \in Nat /\ p <= next_pid
      BY DEF GivenInv
    <3> QED
      BY <3>1, <2>4
  <2>6. CallTypes' /\ InsideInv' /\ LockedInv'
    <3>1. CallTypes'
      BY <2>1, <2>4
    <3> QED
      BY <3>1, <1>1, <2>1, <2>2 DEF InsideInv, LockedInv
  <2>7. RegInv' /\ GivenInv' /\ BeforeInv'
    BY <2>1, <2>3, <2>5 DEF RegInv, GivenInv, BeforeInv
  <2>8. NewInv'
    BY <2>1, <2>5 DEF NewInv, BeforeInv
  <2> QED
    BY <2>6, <2>7, <2>8
<1>5. CASE unlock
  <2>1. /\ step' = [step EXCEPT ![c] = "return"]
        /\ UNCHANGED <<next_pid, reg, given, before>> /\ step[c] = "unlock"
    BY <1>5 DEF unlock, StepTo, InCall
  <2>2. CallTypes' /\ InsideInv' /\ LockedInv'
    BY <1>1, <2>1 DEF InsideInv, LockedInv
  <2>3. RegInv' /\ GivenInv' /\ BeforeInv' /\ NewInv'
    BY <2>1 DEF RegInv, GivenInv, BeforeInv, NewInv
  <2> QED
    BY <2>2, <2>3
<1>6. CASE return
  <2>1. /\ step' = [step EXCEPT ![c] = "none"] /\ before' = [before EXCEPT ![c] = {}]
        /\ given' = given \cup {next_pid} /\ UNCHANGED <<next_pid, reg>>
    BY <1>6 DEF return, StepTo
  <2>2. CallTypes' /\ InsideInv' /\ LockedInv'
    BY <1>1, <2>1 DEF InsideInv, LockedInv
  <2>3. RegInv' /\ GivenInv' /\ NewInv'
    BY <2>1 DEF RegInv, GivenInv, NewInv
  <2>4. BeforeInv'
    BY <2>1 DEF BeforeInv
  <2> QED
    BY <2>2, <2>3, <2>4
<1> QED
  BY <1>2, <1>3, <1>4, <1>5, <1>6 DEF allocate_pid

LEMMA PidsStep == PInv /\ [PidsNext]_avars => PInv'
<1> SUFFICES ASSUME PInv, [PidsNext]_avars PROVE PInv'
  OBVIOUS
<1>1. IInv'
  BY StepIsLockingStep, NextPreserves DEF PInv
<1>2. CallInv'
  BY CallPreserves, ElsewherePreserves DEF PidsNext
<1> QED
  BY <1>1, <1>2 DEF PInv

LEMMA PidsInductive == PidsSpec => []PInv
<1>1. PidsInit => PInv
  <2> SUFFICES ASSUME PidsInit PROVE PInv
    OBVIOUS
  <2>1. IInv
    BY InitSound DEF PidsInit
  <2>2. CallInv
    BY DEF PidsInit, CallInv, CallTypes, Steps, InsideInv, LockedInv, RegInv, GivenInv, BeforeInv, NewInv
  <2> QED
    BY <2>1, <2>2 DEF PInv
<1> QED
  BY <1>1, PidsStep, PTL DEF PidsSpec

(* allocate_pid uses pid_lock like any other code: the locks keep all      *)
(* their properties among its callers.                                     *)
THEOREM PidsRefineLocking == PidsSpec => Spec
<1>1. PidsInit => Init
  BY DEF PidsInit
<1>2. PInv /\ [PidsNext]_avars => [Next]_vars
  BY StepIsLockingStep
<1> QED
  BY <1>1, <1>2, PidsInductive, PTL DEF PidsSpec, Spec

(* allocate_pid: no call returns a pid that was returned before it began.  *)
THEOREM PidsAreNew == PidsSpec => PidIsNew
<1> DEFINE New == return => next_pid \notin before[cur]
<1>1. ASSUME PInv PROVE New
  <2>1. cur \in Threads /\ CallTypes
    BY <1>1, InvFacts DEF PInv, Typed, CallInv
  <2> QED
    BY <1>1, <2>1 DEF PInv, CallInv, NewInv, CallTypes, return, InCall
<1>2. PInv => [New]_avars
  BY <1>1
<1> QED
  BY <1>2, PidsInductive, PTL DEF PidIsNew
=============================================================================
