--------------------------- MODULE IoqueueProofs ---------------------------
(***************************************************************************)
(* The properties of the ring buffer of device/ioqueue.c for any buffer    *)
(* size, any characters, any readers and writers and any preemption.       *)
(***************************************************************************)
EXTENDS Ioqueue, SyncLemmas

Stages == {"free", "loop", "wait", "unlock", "got"}

QTypes ==
  /\ buf \in [Pos -> Chars] /\ byte \in [Threads -> Chars]
  /\ head \in Pos /\ tail \in Pos
  /\ consumer \in Consumers \cup {Null} /\ producer \in Producers \cup {Null}
  /\ stage \in [Threads -> Stages] /\ users \in Uses

(* Where a thread is in lock_acquire and lock_release at each stage of its *)
(* call: ioq->lock is held from the wait to the unlock and at no other.    *)
Places ==
  \A t \in Threads :
    /\ stage[t] # "free" => t \in users
    /\ stage[t] \in {"free", "got"} => pc[t] \in IdlePC \cup {"out"}
    /\ stage[t] = "loop" => pc[t] \in {"out", "zero", "up"}
    /\ stage[t] = "wait" => /\ pc[t] \in {"out", "down", "test", "own", "count"}
                            /\ pc[t] = "out" => holder[QLock] = t
    /\ stage[t] = "unlock" => pc[t] = "out" /\ holder[QLock] = t
    /\ holder[QLock] = t => \/ stage[t] = "unlock"
                            \/ stage[t] = "wait" /\ pc[t] \in {"out", "count"}

(* Nobody takes ioq->lock twice.                                           *)
Single == repeat[QLock] \in {0, 1}

(* wake_up finds in the field a thread that ioq_wait has put to sleep.     *)
Asleep(t) == stage[t] = "unlock" /\ status[t] = "BLOCKED"
Sleepers == (consumer # Null => Asleep(consumer)) /\ (producer # Null => Asleep(producer))

(* With no other thread, ioq->lock is always free: the reader gets from    *)
(* the test of ioq_empty to its sleep with interrupts off.                 *)
Alone(t) == t \in Solo /\ users = {t, Keyboard}
AloneInv ==
  \A t \in Threads : Alone(t) =>
    /\ stage[t] # "free" => IF cur = t THEN ~intr ELSE stage[t] = "unlock" /\ ~saved[t]
    /\ stage[t] = "wait" => ioq_empty
    /\ pc[t] = "test" => ~old[t]
    /\ consumer # Null => ioq_empty

LInv == LockInv /\ WaitInv /\ AllListed
IInv == LInv /\ QTypes /\ Places /\ Single /\ Sleepers /\ AloneInv

-----------------------------------------------------------------------------

LEMMA Sets ==
  /\ QLock \in Locks /\ Null \notin Threads /\ Keyboard \notin Threads /\ Chars # {}
  /\ bufsize \in Nat /\ bufsize > 1 /\ Consumers \subseteq Threads \ {Idle}
  /\ Producers \subseteq Threads \ {Idle} /\ Consumers \cap Producers = {}
  /\ \A u \in Uses : u \subseteq Consumers \cup Producers \cup {Keyboard}
BY IoqueueAssumption, SyncAssumption

(* The two ways the positions of a ring of bufsize characters wrap.        *)
LEMMA Wrap ==
  ASSUME NEW a \in 0 .. 2 * bufsize - 1
  PROVE  /\ a % bufsize = IF a < bufsize THEN a ELSE a - bufsize
         /\ a % bufsize \in Pos
<1>1. bufsize \in Nat \ {0}
  BY Sets
<1>2. a % bufsize = IF a < bufsize THEN a ELSE a - bufsize
  BY <1>1
<1> QED
  BY <1>1, <1>2 DEF Pos

LEMMA NextPos ==
  \A p \in Pos : /\ next_pos(p) = IF p + 1 = bufsize THEN 0 ELSE p + 1
                 /\ next_pos(p) \in Pos /\ next_pos(p) # p
<1>1. bufsize \in Nat \ {0} /\ bufsize > 1
  BY Sets
<1>2. ASSUME NEW p \in 0 .. bufsize - 1
      PROVE  (p + 1) % bufsize = IF p + 1 = bufsize THEN 0 ELSE p + 1
  BY <1>1
<1> QED
  BY <1>1, <1>2 DEF next_pos, Pos

(* What the invariant says of the state, for the leaves below.             *)
LEMMA Facts ==
  ASSUME IInv
  PROVE  /\ Typed /\ SyncTypes /\ LockInv /\ WaitInv /\ AllListed /\ LockSound(QLock)
         /\ cur \in Threads /\ status[cur] = "RUNNING" /\ ~panicked
         /\ status \in [Threads -> Status] /\ saved \in [Threads -> BOOLEAN]
         /\ \A t \in Threads : pc[t] \in IdlePC <=> t = Idle
         /\ \A t \in Threads : t \in users => t \in Consumers \cup Producers /\ t # Idle
<1>1. LockInv /\ WaitInv /\ AllListed /\ SyncTypes /\ Typed /\ LockSound(QLock)
  BY TypeFacts, Sets DEF IInv, LInv, LockInv
<1>2. /\ cur \in Threads /\ status[cur] = "RUNNING" /\ ~panicked
      /\ status \in [Threads -> Status] /\ saved \in [Threads -> BOOLEAN]
      /\ \A t \in Threads : pc[t] \in IdlePC <=> t = Idle
  BY <1>1 DEF WaitInv, RunSound, RunQueue, SyncTypes, ThreadTypeOK
<1>3. \A t \in Threads : t \in users => t \in Consumers \cup Producers /\ t # Idle
  BY Sets DEF IInv, QTypes
<1> QED
  BY <1>1, <1>2, <1>3

(* A sleeper is off the processor, out of the locks, and not idle_thread.  *)
LEMMA SleeperFacts ==
  ASSUME IInv
  PROVE  /\ consumer # Null => /\ consumer \in Consumers /\ consumer \in Threads \ {Idle, cur}
                               /\ pc[consumer] = "out" /\ holder[QLock] = consumer
         /\ producer # Null => /\ producer \in Producers /\ producer \in Threads \ {Idle, cur}
                               /\ pc[producer] = "out" /\ holder[QLock] = producer
         /\ \A t \in Threads : Alone(t) => producer = Null /\ (consumer # Null => consumer = t)
<1>1. status[cur] = "RUNNING"
  BY Facts
<1>2. consumer # Null => /\ consumer \in Consumers /\ consumer \in Threads \ {Idle, cur}
                         /\ pc[consumer] = "out" /\ holder[QLock] = consumer
                         /\ consumer \in users
  BY <1>1, Sets DEF IInv, QTypes, Sleepers, Asleep, Places
<1>3. producer # Null => /\ producer \in Producers /\ producer \in Threads \ {Idle, cur}
                         /\ pc[producer] = "out" /\ holder[QLock] = producer
                         /\ producer \in users
  BY <1>1, Sets DEF IInv, QTypes, Sleepers, Asleep, Places
<1>4. ASSUME NEW t \in Threads, Alone(t)
      PROVE  producer = Null /\ (consumer # Null => consumer = t)
  BY <1>2, <1>3, <1>4, Sets DEF Alone, Solo
<1> QED
  BY <1>2, <1>3, <1>4

LEMMA InitSound == Init => IInv
<1> USE ThreadAssumption, SyncAssumption
<1> SUFFICES ASSUME Init PROVE IInv
  OBVIOUS
<1>1. LInv
  BY SystemUpSound DEF Init, LInv
<1>2. QTypes
  BY Sets DEF Init, QTypes, Pos, Zero, Stages
<1>3. Places /\ Single /\ Sleepers
  BY Sets DEF Init, SystemUp, SyncInit, Places, Single, Sleepers, IdlePC
<1>4. AloneInv
  BY DEF Init, SystemUp, AloneInv, Alone
<1> QED
  BY <1>1, <1>2, <1>3, <1>4 DEF IInv

-----------------------------------------------------------------------------

(* The processor's side of AloneInv: a switch restores the flag that the   *)
(* reader had, and only the reader itself gives up the processor with      *)
(* interrupts off.                                                         *)
Masked(t) == IF cur = t THEN ~intr ELSE stage[t] = "unlock" /\ ~saved[t]

(* Steps inside lock_acquire and lock_release.                             *)
LEMMA LockStepKeeps == ASSUME IInv, LockStep, UNCHANGED qvars PROVE IInv'
<1> USE Facts, Sets
<1>1. LInv'
  BY StepKeepsWaits DEF LInv
<1>2. QTypes'
  BY DEF IInv, QTypes, qvars
<1>3. \A t \in Threads : t # cur =>
        /\ pc'[t] = pc[t] /\ old'[t] = old[t] /\ (holder'[QLock] = t <=> holder[QLock] = t)
        /\ t # Idle /\ pc[t] # "test" => (status'[t] = "BLOCKED" <=> status[t] = "BLOCKED")
  BY StepLeavesOthers DEF Blocked
<1>4. /\ pc[cur] \in {"down", "test", "own", "count", "zero", "up"}
      /\ UNCHANGED <<stage, users, consumer, producer, head, tail>>
  BY DEF LockStep, sema_down, sema_down_loop, lock_acquire_own, lock_acquire_count,
         lock_release_zero, sema_up, At, qvars
<1>5. lk[cur] = QLock
  BY IoqueueAssumption DEF Typed
<1>6. Places'
  <2> SUFFICES ASSUME NEW t \in Threads
      PROVE  /\ stage[t] # "free" => t \in users
             /\ stage[t] \in {"free", "got"} => pc'[t] \in IdlePC \cup {"out"}
             /\ stage[t] = "loop" => pc'[t] \in {"out", "zero", "up"}
             /\ stage[t] = "wait" => /\ pc'[t] \in {"out", "down", "test", "own", "count"}
                                     /\ pc'[t] = "out" => holder'[QLock] = t
             /\ stage[t] = "unlock" => pc'[t] = "out" /\ holder'[QLock] = t
             /\ holder'[QLock] = t => \/ stage[t] = "unlock"
                                      \/ stage[t] = "wait" /\ pc'[t] \in {"out", "count"}
    BY <1>4 DEF Places
  <2>1. CASE t # cur
    BY <1>3, <2>1 DEF IInv, Places
  <2>2. CASE t = cur
    <3>1. /\ stage[t] = "loop" => pc[t] \in {"zero", "up"}
          /\ stage[t] = "wait" => pc[t] \in {"down", "test", "own", "count"}
          /\ stage[t] \in {"loop", "wait"} /\ t \in users
          /\ holder[QLock] = t => stage[t] = "wait" /\ pc[t] = "count"
      BY <1>4, <2>2 DEF IInv, QTypes, Places, Stages, IdlePC
    <3>2. CASE sema_down \/ sema_down_loop
      BY <2>2, <3>1, <3>2 DEF sema_down, sema_down_loop, At, Goto, Typed
    <3>3. CASE lock_acquire_own
      BY <1>5, <2>2, <3>1, <3>3 DEF lock_acquire_own, At, Goto, Typed
    <3>4. CASE lock_acquire_count
      <4>1. holder[QLock] = t /\ holder' = holder /\ pc' = [pc EXCEPT ![t] = "out"] /\ pc[t] = "count"
        BY <1>5, <2>2, <3>4 DEF lock_acquire_count, At, Goto, LockSound
      <4> QED
        BY <3>1, <4>1 DEF Typed
    <3>5. CASE lock_release_zero \/ sema_up
      BY <2>2, <3>1, <3>5 DEF lock_release_zero, sema_up, At, Goto, Typed
    <3> QED
      BY <3>2, <3>3, <3>4, <3>5 DEF LockStep
  <2> QED
    BY <2>1, <2>2
<1>7. Sleepers' /\ Single'
  <2>1. Sleepers'
    BY <1>3, <1>4, SleeperFacts DEF IInv, Sleepers, Asleep
  <2>2. repeat' = repeat \/ repeat' = [repeat EXCEPT ![QLock] = 0]
                          \/ repeat' = [repeat EXCEPT ![QLock] = 1]
    BY <1>5 DEF LockStep, sema_down, sema_down_loop, lock_acquire_own, lock_acquire_count,
                lock_release_zero, sema_up
  <2>3. Single'
    BY <2>2 DEF IInv, Single, Typed
  <2> QED
    BY <2>1, <2>3
<1>8. AloneInv'
  <2> SUFFICES ASSUME NEW t \in Threads, Alone(t)
      PROVE  /\ stage[t] # "free" => Masked(t)'
             /\ stage[t] = "wait" => ioq_empty
             /\ pc'[t] = "test" => ~old'[t]
             /\ consumer # Null => ioq_empty
    BY <1>4 DEF AloneInv, Alone, Masked, ioq_empty
  <2>1. /\ stage[t] # "free" => Masked(t)
        /\ stage[t] = "wait" => ioq_empty
        /\ pc[t] = "test" => ~old[t]
        /\ consumer # Null => ioq_empty
    BY DEF IInv, AloneInv, Masked
  <2>2. t = cur /\ stage[t] \in {"loop", "wait"}
    <3>1. cur \in users /\ cur \in Threads
      BY <1>4 DEF IInv, Places, IdlePC
    <3>2. stage[cur] \in {"loop", "wait"}
      BY <1>4 DEF IInv, QTypes, Places, Stages, IdlePC
    <3> QED
      BY <3>1, <3>2 DEF Alone
  <2>3. ~intr
    BY <2>1, <2>2 DEF Masked
  <2>4. cur' = cur /\ ~intr' /\ (pc'[t] = "test" => ~old'[t])
    <3>1. CASE sema_down
      BY <2>2, <2>3, <3>1 DEF sema_down, intr_disable, Typed
    <3>2. CASE sema_down_loop
      <4>1. pc[t] = "test" /\ stage[t] = "wait"
        BY <2>2, <3>2 DEF sema_down_loop, At, IInv, Places
      <4>2. \A u \in Threads : ~Owns(u, QLock)
        <5> SUFFICES ASSUME NEW u \in Threads, Owns(u, QLock) PROVE FALSE
          OBVIOUS
        <5>1. u # t
          BY <4>1 DEF Owns, IInv, Places
        <5>2. stage[u] # "free"
          BY DEF Owns, IInv, Places, IdlePC
        <5> QED
          BY <5>1, <5>2 DEF IInv, Places, Alone
      <4>3. value[QLock] # 0
        BY <4>2 DEF LockSound
      <4> QED
        BY <1>5, <2>1, <2>2, <3>2, <4>1, <4>3 DEF sema_down_loop, Goto, Typed
    <3>3. CASE lock_acquire_own \/ lock_acquire_count \/ lock_release_zero
      BY <2>2, <2>3, <3>3 DEF lock_acquire_own, lock_acquire_count, lock_release_zero, Goto,
                              tvars, Typed
    <3>4. CASE sema_up
      BY <2>2, <2>3, <3>4 DEF sema_up, thread_unblock, Goto, Typed
    <3> QED
      BY <3>1, <3>2, <3>3, <3>4 DEF LockStep
  <2> QED
    BY <2>1, <2>2, <2>4 DEF Masked
<1> QED
  BY <1>1, <1>2, <1>6, <1>7, <1>8 DEF IInv

(* The clock and the idle thread.                                          *)
LEMMA MachineKeeps ==
  ASSUME IInv, TimerTick \/ IdleStep, UNCHANGED <<svars, qvars>>
  PROVE  IInv'
<1> USE Facts, Sets
<1>1. /\ LInv'
      /\ \A t \in Threads \ {Idle} : status'[t] = "BLOCKED" <=> status[t] = "BLOCKED"
  BY MachineKeepsAll DEF LInv, Blocked
<1>2. QTypes'
  BY DEF IInv, QTypes, qvars
<1>3. /\ \A t \in Threads : pc'[t] = pc[t] \/ (pc[t] \in IdlePC /\ pc'[t] \in IdlePC)
      /\ UNCHANGED <<stage, users, consumer, producer, head, tail, holder, old>>
  <2>1. PcElsewhere
    BY DEF TimerTick, LeaveHlt, IdleStep, idle_block, idle_hlt, At, Goto, IdlePC, PcElsewhere
  <2>2. \A t \in Threads : pc'[t] = pc[t] \/ (pc[t] \in IdlePC /\ pc'[t] \in IdlePC)
    BY <2>1 DEF PcElsewhere, Typed
  <2> QED
    BY <2>2 DEF qvars, svars
<1>4. Places'
  BY <1>3 DEF IInv, Places, IdlePC
<1>5. Sleepers' /\ Single'
  BY <1>1, <1>3, SleeperFacts DEF IInv, Sleepers, Asleep, Single, svars
<1>6. AloneInv'
  <2> SUFFICES ASSUME NEW t \in Threads, Alone(t), stage[t] # "free" PROVE Masked(t)'
    BY <1>3 DEF IInv, AloneInv, Alone, Masked, ioq_empty, IdlePC, Places
  <2>1. Masked(t) /\ t # Idle /\ stage'[t] = stage[t]
    BY <1>3 DEF IInv, AloneInv, Masked, Places
  <2>2. CASE TimerTick
    <3>1. intr /\ cur # t
      BY <2>1, <2>2 DEF TimerTick, intr_timer_handler, Masked
    <3>2. CASE slice[cur] = 0
      <4>1. saved' = [saved EXCEPT ![cur] = TRUE] /\ intr' = saved'[cur']
        BY <2>2, <3>2 DEF TimerTick, intr_timer_handler, schedule
      <4> QED
        BY <2>1, <3>1, <4>1 DEF Masked
    <3>3. CASE slice[cur] # 0
      BY <2>1, <2>2, <3>3 DEF TimerTick, intr_timer_handler, Masked
    <3> QED
      BY <3>2, <3>3
  <2>3. CASE idle_block
    <3>1. saved' = [saved EXCEPT ![cur] = intr] /\ intr' = saved'[cur'] /\ cur = Idle
      BY <2>3 DEF idle_block, thread_block, schedule, At, IdlePC
    <3> QED
      BY <2>1, <3>1 DEF Masked
  <2>4. CASE idle_hlt
    BY <2>1, <2>4 DEF idle_hlt, At, IdlePC, intr_enable, Masked
  <2> QED
    BY <2>2, <2>3, <2>4 DEF IdleStep
<1> QED
  BY <1>1, <1>2, <1>4, <1>5, <1>6 DEF IInv

-----------------------------------------------------------------------------

(* A caller outside of the locks.                                          *)
LEMMA CallerFacts ==
  ASSUME IInv, NEW s, NEW n \in Stages, From(s, n)
  PROVE  /\ pc[cur] = "out" /\ cur # Idle /\ stage[cur] = s
         /\ stage' = [stage EXCEPT ![cur] = n] /\ users' = users
         /\ stage' \in [Threads -> Stages]
         /\ \A t \in Threads : Alone(t) /\ (cur \in users \/ s # "free") => t = cur
BY Facts, Sets DEF From, At, IInv, QTypes, Places, Alone, IdlePC

(* The caller switches interrupts off, or on again when it has returned.   *)
LEMMA CallKeeps == ASSUME IInv, Call \/ Return PROVE IInv'
<1> USE Facts, Sets
<1>1. /\ UNCHANGED <<svars, pc, cur, status, ready, slice, saved, panicked>>
      /\ UNCHANGED <<buf, head, tail, producer, consumer>> /\ intr' \in BOOLEAN
  BY DEF Call, Return, intr_disable, intr_enable
<1>2. LInv'
  BY <1>1, LocalKeepsAll DEF LInv
<1>3. CASE Call
  <2>1. /\ pc[cur] = "out" /\ stage[cur] = "free" /\ stage' = [stage EXCEPT ![cur] = "loop"]
        /\ users' = users /\ stage' \in [Threads -> Stages] /\ cur \in users /\ ~intr'
        /\ \A t \in Threads : Alone(t) => t = cur
    BY <1>3, CallerFacts DEF Call, Stages, intr_disable
  <2>2. byte' \in [Threads -> Chars]
    BY <1>3 DEF Call, IInv, QTypes
  <2>3. QTypes'
    BY <1>1, <2>1, <2>2 DEF IInv, QTypes
  <2>4. Places' /\ Single' /\ Sleepers'
    BY <1>1, <2>1 DEF IInv, QTypes, Places, Single, Sleepers, Asleep, svars
  <2>5. AloneInv'
    BY <1>1, <2>1 DEF IInv, QTypes, AloneInv, Alone, ioq_empty, svars
  <2> QED
    BY <1>2, <2>3, <2>4, <2>5 DEF IInv
<1>4. CASE Return
  <2>1. /\ pc[cur] = "out" /\ stage[cur] = "got" /\ stage' = [stage EXCEPT ![cur] = "free"]
        /\ users' = users /\ stage' \in [Threads -> Stages] /\ UNCHANGED byte
        /\ \A t \in Threads : Alone(t) => t = cur
    BY <1>4, CallerFacts DEF Return, Stages
  <2>2. QTypes'
    BY <1>1, <2>1 DEF IInv, QTypes
  <2>3. Places' /\ Single' /\ Sleepers'
    BY <1>1, <2>1 DEF IInv, QTypes, Places, Single, Sleepers, Asleep, svars
  <2>4. AloneInv'
    BY <1>1, <2>1 DEF IInv, QTypes, AloneInv, Alone, ioq_empty, svars
  <2> QED
    BY <1>2, <2>2, <2>3, <2>4 DEF IInv
<1> QED
  BY <1>3, <1>4

(* ioq_empty or ioq_full: the caller asks for ioq->lock.                   *)
LEMMA AskKeeps ==
  ASSUME IInv, From("loop", "wait"), lock_acquire(QLock), cur \in Consumers => ioq_empty,
         UNCHANGED <<buf, head, tail, producer, consumer, byte>>
  PROVE  IInv'
<1> USE Facts, Sets
<1>1. LInv'
  BY AcquireKeepsLocks, AcquireKeepsWaits DEF LInv
<1>2. /\ pc[cur] = "out" /\ stage[cur] = "loop" /\ stage' = [stage EXCEPT ![cur] = "wait"]
      /\ users' = users /\ stage' \in [Threads -> Stages]
      /\ \A t \in Threads : Alone(t) => t = cur
  BY CallerFacts DEF Stages
<1>3. holder[QLock] # cur
  BY <1>2 DEF IInv, Places
<1>4. /\ pc' = [pc EXCEPT ![cur] = "down"] /\ UNCHANGED <<tvars, holder, repeat, old>>
  BY <1>3 DEF lock_acquire, Goto
<1>5. QTypes' /\ Places' /\ Single' /\ Sleepers'
  BY <1>2, <1>4 DEF IInv, QTypes, Places, Single, Sleepers, Asleep, tvars, Typed
<1>6. AloneInv'
  <2> SUFFICES ASSUME NEW t \in Threads, Alone(t)
      PROVE  Masked(t)' /\ ioq_empty' /\ pc'[t] # "test"
    BY <1>2 DEF AloneInv, Alone, Masked
  <2>1. t = cur /\ t \in Consumers
    BY <1>2 DEF Alone, Solo
  <2>2. Masked(t)
    BY <1>2, <2>1 DEF IInv, AloneInv, Masked
  <2> QED
    BY <1>2, <1>4, <2>1, <2>2 DEF Masked, tvars, ioq_empty, Typed
<1> QED
  BY <1>1, <1>5, <1>6 DEF IInv

(* ioq_wait: whoever has the lock finds the field NULL and sleeps.         *)
LEMMA WaitKeeps == ASSUME IInv, ioq_wait PROVE IInv'
<1> USE Facts, Sets
<1>1. /\ pc[cur] = "out" /\ stage[cur] = "wait" /\ stage' = [stage EXCEPT ![cur] = "unlock"]
      /\ users' = users /\ stage' \in [Threads -> Stages] /\ holder[QLock] = cur
      /\ \A t \in Threads : Alone(t) => t = cur
  BY CallerFacts DEF ioq_wait, Stages, IInv, Places
<1>2. consumer = Null /\ producer = Null
  BY <1>1, SleeperFacts
<1>3. /\ thread_block("BLOCKED", FALSE) /\ UNCHANGED <<pc, svars, buf, head, tail, byte>>
      /\ consumer' = (IF cur \in Consumers THEN cur ELSE Null)
      /\ producer' = (IF cur \in Consumers THEN Null ELSE cur)
  BY <1>2 DEF ioq_wait
<1>4. /\ LInv' /\ saved' = [saved EXCEPT ![cur] = intr] /\ intr' = saved'[cur']
      /\ \A t \in Threads \ {Idle} :
           status'[t] = "BLOCKED" <=> IF t = cur THEN TRUE ELSE status[t] = "BLOCKED"
  BY <1>1, <1>3, BlockKeepsAll DEF LInv, Blocked
<1>5. cur \in Consumers \cup Producers /\ cur # Idle
  BY <1>1 DEF IInv, Places
<1>6. QTypes'
  BY <1>1, <1>3, <1>5 DEF IInv, QTypes
<1>7. Places'
  BY <1>1, <1>3 DEF IInv, QTypes, Places, svars
<1>8. Sleepers' /\ Single'
  BY <1>1, <1>3, <1>4, <1>5 DEF Sleepers, Asleep, IInv, QTypes, Single, svars
<1>9. AloneInv'
  <2> SUFFICES ASSUME NEW t \in Threads, Alone(t)
      PROVE  Masked(t)' /\ ioq_empty' /\ pc'[t] # "test"
    BY <1>1 DEF AloneInv, Alone, Masked, IInv, QTypes
  <2>1. t = cur /\ ioq_empty /\ ~intr
    BY <1>1 DEF IInv, AloneInv, Masked
  <2> QED
    BY <1>1, <1>3, <1>4, <2>1 DEF Masked, ioq_empty, IInv, QTypes
<1> QED
  BY <1>4, <1>6, <1>7, <1>8, <1>9 DEF IInv

(* lock_release, with the thread awake again.                              *)
LEMMA UnlockKeeps == ASSUME IInv, ioq_unlock PROVE IInv'
<1> USE Facts, Sets
<1>1. /\ pc[cur] = "out" /\ stage[cur] = "unlock" /\ stage' = [stage EXCEPT ![cur] = "loop"]
      /\ users' = users /\ stage' \in [Threads -> Stages] /\ holder[QLock] = cur
      /\ \A t \in Threads : Alone(t) => t = cur
  BY CallerFacts DEF ioq_unlock, Stages, IInv, Places
<1>2. LInv'
  BY <1>1, ReleaseKeepsLocks, ReleaseKeepsWaits DEF LInv, ioq_unlock
<1>3. ~(repeat[QLock] > 1)
  BY DEF IInv, Single
<1>4. /\ UNCHANGED <<cur, status, intr, saved, old, repeat>>
      /\ UNCHANGED <<buf, head, tail, producer, consumer, byte>>
      /\ pc' = [pc EXCEPT ![cur] = "zero"] /\ holder' = [holder EXCEPT ![QLock] = Null]
  BY <1>3 DEF ioq_unlock, lock_release, Goto
<1>5. QTypes' /\ Places' /\ Single'
  BY <1>1, <1>4 DEF IInv, QTypes, Places, Single, Typed
<1>6. Sleepers'
  BY <1>1, <1>4, SleeperFacts DEF IInv, Sleepers, Asleep, QTypes
<1>7. AloneInv'
  <2> SUFFICES ASSUME NEW t \in Threads, Alone(t)
      PROVE  Masked(t)' /\ pc'[t] # "test" /\ stage'[t] # "wait" /\ (consumer' # Null => ioq_empty')
    BY <1>1 DEF AloneInv, Alone, Masked
  <2>1. t = cur /\ ~intr /\ (consumer # Null => ioq_empty)
    BY <1>1 DEF IInv, AloneInv, Masked
  <2> QED
    BY <1>1, <1>4, <2>1 DEF Masked, ioq_empty, IInv, QTypes, Typed
<1> QED
  BY <1>2, <1>5, <1>6, <1>7 DEF IInv

-----------------------------------------------------------------------------

(* wake_up of whoever sleeps in ioq_wait, by a caller or by the handler.   *)
LEMMA WakeKeeps ==
  ASSUME IInv, NEW u \in (Consumers \cup Producers \cup {Null}), u # Null => Asleep(u) /\ u # cur,
         IF u # Null THEN thread_unblock(u, FALSE) ELSE UNCHANGED tvars,
         UNCHANGED svars, PcElsewhere
  PROVE  /\ LInv' /\ UNCHANGED <<cur, intr, saved>>
         /\ \A t \in Threads : t # u => status'[t] = status[t]
<1> USE Facts, Sets
<1>1. CASE u = Null
  <2>1. UNCHANGED tvars
    BY <1>1
  <2>2. RunSound' /\ AllListed'
    BY <2>1 DEF tvars, WaitInv, RunSound, ThreadTypeOK, RunQueue, IdleReady, AllListed
  <2>3. WaitInv'
    BY <2>1, <2>2, ElsewhereKeepsWaits DEF tvars
  <2>4. LockInv'
    BY <2>2, ElsewhereKeepsLocks DEF RunSound
  <2> QED
    BY <2>1, <2>2, <2>3, <2>4 DEF LInv, tvars
<1>2. CASE u # Null
  <2>1. u \in Threads /\ status[u] \in Blocked /\ pc[u] # "test"
    BY <1>2 DEF Asleep, Blocked, IInv, Places
  <2>2. /\ LockInv' /\ WaitInv' /\ AllListed'
        /\ cur' = cur /\ intr' = intr /\ saved' = saved /\ status' = [status EXCEPT ![u] = "READY"]
    BY <1>2, <2>1, WakeKeepsAll
  <2> QED
    BY <2>2 DEF LInv
<1> QED
  BY <1>1, <1>2

(* ioq_getchar past its loop.                                              *)
LEMMA GetKeeps ==
  ASSUME IInv, cur \in Consumers, ~ioq_empty, From("loop", "got"),
         byte' = [byte EXCEPT ![cur] = buf[tail]], tail' = next_pos(tail), wake_producer,
         UNCHANGED <<pc, svars, buf, head, consumer>>
  PROVE  IInv'
<1> USE Facts, Sets
<1>1. /\ pc[cur] = "out" /\ stage[cur] = "loop" /\ stage' = [stage EXCEPT ![cur] = "got"]
      /\ users' = users /\ stage' \in [Threads -> Stages]
      /\ \A t \in Threads : Alone(t) => t = cur
  BY CallerFacts DEF Stages
<1>2. /\ LInv' /\ UNCHANGED <<cur, intr, saved>> /\ producer' = Null
      /\ \A t \in Threads : t # producer => status'[t] = status[t]
  <2>1. /\ producer \in Consumers \cup Producers \cup {Null}
        /\ producer # Null => Asleep(producer) /\ producer # cur
    BY SleeperFacts DEF IInv, QTypes, Sleepers
  <2>2. /\ IF producer # Null THEN thread_unblock(producer, FALSE) ELSE UNCHANGED tvars
        /\ producer' = Null
    BY DEF wake_producer
  <2>3. PcElsewhere
    BY DEF PcElsewhere
  <2> QED
    BY <2>1, <2>2, <2>3, WakeKeeps
<1>3. QTypes'
  BY <1>1, <1>2, NextPos DEF IInv, QTypes
<1>4. Places' /\ Single'
  BY <1>1, <1>2 DEF IInv, QTypes, Places, Single, svars
<1>5. Sleepers'
  <2>1. consumer # Null => consumer # producer /\ consumer \in Threads \ {cur} /\ Asleep(consumer)
    BY SleeperFacts DEF IInv, Sleepers
  <2> QED
    BY <1>1, <1>2, <2>1 DEF Sleepers, Asleep, IInv, QTypes
<1>6. AloneInv'
  BY <1>1, <1>2 DEF IInv, QTypes, AloneInv, Alone, svars
<1> QED
  BY <1>2, <1>3, <1>4, <1>5, <1>6 DEF IInv

(* ioq_putchar past its loop, by a writer or by the keyboard handler.      *)
LEMMA PutKeeps ==
  ASSUME IInv, NEW c \in Chars, put(c), UNCHANGED <<svars, users>>, PcElsewhere,
         (intr /\ stage' = stage) \/ (cur \in Producers /\ From("loop", "got") /\ pc' = pc)
  PROVE  IInv'
<1> USE Facts, Sets
<1>1. /\ \A t \in Threads : t # cur => stage'[t] = stage[t]
      /\ stage'[cur] = stage[cur] \/ (cur \in Producers /\ stage[cur] = "loop" /\ stage'[cur] = "got"
                                       /\ pc[cur] = "out" /\ pc' = pc)
      /\ stage' \in [Threads -> Stages]
  BY CallerFacts DEF Stages, IInv, QTypes
<1>2. /\ buf' = [buf EXCEPT ![head] = c] /\ head' = next_pos(head) /\ UNCHANGED <<tail, producer, byte>>
      /\ LInv' /\ UNCHANGED <<cur, intr, saved>> /\ consumer' = Null
      /\ \A t \in Threads : t # consumer => status'[t] = status[t]
  <2>1. /\ consumer \in Consumers \cup Producers \cup {Null}
        /\ consumer # Null => Asleep(consumer) /\ consumer # cur
    BY SleeperFacts DEF IInv, QTypes, Sleepers
  <2>2. /\ IF consumer # Null THEN thread_unblock(consumer, FALSE) ELSE UNCHANGED tvars
        /\ consumer' = Null
    BY DEF put, wake_consumer
  <2>3. /\ LInv' /\ UNCHANGED <<cur, intr, saved>>
        /\ \A t \in Threads : t # consumer => status'[t] = status[t]
    BY <2>1, <2>2, WakeKeeps
  <2> QED
    BY <2>2, <2>3 DEF put
<1>3. \A t \in Threads : pc'[t] = pc[t] \/ (pc[t] \in IdlePC /\ pc'[t] \in IdlePC)
  BY DEF PcElsewhere, Typed
<1>4. QTypes'
  BY <1>1, <1>2, NextPos DEF IInv, QTypes
<1>5. Places' /\ Single'
  BY <1>1, <1>2, <1>3 DEF IInv, QTypes, Places, Single, svars, IdlePC
<1>6. Sleepers'
  <2>1. producer # Null => producer # consumer /\ producer \in Threads \ {cur} /\ Asleep(producer)
    BY SleeperFacts DEF IInv, Sleepers
  <2> QED
    BY <1>1, <1>2, <2>1 DEF Sleepers, Asleep, IInv, QTypes
<1>7. AloneInv'
  <2> SUFFICES ASSUME NEW t \in Threads, Alone(t)
      PROVE  /\ stage'[t] # "free" => Masked(t)'
             /\ stage'[t] # "wait" /\ pc'[t] # "test"
    BY <1>2 DEF AloneInv, Alone, Masked
  <2>1. t \in Consumers
    BY DEF Alone, Solo
  <2>2. stage'[t] = stage[t]
    BY <1>1, <2>1
  <2>3. stage[t] # "free" => Masked(t)
    BY DEF IInv, AloneInv, Masked
  <2>4. stage[t] # "wait"
    <3>1. CASE intr
      BY <2>3, <3>1 DEF Masked
    <3>2. CASE cur \in Producers /\ From("loop", "got")
      BY <2>1, <3>2, CallerFacts DEF Stages
    <3> QED
      BY <3>1, <3>2
  <2>5. pc'[t] # "test"
    <3>1. pc[t] # "test"
      BY <2>4 DEF IInv, Places, QTypes, Stages, IdlePC
    <3> QED
      BY <1>3, <3>1 DEF IdlePC
  <2> QED
    BY <1>2, <2>2, <2>3, <2>4, <2>5 DEF Masked
<1> QED
  BY <1>2, <1>4, <1>5, <1>6, <1>7 DEF IInv

LEMMA NextPreserves == IInv /\ [Next]_vars => IInv'
<1> SUFFICES ASSUME IInv, [Next]_vars PROVE IInv'
  OBVIOUS
<1>1. CASE Call \/ Return
  BY <1>1, CallKeeps
<1>2. CASE ioq_getchar
  <2>1. CASE ioq_empty
    BY <1>2, <2>1, AskKeeps DEF ioq_getchar
  <2>2. CASE ~ioq_empty
    BY <1>2, <2>2, GetKeeps DEF ioq_getchar
  <2> QED
    BY <2>1, <2>2
<1>3. CASE ioq_putchar
  <2>1. CASE ioq_full
    <3>1. cur \notin Consumers
      BY <1>3, Sets DEF ioq_putchar
    <3> QED
      BY <1>3, <2>1, <3>1, AskKeeps DEF ioq_putchar
  <2>2. CASE ~ioq_full
    <3>1. From("loop", "got") /\ put(byte[cur]) /\ UNCHANGED <<pc, svars>> /\ cur \in Producers
      BY <1>3, <2>2 DEF ioq_putchar
    <3>2. byte[cur] \in Chars /\ users' = users /\ PcElsewhere
      BY <3>1, Facts DEF IInv, QTypes, From, PcElsewhere
    <3> QED
      BY <3>1, <3>2, PutKeeps
  <2> QED
    BY <2>1, <2>2
<1>4. CASE ioq_wait \/ ioq_unlock
  BY <1>4, WaitKeeps, UnlockKeeps
<1>5. CASE intr_keyboard_handler
  <2>1. PcElsewhere /\ intr /\ UNCHANGED <<svars, stage, users>>
    BY <1>5 DEF intr_keyboard_handler, LeaveHlt, Goto, PcElsewhere, IdlePC
  <2>2. CASE ~ioq_full
    <3>1. PICK c \in Chars : put(c)
      BY <1>5, <2>2 DEF intr_keyboard_handler
    <3> QED
      BY <2>1, <3>1, PutKeeps
  <2>3. CASE ioq_full
    <3>1. UNCHANGED tvars /\ UNCHANGED <<buf, head, tail, producer, consumer, byte>>
      BY <1>5, <2>3 DEF intr_keyboard_handler
    <3>2. LInv'
      <4>1. Null \in Consumers \cup Producers \cup {Null}
        OBVIOUS
      <4> QED
        BY <2>1, <3>1, <4>1, WakeKeeps
    <3>3. \A t \in Threads : pc'[t] = pc[t] \/ (pc[t] \in IdlePC /\ pc'[t] \in IdlePC)
      BY <2>1, Facts DEF PcElsewhere, Typed
    <3>4. QTypes' /\ Single' /\ Sleepers'
      BY <2>1, <3>1 DEF IInv, QTypes, Single, Sleepers, Asleep, svars, tvars
    <3>5. Places'
      BY <2>1, <3>3 DEF IInv, Places, IdlePC, svars
    <3>6. AloneInv'
      BY <2>1, <3>1, <3>3 DEF IInv, AloneInv, Alone, ioq_empty, tvars, svars, IdlePC
    <3> QED
      BY <3>2, <3>4, <3>5, <3>6 DEF IInv
  <2> QED
    BY <2>2, <2>3
<1>6. CASE Operate
  BY <1>6, LockStepKeeps DEF Operate
<1>7. CASE Interrupt \/ idle
  BY <1>7, MachineKeeps DEF Interrupt, idle
<1>8. CASE UNCHANGED vars
  <2>1. UNCHANGED tvars /\ UNCHANGED pc /\ UNCHANGED svars /\ UNCHANGED qvars
    BY <1>8 DEF vars
  <2>2. LInv'
    <3>1. Null \in Consumers \cup Producers \cup {Null} /\ PcElsewhere
      BY <2>1 DEF PcElsewhere
    <3> QED
      BY <2>1, <3>1, WakeKeeps
  <2>3. QTypes' /\ Single' /\ Sleepers' /\ Places' /\ AloneInv'
    BY <2>1 DEF IInv, QTypes, Single, Sleepers, Asleep, Places, AloneInv, Alone, ioq_empty,
                svars, tvars, qvars
  <2> QED
    BY <2>2, <2>3 DEF IInv
<1> QED
  BY <1>1, <1>2, <1>3, <1>4, <1>5, <1>6, <1>7, <1>8 DEF Next, InCall

LEMMA Inductive == Spec => []IInv
BY NextPreserves, InitSound, PTL DEF Spec

-----------------------------------------------------------------------------

(* ioqueue.c, sync.c, thread.c: no ASSERT fails, whoever uses the buffer.  *)
(* ioq_wait never overwrites a sleeper and wake_up finds it blocked.       *)
THEOREM IoqueueNeverPanics == Spec => []NoPanic
<1>1. IInv => NoPanic
  BY Facts DEF NoPanic
<1> QED
  BY <1>1, Inductive, PTL

(* ioq_wait, wake_up: a buffer that one reader and the keyboard handler    *)
(* use, and nobody else, has its reader asleep only while it is empty, and *)
(* nobody waits for room.  With two readers or with a writer it is false   *)
(* (SomebodyAwake).                                                        *)
THEOREM SoleReaderSleepsWithReason == Spec => []SleepsWithReason
<1>1. ASSUME IInv PROVE SleepsWithReason
  <2> SUFFICES ASSUME Sole PROVE (consumer # Null => ioq_empty) /\ producer = Null
    BY DEF SleepsWithReason
  <2>1. PICK t \in Threads : Alone(t)
    BY Sets DEF Sole, Solo, Alone
  <2> QED
    BY <1>1, <2>1, SleeperFacts DEF IInv, AloneInv
<1> QED
  BY <1>1, Inductive, PTL

-----------------------------------------------------------------------------

(* The ring without its remainders: how many characters are in it and      *)
(* where the i-th of them is.                                              *)
Count   == IF tail <= head THEN head - tail ELSE head + bufsize - tail
Cell(i) == IF tail + i - 1 < bufsize THEN tail + i - 1 ELSE tail + i - 1 - bufsize

Ring ==
  /\ Count \in 0 .. bufsize - 1
  /\ \A i \in 1 .. bufsize : Cell(i) \in Pos
  /\ queue = [i \in 1 .. Count |-> buf[Cell(i)]]
  /\ queue \in Seq(Chars) /\ Len(queue) = Count

(* The types of the queue say what Ring does.                              *)
LEMMA RingFacts == QTypes => Ring
<1> SUFFICES ASSUME QTypes PROVE Ring
  OBVIOUS
<1>1. /\ bufsize \in Nat /\ bufsize > 1 /\ head \in 0 .. bufsize - 1 /\ tail \in 0 .. bufsize - 1
      /\ buf \in [0 .. bufsize - 1 -> Chars]
  BY Sets DEF QTypes, Pos
<1>2. Count \in 0 .. bufsize - 1 /\ \A i \in 1 .. bufsize : Cell(i) \in 0 .. bufsize - 1
  BY <1>1 DEF Count, Cell
<1>3. (head + bufsize - tail) % bufsize = Count
  BY <1>1 DEF Count
<1>4. ASSUME NEW i \in 1 .. bufsize PROVE (tail + i - 1) % bufsize = Cell(i)
  BY <1>1 DEF Cell
<1>5. queue = [i \in 1 .. Count |-> buf[Cell(i)]]
  <2> DEFINE n == (head + bufsize - tail) % bufsize
             at(i) == buf[(tail + i - 1) % bufsize]
  <2>1. queue = [i \in 1 .. n |-> at(i)]
    BY DEF queue
  <2>2. n = Count
    BY <1>3
  <2>3. \A i \in 1 .. Count : at(i) = buf[Cell(i)]
    <3>1. \A i \in 1 .. Count : i \in 1 .. bufsize
      BY <1>1, <1>2
    <3> QED
      BY <1>4, <3>1, Zenon
  <2> HIDE DEF n, at
  <2> QED
    BY <2>1, <2>2, <2>3
<1>6. \A i \in 1 .. Count : buf[Cell(i)] \in Chars
  BY <1>1, <1>2
<1>7. queue \in Seq(Chars) /\ Len(queue) = Count /\ DOMAIN queue = 1 .. Count
  BY <1>2, <1>5, <1>6
<1> QED
  BY <1>2, <1>5, <1>7 DEF Pos, Ring

(* Two sequences of the same length with the same elements.                *)
LEMMA SameSequence ==
  ASSUME NEW S, NEW a \in Seq(S), NEW b \in Seq(S), Len(a) = Len(b),
         \A i \in 1 .. Len(a) : a[i] = b[i]
  PROVE  a = b
OBVIOUS

(* What it is to append.                                                   *)
LEMMA Appended ==
  ASSUME NEW S, NEW s \in Seq(S), NEW c \in S
  PROVE  /\ Append(s, c) \in Seq(S) /\ Len(Append(s, c)) = Len(s) + 1
         /\ \A i \in 1 .. Len(s) : Append(s, c)[i] = s[i]
         /\ Append(s, c)[Len(s) + 1] = c
OBVIOUS

(* What is left of the queue when its first character is taken.            *)
LEMMA TailOf ==
  ASSUME NEW S, NEW s \in Seq(S), Len(s) > 0
  PROVE  /\ Tail(s) \in Seq(S) /\ Len(Tail(s)) = Len(s) - 1
         /\ \A i \in 1 .. Len(s) - 1 : Tail(s)[i] = s[i + 1]
OBVIOUS

(* The characters the readers have.                                        *)
last == [t \in Consumers |-> byte[t]]

(* A step that leaves the ring and the readers' characters alone.          *)
LEMMA Stutters ==
  ASSUME UNCHANGED <<buf, head, tail>>, \A t \in Consumers : byte'[t] = byte[t]
  PROVE  UNCHANGED <<queue, last>>
<1>1. queue' = queue
  BY DEF queue
<1>2. last' = last
  BY DEF last
<1> QED
  BY <1>1, <1>2

(* A write appends: it fills the cell after the last one of a ring that is *)
(* not full, and no other.                                                 *)
LEMMA PutAppends ==
  ASSUME QTypes, QTypes', Ring, Ring', NEW c \in Chars, ~ioq_full, put(c)
  PROVE  Len(queue) < bufsize - 1 /\ queue' = Append(queue, c)
<1>1. /\ bufsize \in Nat /\ bufsize > 1 /\ head \in 0 .. bufsize - 1 /\ tail \in 0 .. bufsize - 1
      /\ buf \in [0 .. bufsize - 1 -> Chars]
  BY Sets DEF QTypes, Pos
<1>2. /\ buf' = [buf EXCEPT ![head] = c] /\ tail' = tail
      /\ head' = IF head + 1 = bufsize THEN 0 ELSE head + 1
      /\ head' # tail
  BY NextPos DEF put, ioq_full, QTypes
<1>3. Count < bufsize - 1 /\ Count' = Count + 1 /\ Count \in Nat
  BY <1>1, <1>2 DEF Count
<1>4. ASSUME NEW i \in 1 .. Count + 1
      PROVE  /\ Cell(i)' = Cell(i) /\ Cell(i) \in 0 .. bufsize - 1
             /\ Cell(i) = head <=> i = Count + 1
  BY <1>1, <1>2, <1>3 DEF Count, Cell
<1>5. /\ queue \in Seq(Chars) /\ Len(queue) = Count
      /\ queue = [i \in 1 .. Count |-> buf[Cell(i)]]
      /\ queue' \in Seq(Chars) /\ Len(queue') = Count'
      /\ queue' = [i \in 1 .. Count' |-> buf'[Cell(i)']]
  BY DEF Ring
<1>6. /\ Append(queue, c) \in Seq(Chars) /\ Len(Append(queue, c)) = Count + 1
      /\ \A i \in 1 .. Count : Append(queue, c)[i] = queue[i]
      /\ Append(queue, c)[Count + 1] = c
  <2>1. queue \in Seq(Chars) /\ Len(queue) = Count
    BY <1>5
  <2>2. /\ Append(queue, c) \in Seq(Chars) /\ Len(Append(queue, c)) = Len(queue) + 1
        /\ \A i \in 1 .. Len(queue) : Append(queue, c)[i] = queue[i]
        /\ Append(queue, c)[Len(queue) + 1] = c
    BY <2>1, Appended
  <2> QED
    BY <2>1, <2>2, Zenon
<1>7. ASSUME NEW i \in 1 .. Count + 1 PROVE queue'[i] = Append(queue, c)[i]
  <2>1. queue'[i] = buf'[Cell(i)]
    BY <1>3, <1>4, <1>5
  <2>2. CASE i = Count + 1
    BY <1>1, <1>2, <1>4, <1>6, <2>1, <2>2
  <2>3. CASE i # Count + 1
    <3>1. i \in 1 .. Count
      BY <1>3, <2>3
    <3>2. queue'[i] = buf[Cell(i)]
      BY <1>1, <1>2, <1>4, <2>1, <2>3
    <3> QED
      BY <1>5, <1>6, <3>1, <3>2
  <2> QED
    BY <2>2, <2>3
<1> QED
  BY <1>3, <1>5, <1>6, <1>7, SameSequence

(* A read takes the first character of a ring that is not empty.           *)
LEMMA GetTakesHead ==
  ASSUME QTypes, QTypes', Ring, Ring', ~ioq_empty, tail' = next_pos(tail), UNCHANGED <<buf, head>>
  PROVE  queue # <<>> /\ buf[tail] = Head(queue) /\ queue' = Tail(queue)
<1>1. /\ bufsize \in Nat /\ bufsize > 1 /\ head \in 0 .. bufsize - 1 /\ tail \in 0 .. bufsize - 1
      /\ head # tail
  BY Sets DEF QTypes, Pos, ioq_empty
<1>2. tail' = IF tail + 1 = bufsize THEN 0 ELSE tail + 1
  BY NextPos DEF QTypes
<1>3. Count > 0 /\ Count' = Count - 1 /\ Count \in Nat /\ Count < bufsize
  BY <1>1, <1>2 DEF Count
<1>4. Cell(1) = tail
  BY <1>1 DEF Cell
<1>5. ASSUME NEW i \in 1 .. Count - 1 PROVE Cell(i)' = Cell(i + 1)
  BY <1>1, <1>2, <1>3 DEF Cell
<1>6. /\ queue \in Seq(Chars) /\ Len(queue) = Count
      /\ queue = [i \in 1 .. Count |-> buf[Cell(i)]]
      /\ queue' \in Seq(Chars) /\ Len(queue') = Count'
      /\ queue' = [i \in 1 .. Count' |-> buf'[Cell(i)']]
  BY DEF Ring
<1>7. queue # <<>> /\ Head(queue) = queue[1] /\ queue[1] = buf[tail]
  BY <1>3, <1>4, <1>6
<1>8. /\ Tail(queue) \in Seq(Chars) /\ Len(Tail(queue)) = Count - 1
      /\ \A i \in 1 .. Count - 1 : Tail(queue)[i] = queue[i + 1]
  <2>1. queue \in Seq(Chars) /\ Len(queue) = Count /\ Count > 0
    BY <1>3, <1>6
  <2>2. /\ Tail(queue) \in Seq(Chars) /\ Len(Tail(queue)) = Len(queue) - 1
        /\ \A i \in 1 .. Len(queue) - 1 : Tail(queue)[i] = queue[i + 1]
    BY <2>1, TailOf
  <2> QED
    BY <2>1, <2>2, Zenon
<1>9. ASSUME NEW i \in 1 .. Count - 1 PROVE queue'[i] = Tail(queue)[i]
  <2>1. queue'[i] = buf[Cell(i + 1)]
    BY <1>3, <1>5, <1>6
  <2>2. i + 1 \in 1 .. Count
    BY <1>3
  <2>3. queue[i + 1] = buf[Cell(i + 1)]
    BY <1>6, <2>2
  <2> QED
    BY <1>8, <2>1, <2>3
<1> QED
  BY <1>3, <1>6, <1>7, <1>8, <1>9, SameSequence

(* Every step reads, writes or leaves the queue alone.                     *)
LEMMA StepRefines == ASSUME IInv, IInv', [Next]_vars PROVE [F!Next]_<<queue, last>>
<1> USE Facts, Sets
<1>0. QTypes /\ QTypes'
  BY DEF IInv
<1>r. Ring /\ Ring'
  BY <1>0, RingFacts, PTL
<1>1. CASE Call
  <2>1. UNCHANGED <<buf, head, tail>> /\ \A t \in Consumers : byte'[t] = byte[t]
    BY <1>0, <1>1 DEF Call, QTypes
  <2> QED
    BY <2>1, Stutters
<1>2. CASE ioq_getchar /\ ~ioq_empty
  <2>1. /\ cur \in Consumers /\ byte' = [byte EXCEPT ![cur] = buf[tail]]
        /\ tail' = next_pos(tail) /\ UNCHANGED <<buf, head>>
    BY <1>2 DEF ioq_getchar
  <2>2. queue # <<>> /\ buf[tail] = Head(queue) /\ queue' = Tail(queue)
    BY <1>0, <1>r, <1>2, <2>1, GetTakesHead
  <2>3. last' = [last EXCEPT ![cur] = Head(queue)]
    BY <1>0, <2>1, <2>2 DEF last, QTypes
  <2>4. PICK t \in Consumers : t = cur
    BY <2>1
  <2>5. F!Get(t)
    BY <2>2, <2>3, <2>4 DEF F!Get, last
  <2> QED
    BY <2>4, <2>5 DEF F!Next
<1>3. ASSUME NEW c \in Chars, put(c), ~ioq_full PROVE F!Next
  <2>1. Len(queue) < bufsize - 1 /\ queue' = Append(queue, c)
    BY <1>0, <1>r, <1>3, PutAppends
  <2>2. last' = last
    BY <1>3 DEF put, last
  <2>3. F!Put(c)
    BY <2>1, <2>2 DEF F!Put, last
  <2> QED
    BY <2>3 DEF F!Next
<1>4. CASE ioq_putchar /\ ~ioq_full
  <2>1. put(byte[cur]) /\ byte[cur] \in Chars
    BY <1>0, <1>4 DEF ioq_putchar, QTypes
  <2> QED
    BY <1>3, <1>4, <2>1
<1>5. CASE intr_keyboard_handler /\ ~ioq_full
  BY <1>3, <1>5 DEF intr_keyboard_handler
<1>6. CASE (ioq_getchar /\ ioq_empty) \/ (ioq_putchar /\ ioq_full) \/ (intr_keyboard_handler /\ ioq_full)
  <2>1. UNCHANGED <<buf, head, tail, byte>>
    BY <1>6 DEF ioq_getchar, ioq_putchar, intr_keyboard_handler
  <2> QED
    BY <2>1, Stutters
<1>7. CASE Return \/ ioq_wait \/ ioq_unlock
  <2>1. UNCHANGED <<buf, head, tail, byte>>
    BY <1>7 DEF Return, ioq_wait, ioq_unlock
  <2> QED
    BY <2>1, Stutters
<1>8. CASE Operate \/ Interrupt \/ idle \/ UNCHANGED vars
  <2>1. UNCHANGED <<buf, head, tail, byte>>
    BY <1>8 DEF Operate, Interrupt, idle, vars, qvars
  <2> QED
    BY <2>1, Stutters
<1> QED
  BY <1>1, <1>2, <1>4, <1>5, <1>6, <1>7, <1>8 DEF Next, InCall

(* ioq_getchar, ioq_putchar, intr_keyboard_handler: for every buffer size  *)
(* and any users the ring buffer is a FIFO queue of bufsize - 1 characters *)
(* that loses, doubles and reorders nothing.                               *)
THEOREM IoqueueRefinesFifo == Spec => ImplementsFifo
<1>1. Init => F!Init
  <2> SUFFICES ASSUME Init PROVE F!Init
    OBVIOUS
  <2>1. QTypes
    BY InitSound DEF IInv
  <2>2. head = 0 /\ tail = 0
    BY DEF Init
  <2>3. Len(queue) = 0 /\ queue \in Seq(Chars)
    BY <2>1, <2>2, RingFacts DEF Ring, Count
  <2>4. queue = <<>>
    BY <2>3
  <2>5. [t \in Consumers |-> byte[t]] \in [Consumers -> Chars]
    BY <2>1, Sets DEF QTypes
  <2> QED
    BY <2>4, <2>5 DEF F!Init
<1>2. IInv /\ IInv' /\ [Next]_vars => [F!Next]_<<queue, [t \in Consumers |-> byte[t]]>>
  BY StepRefines DEF last
<1> QED
  BY <1>1, <1>2, Inductive, PTL DEF Spec, ImplementsFifo, F!Spec
=============================================================================
