-------------------------- MODULE SchedulerProofs --------------------------
(***************************************************************************)
(* The properties of Scheduler for every set of threads, every priority    *)
(* and every client of the thread primitives.                              *)
(***************************************************************************)
EXTENDS Process, SyncLemmas

(* idle_thread runs its own loop, with interrupts on, and is listed when   *)
(* READY: so an empty ready list finds it blocked.                         *)
IdleInv ==
  /\ \A t \in Threads : t = Idle <=> pc[t] \in IdlePC
  /\ ~off[Idle]
  /\ status[Idle] # "NONE"
  /\ status[Idle] = "READY" => Idle \in ToSet(ready)

(* A thread under construction: READY, on no list yet, nobody else's.      *)
ChildInv ==
  /\ \A p \in Threads : pc[p] = "made" =>
       status[child[p]] = "READY" /\ child[p] \notin ToSet(ready)
  /\ \A p \in Threads : pc[p] = "listed" => status[child[p]] # "NONE"
  /\ \A p, q \in Threads :
       pc[p] \in {"made", "listed"} /\ pc[q] \in {"made", "listed"} /\ child[p] = child[q]
         => p = q

(* The flag of every thread that is off the processor waits in saved.      *)
FlagInv ==
  /\ intr = ~off[cur]
  /\ \A t \in Threads \ {cur} : saved[t] = ~off[t]

(* AllListComplete, with the list as the set of its elements.              *)
Pending(t) == \E p \in Threads : pc[p] \in {"made", "listed"} /\ child[p] = t
AllInv ==
  /\ Distinct(all)
  /\ \A t \in Threads : t \in ToSet(all) <=> status[t] # "NONE" /\ ~Pending(t)

IInv ==
  /\ TypeOK /\ ~panicked
  /\ RunQueue /\ IdleInv /\ ChildInv /\ FlagInv
  /\ NoThreadLost /\ AllInv

-----------------------------------------------------------------------------

(* A step that only moves cur's pc: idle inside its loop, the others not.  *)
PcStep == \/ pc' = pc
          \/ cur = Idle /\ \E x \in IdlePC : pc' = [pc EXCEPT ![cur] = x]

Rest == UNCHANGED <<all, off, child>> /\ ticks' \in 0 .. TickMod - 1
        /\ start' \in [Threads -> 0 .. TickMod - 1]

(* Such a step takes no thread in or out of thread_start or a sleep.       *)
LEMMA PcStepFacts ==
  ASSUME TypeOK, IdleInv, PcStep
  PROVE  /\ pc' \in [Threads -> PC] /\ pc[Idle] \in IdlePC
         /\ \A t \in Threads : pc'[t] = pc[t] \/ (t = Idle /\ pc'[t] \in IdlePC)
<1> USE ThreadAssumption
<1>1. pc \in [Threads -> PC] /\ cur \in Threads /\ pc[Idle] \in IdlePC
  BY DEF TypeOK, ThreadTypeOK, IdleInv
<1>2. CASE pc' = pc
  BY <1>1, <1>2
<1>3. ASSUME NEW x \in IdlePC, cur = Idle, pc' = [pc EXCEPT ![cur] = x]
      PROVE  /\ pc' \in [Threads -> PC]
             /\ \A t \in Threads : pc'[t] = pc[t] \/ (t = Idle /\ pc'[t] \in IdlePC)
  BY <1>1, <1>3 DEF PC
<1> QED
  BY <1>1, <1>2, <1>3 DEF PcStep

(* Who is under construction depends on the pcs and the children alone.    *)
LEMMA CreationFrame ==
  ASSUME child' = child,
         \A p \in Threads : /\ pc'[p] = "made" <=> pc[p] = "made"
                            /\ pc'[p] = "listed" <=> pc[p] = "listed"
  PROVE  \A t : (Created(t)' <=> Created(t)) /\ (Pending(t)' <=> Pending(t))
BY DEF Created, Pending

(* A step that touches neither the lists nor the status of a thread.       *)
LEMMA FramePreserves ==
  ASSUME IInv, TypeOK', FlagInv', ~off'[Idle],
         UNCHANGED <<cur, status, ready, panicked, all, child>>,
         \A t \in Threads :
           \/ pc'[t] = pc[t]
           \/ pc[t] \in IdlePC /\ pc'[t] \in IdlePC
           \/ t = cur /\ pc[t] \in {"run", "sleep"} /\ pc'[t] \in {"run", "sleep"}
  PROVE  IInv'
<1> USE ThreadAssumption
<1>1. \A p \in Threads : /\ pc'[p] = "made" <=> pc[p] = "made"
                         /\ pc'[p] = "listed" <=> pc[p] = "listed"
                         /\ pc'[p] \in IdlePC <=> pc[p] \in IdlePC
  BY DEF IdlePC
<1>2. \A t : (Created(t)' <=> Created(t)) /\ (Pending(t)' <=> Pending(t))
  BY <1>1, CreationFrame
<1>3. RunQueue' /\ IdleInv' /\ ChildInv'
  BY <1>1 DEF IInv, RunQueue, IdleInv, ChildInv
<1>4. NoThreadLost'
  <2> SUFFICES ASSUME NEW t \in Threads, status[t] = "READY"
               PROVE  elem_find(ready, t) \/ Created(t) \/ pc'[t] = "sleep"
    BY <1>2 DEF NoThreadLost, elem_find
  <2>1. t # cur
    BY DEF IInv, RunQueue
  <2>2. elem_find(ready, t) \/ Created(t) \/ pc[t] = "sleep"
    BY DEF IInv, NoThreadLost
  <2> QED
    BY <2>1, <2>2 DEF IdlePC
<1>5. AllInv'
  BY <1>2 DEF IInv, AllInv
<1> QED
  BY <1>3, <1>4, <1>5 DEF IInv

(* Every way to give up the processor - blocking, yielding in a sleep, or  *)
(* being preempted - preserves the invariant.                              *)
LEMMA SwitchPreserves ==
  ASSUME IInv, Rest, PcStep,
         NEW s \in Blocked \cup {"READY", "RUNNING"},
         s = "READY" => pc[cur] = "sleep",
         NEW failed \in BOOLEAN, ~failed,
         schedule([status EXCEPT ![cur] = s], [saved EXCEPT ![cur] = ~off[cur]], failed)
  PROVE  IInv'
<1> USE ThreadAssumption
<1> DEFINE st == [status EXCEPT ![cur] = s]
           sv == [saved EXCEPT ![cur] = ~off[cur]]
           preempted == s = "RUNNING"
           nobody == ~preempted /\ ready = <<>>
<1>1. /\ ThreadTypeOK /\ Distinct(ready) /\ cur \notin ToSet(ready)
      /\ cur \in Threads /\ status \in [Threads -> Status]
      /\ saved \in [Threads -> BOOLEAN] /\ off \in [Threads -> BOOLEAN]
      /\ pc \in [Threads -> PC] /\ child \in [Threads -> Threads]
  BY DEF IInv, TypeOK, ThreadTypeOK, RunQueue
<1>2. /\ st \in [Threads -> Status] /\ sv \in [Threads -> BOOLEAN]
      /\ st[cur] = s /\ \A t \in Threads \ {cur} : st[t] = status[t]
      /\ \A t \in Threads : sv[t] = IF t = cur THEN ~off[cur] ELSE saved[t]
  BY <1>1 DEF Status
<1>3. /\ cur' \in Threads
      /\ saved' = sv /\ intr' = sv[cur']
      /\ slice' \in [Threads -> Nat]
      /\ ready' \in Seq(Threads) /\ Distinct(ready') /\ cur' \notin ToSet(ready')
      /\ status' = [t \in Threads |->
           IF t = cur' THEN "RUNNING"
           ELSE IF preempted /\ t = cur THEN "READY" ELSE st[t]]
      /\ \A t \in Threads : t \in ToSet(ready') \/ t = cur' <=>
           \/ t \in ToSet(ready)
           \/ preempted /\ t = cur
           \/ nobody /\ t = Idle
      /\ panicked' = (failed \/ (nobody /\ st[Idle] \notin Blocked))
  <2>1. schedule(st, sv, failed) /\ (st[cur] = "RUNNING" <=> preempted)
    BY <1>2
  <2> HIDE DEF st, sv
  <2>2. Switched(st, sv, failed)
    BY <1>1, <1>2, <2>1, ScheduleStep
  <2> QED
    BY <2>1, <2>2 DEF Switched, Nobody
<1> HIDE DEF st, sv
<1>4. \A t \in Threads : t \in ToSet(ready) => status[t] = "READY"
  BY DEF IInv, RunQueue
<1>5. \A t \in Threads : status[t] = "RUNNING" <=> t = cur
  BY DEF IInv, RunQueue
<1>6. ToSet(<<>>) = {}
  BY DEF ToSet
<1>7. nobody => st[Idle] \in Blocked
  <2>1. ASSUME nobody, Idle # cur PROVE status[Idle] \in Blocked
    BY <2>1, <1>1, <1>5, <1>6 DEF IInv, IdleInv, Status
  <2>2. ASSUME nobody, Idle = cur PROVE s \in Blocked
    BY <2>2, <1>1 DEF IInv, IdleInv, IdlePC
  <2> QED
    BY <2>1, <2>2, <1>2
<1>8. \A t \in Threads : status'[t] = "NONE" <=> status[t] = "NONE"
  <2> SUFFICES ASSUME NEW t \in Threads
               PROVE  status'[t] = "NONE" <=> status[t] = "NONE"
    OBVIOUS
  <2>1. CASE t = cur'
    BY <2>1, <1>1, <1>2, <1>3, <1>4, <1>5 DEF IInv, IdleInv
  <2>2. CASE t # cur'
    BY <2>2, <1>1, <1>2, <1>3, <1>5 DEF Blocked
  <2> QED
    BY <2>1, <2>2
<1>9. /\ pc' \in [Threads -> PC] /\ pc[Idle] \in IdlePC
      /\ \A t \in Threads : pc'[t] = pc[t] \/ (t = Idle /\ pc'[t] \in IdlePC)
  BY PcStepFacts DEF IInv
<1>10. \A t : (Created(t)' <=> Created(t)) /\ (Pending(t)' <=> Pending(t))
  BY <1>9, CreationFrame DEF IdlePC, Rest
<1>11. (TypeOK /\ ~panicked)'
  BY <1>1, <1>2, <1>3, <1>7, <1>9 DEF IInv, TypeOK, ThreadTypeOK, Rest, Status
<1>12. RunQueue'
  <2>1. ASSUME NEW t \in Threads, t \in ToSet(ready') PROVE status'[t] = "READY"
    <3>1. t # cur' /\ ~(nobody /\ t = Idle)
      BY <2>1, <1>3, <1>6
    <3>2. t \in ToSet(ready) \/ (preempted /\ t = cur)
      BY <2>1, <3>1, <1>3
    <3> QED
      BY <3>1, <3>2, <1>1, <1>2, <1>3, <1>4
  <2>2. ASSUME NEW t \in Threads PROVE status'[t] = "RUNNING" <=> t = cur'
    BY <1>1, <1>2, <1>3, <1>5
  <2> QED
    BY <2>1, <2>2, <1>3 DEF RunQueue
<1>13. IdleInv'
  BY <1>1, <1>2, <1>3, <1>8, <1>9 DEF IInv, IdleInv, Rest, IdlePC
<1>14. ChildInv'
  <2>1. \A p \in Threads : pc'[p] \in {"made", "listed"} => pc'[p] = pc[p]
    BY <1>9 DEF IdlePC
  <2>2. child' = child
    BY DEF Rest
  <2>3. ASSUME NEW p \in Threads, pc[p] = "made"
        PROVE  status'[child[p]] = "READY" /\ child[p] \notin ToSet(ready')
    <3>1. /\ child[p] \in Threads /\ status[child[p]] = "READY"
          /\ child[p] \notin ToSet(ready) /\ child[p] # Idle /\ child[p] # cur
      BY <2>3, <1>1, <1>5 DEF IInv, ChildInv, IdleInv
    <3> QED
      BY <3>1, <1>2, <1>3
  <2>4. ASSUME NEW p \in Threads, pc[p] = "listed" PROVE status'[child[p]] # "NONE"
    BY <2>4, <1>1, <1>8 DEF IInv, ChildInv
  <2> QED
    BY <2>1, <2>2, <2>3, <2>4 DEF IInv, ChildInv
<1>15. FlagInv'
  BY <1>1, <1>2, <1>3 DEF IInv, FlagInv, Rest
<1>16. NoThreadLost'
  <2> SUFFICES ASSUME NEW t \in Threads, status'[t] = "READY", t \notin ToSet(ready')
               PROVE  Created(t)' \/ pc'[t] = "sleep"
    BY DEF NoThreadLost, elem_find
  <2>1. /\ t # cur' /\ ~(preempted /\ t = cur) /\ t \notin ToSet(ready)
        /\ ~(nobody /\ t = Idle) /\ st[t] = "READY"
    BY <1>3
  <2>2. CASE t = cur
    BY <2>1, <2>2, <1>1, <1>2, <1>9 DEF IInv, IdleInv, IdlePC
  <2>3. CASE t # cur
    <3>1. status[t] = "READY"
      BY <2>1, <2>3, <1>2
    <3>2. Created(t) \/ pc[t] = "sleep"
      BY <3>1, <2>1 DEF IInv, NoThreadLost, elem_find
    <3> QED
      BY <3>2, <1>9, <1>10 DEF IdlePC
  <2> QED
    BY <2>2, <2>3
<1>17. AllInv'
  BY <1>8, <1>10 DEF IInv, AllInv, Rest
<1> QED
  BY <1>11, <1>12, <1>13, <1>14, <1>15, <1>16, <1>17 DEF IInv

(* thread_unblock, called by a thread or by a device handler.              *)
LEMMA WakePreserves ==
  ASSUME IInv, Rest, PcStep,
         NEW u \in Threads \ {Idle}, status[u] \in Blocked, thread_unblock(u, FALSE)
  PROVE  IInv'
<1> USE ThreadAssumption
<1>1. /\ cur \in Threads /\ ready \in Seq(Threads) /\ status \in [Threads -> Status]
      /\ pc \in [Threads -> PC] /\ child \in [Threads -> Threads]
      /\ u \notin ToSet(ready) /\ u # cur /\ Distinct(ready)
  BY DEF IInv, TypeOK, ThreadTypeOK, RunQueue, Blocked
<1>2. /\ ready' \in Seq(Threads) /\ Distinct(ready')
      /\ \A t : t \in ToSet(ready') <=> t \in ToSet(ready) \/ t = u
  BY <1>1, PushElements DEF thread_unblock
<1>3. /\ status' = [status EXCEPT ![u] = "READY"]
      /\ UNCHANGED <<cur, slice, intr, saved, all, off, child>>
      /\ panicked' = FALSE
  BY <1>1 DEF thread_unblock, Rest, elem_find
<1>4. /\ pc' \in [Threads -> PC] /\ pc[Idle] \in IdlePC
      /\ \A t \in Threads : pc'[t] = pc[t] \/ (t = Idle /\ pc'[t] \in IdlePC)
  BY PcStepFacts DEF IInv
<1>12. \A t : (Created(t)' <=> Created(t)) /\ (Pending(t)' <=> Pending(t))
  BY <1>3, <1>4, CreationFrame DEF IdlePC
<1>5. (TypeOK /\ ~panicked)'
  BY <1>1, <1>2, <1>3, <1>4 DEF IInv, TypeOK, ThreadTypeOK, Rest, Status
<1>6. RunQueue'
  BY <1>1, <1>2, <1>3 DEF IInv, RunQueue, Blocked
<1>7. IdleInv'
  BY <1>1, <1>2, <1>3, <1>4 DEF IInv, IdleInv, IdlePC
<1>8. ChildInv'
  BY <1>1, <1>2, <1>3, <1>4 DEF IInv, ChildInv, IdlePC, Blocked
<1>9. FlagInv'
  BY <1>1, <1>3 DEF IInv, FlagInv
<1>10. NoThreadLost'
  BY <1>1, <1>2, <1>3, <1>4, <1>12 DEF IInv, NoThreadLost, IdlePC, elem_find
<1>11. AllInv'
  BY <1>1, <1>3, <1>12 DEF IInv, AllInv, Blocked
<1> QED
  BY <1>5, <1>6, <1>7, <1>8, <1>9, <1>10, <1>11 DEF IInv

(* thread_init leaves main running and idle listed.                        *)
LEMMA InitEstablishes == Init => IInv
<1> USE ThreadAssumption, SchedulerAssumption
<1> SUFFICES ASSUME Init PROVE IInv
  OBVIOUS
<1>1. /\ Len(ready) = 1 /\ ready \in Seq(Threads) /\ Distinct(ready)
      /\ \A t : t \in ToSet(ready) <=> t = Idle
  BY DEF Init, ThreadInit, Distinct, ToSet
<1>2. /\ all \in Seq(Threads) /\ Distinct(all)
      /\ \A t : t \in ToSet(all) <=> t \in {Main, Idle}
  <2>1. all = <<Main, Idle>> /\ DOMAIN all = {1, 2} /\ all[1] = Main /\ all[2] = Idle
    BY DEF Init
  <2> QED
    BY <2>1 DEF Distinct, ToSet
<1>3. TypeOK /\ ~panicked
  <2>1. /\ cur \in Threads /\ status \in [Threads -> Status] /\ slice \in [Threads -> Nat]
        /\ intr \in BOOLEAN /\ saved \in [Threads -> BOOLEAN] /\ panicked = FALSE
    BY DEF Init, ThreadInit, Status
  <2>2. pc \in [Threads -> PC]
    BY DEF Init, PC, IdlePC
  <2>3. /\ ticks \in 0 .. TickMod - 1 /\ start \in [Threads -> 0 .. TickMod - 1]
        /\ off \in [Threads -> BOOLEAN] /\ child \in [Threads -> Threads]
    BY DEF Init
  <2> QED
    BY <1>1, <1>2, <2>1, <2>2, <2>3 DEF TypeOK, ThreadTypeOK
<1>4. RunQueue
  BY <1>1 DEF Init, ThreadInit, RunQueue
<1>5. IdleInv /\ ChildInv /\ FlagInv
  BY <1>1 DEF Init, ThreadInit, IdleInv, ChildInv, FlagInv, IdlePC
<1>6. NoThreadLost /\ AllInv
  BY <1>1, <1>2 DEF Init, ThreadInit, NoThreadLost, AllInv, Pending, elem_find
<1> QED
  BY <1>3, <1>4, <1>5, <1>6 DEF IInv

(* What every action starts from.                                          *)
Basics ==
  /\ cur \in Threads /\ ready \in Seq(Threads) /\ all \in Seq(Threads)
  /\ status \in [Threads -> Status] /\ slice \in [Threads -> Nat]
  /\ intr \in BOOLEAN /\ saved \in [Threads -> BOOLEAN] /\ panicked = FALSE
  /\ ticks \in 0 .. TickMod - 1 /\ start \in [Threads -> 0 .. TickMod - 1]
  /\ pc \in [Threads -> PC] /\ off \in [Threads -> BOOLEAN]
  /\ child \in [Threads -> Threads]
  /\ cur \notin ToSet(ready) /\ Distinct(ready) /\ status[cur] = "RUNNING"
  /\ intr = ~off[cur] /\ ~off[Idle]
  /\ pc[cur] \in {"run", "made", "listed", "sleep"} <=> cur # Idle

(* It follows from the invariant. *)
LEMMA Facts == ASSUME IInv PROVE Basics
<1>1. /\ cur \in Threads /\ ready \in Seq(Threads) /\ all \in Seq(Threads)
      /\ status \in [Threads -> Status] /\ slice \in [Threads -> Nat]
      /\ intr \in BOOLEAN /\ saved \in [Threads -> BOOLEAN] /\ panicked = FALSE
      /\ ticks \in 0 .. TickMod - 1 /\ start \in [Threads -> 0 .. TickMod - 1]
      /\ pc \in [Threads -> PC] /\ off \in [Threads -> BOOLEAN]
      /\ child \in [Threads -> Threads]
  BY DEF IInv, TypeOK, ThreadTypeOK
<1>2. cur \notin ToSet(ready) /\ Distinct(ready) /\ status[cur] = "RUNNING"
  BY <1>1 DEF IInv, RunQueue
<1>3. intr = ~off[cur] /\ ~off[Idle]
  BY DEF IInv, FlagInv, IdleInv
<1>4. pc[cur] \in {"run", "made", "listed", "sleep"} <=> cur # Idle
  BY <1>1 DEF IInv, IdleInv, IdlePC, PC
<1> QED
  BY <1>1, <1>2, <1>3, <1>4 DEF Basics

(* intr_disable, intr_enable and hlt change the flag of the running thread *)
(* only, a sleeper its start_tick only.                                    *)
LEMMA QuietPreserves ==
  ASSUME IInv, IntrOff \/ IntrOn \/ mtime_sleep \/ (idle_hlt /\ UNCHANGED cvars)
  PROVE  IInv'
<1> USE ThreadAssumption
<1>0. Basics
  BY Facts
<1> USE <1>0 DEF Basics
<1>1. CASE IntrOff
  <2>1. /\ off' = [off EXCEPT ![cur] = TRUE] /\ intr' = FALSE /\ cur # Idle
        /\ UNCHANGED <<cur, status, ready, slice, saved, panicked, all, ticks, pc, child, start>>
    BY <1>1 DEF IntrOff, intr_disable, At
  <2>2. TypeOK' /\ FlagInv' /\ ~off'[Idle]
    BY <2>1 DEF IInv, TypeOK, ThreadTypeOK, FlagInv
  <2> QED
    BY <2>1, <2>2, FramePreserves
<1>2. CASE IntrOn
  <2>1. /\ off' = [off EXCEPT ![cur] = FALSE] /\ intr' = TRUE
        /\ UNCHANGED <<cur, status, ready, slice, saved, panicked, all, ticks, pc, child, start>>
    BY <1>2 DEF IntrOn, intr_enable, At
  <2>2. TypeOK' /\ FlagInv' /\ ~off'[Idle]
    BY <2>1 DEF IInv, TypeOK, ThreadTypeOK, FlagInv
  <2> QED
    BY <2>1, <2>2, FramePreserves
<1>3. CASE mtime_sleep
  <2>1. /\ start' = [start EXCEPT ![cur] = ticks]
        /\ pc[cur] = "run" /\ pc' = [pc EXCEPT ![cur] = "sleep"]
        /\ UNCHANGED <<cur, status, ready, slice, intr, saved, panicked, all, ticks, off, child>>
    BY <1>3 DEF mtime_sleep, At, Goto, tvars
  <2>2. TypeOK' /\ FlagInv' /\ ~off'[Idle]
    BY <2>1 DEF IInv, TypeOK, ThreadTypeOK, FlagInv, PC
  <2> QED
    BY <2>1, <2>2, FramePreserves
<1>4. CASE idle_hlt /\ UNCHANGED cvars
  <2>1. /\ pc[cur] = "wake" /\ pc' = [pc EXCEPT ![cur] = "hlt"] /\ intr' = TRUE
        /\ UNCHANGED <<cur, status, ready, slice, saved, panicked, all, ticks, off, child, start>>
    BY <1>4 DEF idle_hlt, intr_enable, At, Goto, cvars
  <2>2. cur = Idle
    BY <2>1
  <2>3. TypeOK' /\ FlagInv' /\ ~off'[Idle]
    BY <2>1, <2>2 DEF IInv, TypeOK, ThreadTypeOK, FlagInv, PC, IdlePC
  <2> QED
    BY <2>1, <2>3, FramePreserves DEF IdlePC
<1> QED
  BY <1>1, <1>2, <1>3, <1>4

(* init_thread takes a fresh PCB.                                          *)
LEMMA InitThreadPreserves == ASSUME IInv, init_thread PROVE IInv'
<1> USE ThreadAssumption
<1>0. Basics
  BY Facts
<1> USE <1>0 DEF Basics
<1>1. PICK c \in Threads :
        /\ status[c] = "NONE"
        /\ status' = [status EXCEPT ![c] = "READY"]
        /\ slice' = [slice EXCEPT ![c] = Prio[c]]
        /\ child' = [child EXCEPT ![cur] = c]
  BY DEF init_thread
<1>2. /\ pc[cur] = "run" /\ pc' = [pc EXCEPT ![cur] = "made"]
      /\ UNCHANGED <<cur, ready, intr, saved, panicked, all, ticks, off, start>>
  BY DEF init_thread, At, Goto
<1>3. c # cur /\ c # Idle /\ c \notin ToSet(ready) /\ cur # Idle
  BY <1>1, <1>2 DEF IInv, IdleInv, RunQueue
<1>4. (TypeOK /\ ~panicked)'
  BY <1>1, <1>2 DEF IInv, TypeOK, ThreadTypeOK, Status, PC
<1>5. (RunQueue /\ FlagInv)'
  BY <1>1, <1>2, <1>3 DEF IInv, RunQueue, FlagInv
<1>6. IdleInv'
  BY <1>1, <1>2, <1>3 DEF IInv, IdleInv, IdlePC
<1>7. \A p \in Threads : pc[p] \in {"made", "listed"} =>
        p # cur /\ status[child[p]] # "NONE" /\ child'[p] = child[p] /\ pc'[p] = pc[p]
  BY <1>1, <1>2 DEF IInv, ChildInv
<1>8. pc'[cur] = "made" /\ child'[cur] = c
  BY <1>1, <1>2
<1>9. \A p \in Threads : pc'[p] \in {"made", "listed"} =>
        p = cur \/ (pc'[p] = pc[p] /\ child'[p] = child[p] /\ child[p] # c)
  BY <1>1, <1>2, <1>7
<1>10. ChildInv'
  <2>1. /\ status'[c] = "READY" /\ c \notin ToSet(ready')
        /\ \A t \in Threads \ {c} : status'[t] = status[t]
    BY <1>1, <1>2, <1>3
  <2>2. ASSUME NEW p \in Threads, p # cur, pc'[p] \in {"made", "listed"}
        PROVE  /\ pc'[p] = pc[p] /\ child'[p] = child[p] /\ child[p] \in Threads \ {c}
               /\ pc[p] = "made" => status[child[p]] = "READY" /\ child[p] \notin ToSet(ready)
               /\ status[child[p]] # "NONE"
    <3>1. pc'[p] = pc[p] /\ child'[p] = child[p] /\ child[p] \in Threads \ {c}
      BY <2>2, <1>9
    <3> QED
      BY <2>2, <3>1 DEF IInv, ChildInv
  <2>3. ASSUME NEW p \in Threads, pc'[p] = "made"
        PROVE  status'[child'[p]] = "READY" /\ child'[p] \notin ToSet(ready')
    <3>1. CASE p = cur
      BY <3>1, <2>1, <1>8
    <3>2. CASE p # cur
      <4>1. pc'[p] \in {"made", "listed"}
        BY <2>3
      <4>2. /\ pc[p] = "made" /\ child'[p] = child[p] /\ child[p] \in Threads \ {c}
            /\ status[child[p]] = "READY" /\ child[p] \notin ToSet(ready)
        BY <3>2, <4>1, <2>2, <2>3
      <4>3. status'[child[p]] = status[child[p]] /\ ready' = ready
        BY <4>2, <2>1, <1>2
      <4> QED
        BY <4>2, <4>3
    <3> QED
      BY <3>1, <3>2
  <2>4. ASSUME NEW p \in Threads, pc'[p] = "listed" PROVE status'[child'[p]] # "NONE"
    <3>1. p # cur
      BY <2>4, <1>8
    <3>2. pc'[p] \in {"made", "listed"}
      BY <2>4
    <3>3. /\ child'[p] = child[p] /\ child[p] \in Threads \ {c}
          /\ status[child[p]] # "NONE"
      BY <3>1, <3>2, <2>2
    <3>4. status'[child[p]] = status[child[p]]
      BY <3>3, <2>1
    <3> QED
      BY <3>3, <3>4
  <2>5. ASSUME NEW p \in Threads, NEW q \in Threads, pc'[p] \in {"made", "listed"},
               pc'[q] \in {"made", "listed"}, child'[p] = child'[q]
        PROVE  p = q
    <3>1. CASE p = cur \/ q = cur
      BY <3>1, <2>2, <2>5, <1>8
    <3>2. CASE p # cur /\ q # cur
      <4>1. pc[p] \in {"made", "listed"} /\ pc[q] \in {"made", "listed"} /\ child[p] = child[q]
        BY <3>2, <2>2, <2>5
      <4> QED
        BY <4>1 DEF IInv, ChildInv
    <3> QED
      BY <3>1, <3>2
  <2> QED
    BY <2>3, <2>4, <2>5 DEF ChildInv
<1>11. \A t : /\ Created(t)' <=> Created(t) \/ t = c
              /\ Pending(t)' <=> Pending(t) \/ t = c
  BY <1>7, <1>8, <1>9 DEF Created, Pending
<1>12. NoThreadLost'
  BY <1>1, <1>2, <1>11 DEF IInv, NoThreadLost, elem_find
<1>13. AllInv'
  BY <1>1, <1>2, <1>11 DEF IInv, AllInv
<1> QED
  BY <1>4, <1>5, <1>6, <1>10, <1>12, <1>13 DEF IInv

(* The two list_appends of thread_start and process_execute.               *)
LEMMA EnlistPreserves ==
  ASSUME IInv, thread_start \/ thread_started \/ process_execute
  PROVE  IInv'
<1> USE ThreadAssumption
<1>0. Basics
  BY Facts
<1> USE <1>0 DEF Basics
<1> DEFINE c == child[cur]
<1>1. /\ UNCHANGED <<cur, status, slice, intr, saved, ticks, off, child, start>>
      /\ cur # Idle /\ c \in Threads
      /\ \/ pc[cur] = "made" /\ pc' = [pc EXCEPT ![cur] = "listed"]
         \/ pc[cur] \in {"made", "listed"} /\ pc' = [pc EXCEPT ![cur] = "run"]
      /\ pc[cur] = "made" => ready' = Append(ready, c)
      /\ pc[cur] = "listed" => ready' = ready
      /\ pc'[cur] = "run" => all' = Append(all, c)
      /\ pc'[cur] = "listed" => all' = all
  BY DEF thread_start, thread_started, process_execute, At, Goto
<1>2. status[c] # "NONE" /\ c \notin ToSet(all) /\ Distinct(all)
  BY <1>1 DEF IInv, ChildInv, AllInv, Pending
<1>3. pc[cur] = "made" => status[c] = "READY" /\ c \notin ToSet(ready) /\ c # cur /\ c # Idle
  <2>1. pc[cur] = "made" => status[c] = "READY" /\ c \notin ToSet(ready)
    BY <1>1 DEF IInv, ChildInv
  <2> QED
    BY <1>1, <2>1 DEF IInv, IdleInv, RunQueue
<1>4. panicked' = FALSE
  BY <1>1, <1>2, <1>3 DEF thread_start, thread_started, process_execute, At, elem_find
<1>5. /\ ready' \in Seq(Threads) /\ Distinct(ready')
      /\ \A t : t \in ToSet(ready') <=> t \in ToSet(ready) \/ (pc[cur] = "made" /\ t = c)
  <2>1. CASE pc[cur] = "made"
    <3>1. /\ ready \in Seq(Threads) /\ c \in Threads /\ c \notin ToSet(ready) /\ Distinct(ready)
          /\ ready' = Append(ready, c)
      BY <2>1, <1>1, <1>3
    <3> HIDE DEF c
    <3>2. /\ Append(ready, c) \in Seq(Threads) /\ Distinct(Append(ready, c))
          /\ \A t : t \in ToSet(Append(ready, c)) <=> t \in ToSet(ready) \/ t = c
      BY <3>1, AppendElements
    <3> QED
      BY <2>1, <3>1, <3>2
  <2>2. CASE pc[cur] = "listed"
    BY <2>2, <1>1
  <2> QED
    BY <2>1, <2>2, <1>1
<1>6. /\ all' \in Seq(Threads) /\ Distinct(all')
      /\ \A t : t \in ToSet(all') <=> t \in ToSet(all) \/ (pc'[cur] = "run" /\ t = c)
  <2>1. CASE pc'[cur] = "run"
    <3>1. /\ all \in Seq(Threads) /\ c \in Threads /\ c \notin ToSet(all) /\ Distinct(all)
          /\ all' = Append(all, c)
      BY <2>1, <1>1, <1>2
    <3> HIDE DEF c
    <3>2. /\ Append(all, c) \in Seq(Threads) /\ Distinct(Append(all, c))
          /\ \A t : t \in ToSet(Append(all, c)) <=> t \in ToSet(all) \/ t = c
      BY <3>1, AppendElements
    <3> QED
      BY <2>1, <3>1, <3>2
  <2>2. CASE pc'[cur] = "listed"
    BY <2>2, <1>1, <1>2
  <2> QED
    BY <2>1, <2>2, <1>1
<1> HIDE DEF c
<1>7. pc' \in [Threads -> PC] /\ \A t \in Threads \ {cur} : pc'[t] = pc[t]
  BY <1>1 DEF PC
<1>8. pc'[cur] \in {"run", "listed"} /\ pc[cur] \in {"made", "listed"}
  BY <1>1
<1>9. (TypeOK /\ ~panicked)'
  BY <1>1, <1>4, <1>5, <1>6, <1>7 DEF IInv, TypeOK, ThreadTypeOK
<1>10. (RunQueue /\ FlagInv)'
  BY <1>1, <1>3, <1>5 DEF IInv, RunQueue, FlagInv
<1>11. IdleInv'
  BY <1>1, <1>5, <1>7, <1>8 DEF IInv, IdleInv, IdlePC
<1>12. \A p \in Threads : p # cur /\ pc[p] \in {"made", "listed"} => child[p] # c
  BY <1>8 DEF IInv, ChildInv, c
<1>13. ChildInv'
  <2>1. \A p \in Threads : pc'[p] = "made" => p # cur /\ pc[p] = "made"
    BY <1>7, <1>8
  <2>2. \A p \in Threads : pc'[p] \in {"made", "listed"} => pc[p] \in {"made", "listed"}
    BY <1>7, <1>8
  <2>3. ASSUME NEW p \in Threads, pc'[p] = "made"
        PROVE  status'[child'[p]] = "READY" /\ child'[p] \notin ToSet(ready')
    BY <2>1, <2>3, <1>1, <1>5, <1>12 DEF IInv, ChildInv
  <2>4. ASSUME NEW p \in Threads, pc'[p] = "listed" PROVE status'[child'[p]] # "NONE"
    BY <2>2, <2>4, <1>1 DEF IInv, ChildInv
  <2> QED
    BY <2>2, <2>3, <2>4, <1>1 DEF IInv, ChildInv
<1>14. \A t : /\ Created(t) => Created(t)' \/ (pc[cur] = "made" /\ t = c)
              /\ Pending(t)' <=> Pending(t) /\ ~(pc'[cur] = "run" /\ t = c)
  <2>1. \A t : Created(t) => Created(t)' \/ (pc[cur] = "made" /\ t = c)
    BY <1>1, <1>7 DEF Created, c
  <2>2. \A t : Pending(t)' => Pending(t) /\ ~(pc'[cur] = "run" /\ t = c)
    BY <1>1, <1>7, <1>8, <1>12 DEF Pending, c
  <2>3. \A t : Pending(t) /\ ~(pc'[cur] = "run" /\ t = c) => Pending(t)'
    BY <1>1, <1>7, <1>8 DEF Pending, c
  <2> QED
    BY <2>1, <2>2, <2>3
<1>15. NoThreadLost'
  <2>1. ASSUME NEW t \in Threads, status[t] = "READY"
        PROVE  t \in ToSet(ready') \/ Created(t)' \/ pc'[t] = "sleep"
    BY <2>1, <1>5, <1>7, <1>14 DEF IInv, NoThreadLost, elem_find
  <2> QED
    BY <2>1, <1>1 DEF NoThreadLost, elem_find
<1>16. AllInv'
  BY <1>1, <1>2, <1>6, <1>14 DEF IInv, AllInv
<1> QED
  BY <1>9, <1>10, <1>11, <1>13, <1>15, <1>16 DEF IInv

(* One turn of ticks_to_sleep: yield, or leave the loop.                   *)
LEMMA SleepPreserves == ASSUME IInv, ticks_to_sleep PROVE IInv'
<1> USE ThreadAssumption
<1>0. Basics
  BY Facts
<1> USE <1>0 DEF Basics
<1>1. pc[cur] = "sleep" /\ UNCHANGED <<all, ticks, off, child, start>>
  BY DEF ticks_to_sleep, At
<1>2. CASE thread_yield /\ UNCHANGED pc
  <2>1. Rest /\ PcStep
    BY <1>1, <1>2 DEF Rest, PcStep
  <2>2. schedule([status EXCEPT ![cur] = "READY"], [saved EXCEPT ![cur] = ~off[cur]],
                 elem_find(ready, cur))
    BY <1>2 DEF thread_yield
  <2>3. elem_find(ready, cur) = FALSE
    BY DEF elem_find
  <2> QED
    BY <1>1, <2>1, <2>2, <2>3, SwitchPreserves
<1>3. CASE Goto("run") /\ UNCHANGED tvars
  <2>1. pc' = [pc EXCEPT ![cur] = "run"] /\ UNCHANGED <<cur, status, ready, slice, intr, saved, panicked>>
    BY <1>3 DEF Goto, tvars
  <2>2. TypeOK' /\ FlagInv' /\ ~off'[Idle]
    BY <1>1, <2>1 DEF IInv, TypeOK, ThreadTypeOK, FlagInv, PC
  <2> QED
    BY <1>1, <2>1, <2>2, FramePreserves
<1> QED
  BY <1>2, <1>3 DEF ticks_to_sleep

(* An interrupt brings a halted idle_thread back to the top of its loop.   *)
LEMMA LeaveHltStep == ASSUME IInv, LeaveHlt PROVE PcStep
<1>1. pc[cur] = "hlt" => cur = Idle
  BY Facts DEF Basics
<1> QED
  BY <1>1 DEF LeaveHlt, Goto, PcStep, IdlePC

(* The clock charges the running thread or preempts it.                    *)
LEMMA TimerPreserves == ASSUME IInv, TimerInterrupt PROVE IInv'
<1> USE ThreadAssumption, SchedulerAssumption
<1>0. Basics
  BY Facts
<1> USE <1>0 DEF Basics
<1>1. intr /\ intr_timer_handler /\ PcStep
  BY LeaveHltStep DEF TimerInterrupt, TimerTick, intr_timer_handler
<1>2. Rest
  <2>1. (ticks + 1) % TickMod \in 0 .. TickMod - 1
    OBVIOUS
  <2> QED
    BY <2>1 DEF TimerInterrupt, Rest
<1>3. CASE slice[cur] = 0
  <2>1. /\ [status EXCEPT ![cur] = "RUNNING"] = status
        /\ [saved EXCEPT ![cur] = ~off[cur]] = [saved EXCEPT ![cur] = TRUE]
    BY <1>1
  <2>2. schedule([status EXCEPT ![cur] = "RUNNING"], [saved EXCEPT ![cur] = ~off[cur]], FALSE)
    BY <1>1, <1>3, <2>1 DEF intr_timer_handler
  <2> QED
    BY <1>1, <1>2, <2>2, SwitchPreserves
<1>4. CASE slice[cur] # 0
  <2>1. /\ slice' = [slice EXCEPT ![cur] = @ - 1] /\ slice[cur] - 1 \in Nat
        /\ UNCHANGED <<cur, status, ready, intr, saved, panicked, all, off, child>>
    <3>1. slice[cur] \in Nat /\ slice[cur] - 1 \in Nat
      BY <1>4
    <3>2. UNCHANGED <<cur, status, ready, intr, saved, panicked>> /\ slice' = [slice EXCEPT ![cur] = @ - 1]
      BY <1>1, <1>4 DEF intr_timer_handler
    <3> QED
      BY <3>1, <3>2, <1>2 DEF Rest
  <2>2. /\ pc' \in [Threads -> PC]
        /\ \A t \in Threads : pc'[t] = pc[t] \/ (pc[t] \in IdlePC /\ pc'[t] \in IdlePC)
    BY <1>1, PcStepFacts DEF IInv
  <2>3. TypeOK' /\ FlagInv' /\ ~off'[Idle]
    BY <1>2, <2>1, <2>2 DEF IInv, TypeOK, ThreadTypeOK, FlagInv, Rest
  <2> QED
    BY <2>1, <2>2, <2>3, FramePreserves
<1> QED
  BY <1>3, <1>4

(* A device handler wakes a thread, or nobody waits.                       *)
LEMMA DevicePreserves == ASSUME IInv, DeviceInterrupt PROVE IInv'
<1> USE ThreadAssumption
<1>0. Basics
  BY Facts
<1> USE <1>0 DEF Basics
<1>1. UNCHANGED <<all, ticks, off, child, start>> /\ PcStep
  BY LeaveHltStep DEF DeviceInterrupt
<1>2. Rest
  BY <1>1 DEF Rest
<1>3. CASE \E u \in Threads \ {Idle} : status[u] \in Blocked /\ thread_unblock(u, FALSE)
  BY <1>1, <1>2, <1>3, WakePreserves
<1>4. CASE UNCHANGED tvars
  <2>1. UNCHANGED <<cur, status, ready, slice, intr, saved, panicked>>
    BY <1>4 DEF tvars
  <2>2. /\ pc' \in [Threads -> PC]
        /\ \A t \in Threads : pc'[t] = pc[t] \/ (pc[t] \in IdlePC /\ pc'[t] \in IdlePC)
    BY <1>1, PcStepFacts DEF IInv
  <2>3. TypeOK' /\ FlagInv' /\ ~off'[Idle]
    BY <1>1, <2>1, <2>2 DEF IInv, TypeOK, ThreadTypeOK, FlagInv
  <2> QED
    BY <1>1, <2>1, <2>2, <2>3, FramePreserves
<1> QED
  BY <1>3, <1>4 DEF DeviceInterrupt

(* Every action of the client, of idle_thread and of the interrupts.       *)
LEMMA NextPreserves == IInv /\ [Next]_vars => IInv'
<1> USE ThreadAssumption, SchedulerAssumption
<1> SUFFICES ASSUME IInv, [Next]_vars PROVE IInv'
  OBVIOUS
<1>0. Basics
  BY Facts
<1> USE <1>0 DEF Basics
<1>1. CASE IntrOff \/ IntrOn \/ mtime_sleep
  BY <1>1, QuietPreserves
<1>2. CASE Block
  <2>1. PICK stat \in BlockStats : thread_block(stat, FALSE)
    BY <1>2 DEF Block
  <2>2. Rest /\ PcStep
    BY <1>2 DEF Block, cvars, Rest, PcStep
  <2>3. schedule([status EXCEPT ![cur] = stat], [saved EXCEPT ![cur] = ~off[cur]],
                 FALSE \/ stat \notin Blocked)
    BY <2>1 DEF thread_block
  <2>4. stat \in Blocked /\ stat # "READY" /\ (FALSE \/ stat \notin Blocked) = FALSE
    BY DEF Blocked
  <2> QED
    BY <2>2, <2>3, <2>4, SwitchPreserves
<1>3. CASE Unblock
  <2>1. Rest /\ PcStep
    BY <1>3 DEF Unblock, cvars, Rest, PcStep
  <2> QED
    BY <1>3, <2>1, WakePreserves DEF Unblock
<1>4. CASE CreateStep
  BY <1>4, InitThreadPreserves, EnlistPreserves DEF CreateStep
<1>5. CASE ticks_to_sleep
  BY <1>5, SleepPreserves
<1>6. CASE idle
  <2>1. CASE idle_block
    <3>1. Rest /\ PcStep
      BY <1>6, <2>1 DEF idle, idle_block, At, Goto, cvars, Rest, PcStep, IdlePC
    <3>2. schedule([status EXCEPT ![cur] = "BLOCKED"], [saved EXCEPT ![cur] = ~off[cur]],
                   FALSE \/ "BLOCKED" \notin Blocked)
      BY <2>1 DEF idle_block, thread_block
    <3>3. "BLOCKED" \in Blocked /\ (FALSE \/ "BLOCKED" \notin Blocked) = FALSE
      BY DEF Blocked
    <3> QED
      BY <3>1, <3>2, <3>3, SwitchPreserves
  <2>2. CASE idle_hlt
    BY <1>6, <2>2, QuietPreserves DEF idle
  <2> QED
    BY <1>6, <2>1, <2>2 DEF idle, IdleStep
<1>7. CASE TimerInterrupt
  BY <1>7, TimerPreserves
<1>8. CASE DeviceInterrupt
  BY <1>8, DevicePreserves
<1>9. CASE UNCHANGED vars
  <2>1. /\ UNCHANGED <<cur, status, ready, slice, intr, saved, panicked, pc>>
        /\ UNCHANGED <<all, ticks, off, child, start>>
    BY <1>9 DEF vars, tvars, cvars
  <2>2. TypeOK' /\ FlagInv' /\ ~off'[Idle]
    BY <2>1 DEF IInv, TypeOK, ThreadTypeOK, FlagInv
  <2> QED
    BY <2>1, <2>2, FramePreserves
<1> QED
  BY <1>1, <1>2, <1>3, <1>4, <1>5, <1>6, <1>7, <1>8, <1>9 DEF Next, SleepStep
-----------------------------------------------------------------------------

(* The running theorem the others read their property from.                *)
LEMMA Inductive == Spec => []IInv
<1>1. Init => IInv
  BY InitEstablishes
<1>2. IInv /\ [Next]_vars => IInv'
  BY NextPreserves
<1> QED
  BY <1>1, <1>2, PTL DEF Spec

(* Every state of the scheduler has its type, whatever the client does.    *)
THEOREM TypeCorrect == Spec => []TypeOK
<1>1. IInv => TypeOK
  BY DEF IInv
<1> QED
  BY <1>1, Inductive, PTL

(* No ASSERT of schedule, thread_block, thread_unblock, thread_yield,      *)
(* thread_start or process_execute can fail: panic_spin is unreachable.    *)
THEOREM NeverPanics == Spec => []NoPanic
<1>1. IInv => NoPanic
  BY DEF IInv, NoPanic
<1> QED
  BY <1>1, Inductive, PTL

(* schedule, thread_unblock, thread_start: the ready list has no thread    *)
(* twice and READY threads only, and the thread on the CPU alone RUNNING.  *)
THEOREM RunQueueIsSound == Spec => []RunQueueSound
<1>1. IInv => RunQueueSound
  BY DEF IInv, RunQueue, RunQueueSound, Distinct, elem_find
<1> QED
  BY <1>1, Inductive, PTL

(* thread_start, process_execute, thread_unblock: a READY thread waits on  *)
(* the ready list, unless its creator or its own sleep explains why not.   *)
THEOREM ReadyThreadsAreListed == Spec => []NoThreadLost
<1>1. IInv => NoThreadLost
  BY DEF IInv
<1> QED
  BY <1>1, Inductive, PTL

(* thread_block, thread_yield, the interrupt exit: the flag a thread left  *)
(* is the flag it finds when it runs again.                                *)
THEOREM FlagSurvivesSwitches == Spec => []InterruptFlagRestored
<1>1. IInv => InterruptFlagRestored
  BY DEF IInv, FlagInv, InterruptFlagRestored
<1> QED
  BY <1>1, Inductive, PTL

(* thread_start, process_execute: thread_all_list holds each thread once.  *)
THEOREM AllListIsComplete == Spec => []AllListComplete
<1>1. IInv => AllListComplete
  BY DEF IInv, AllInv, Pending, AllListComplete, Distinct, elem_find
<1> QED
  BY <1>1, Inductive, PTL

(* intr_timer_handler, schedule: with its interrupts off a thread gives    *)
(* the processor away itself or not at all.                                *)
THEOREM RegionsAreCritical == Spec => CriticalRegionNotPreempted
<1> USE ThreadAssumption, SchedulerAssumption
<1> DEFINE Kept == cur' # cur /\ off[cur] => status'[cur] # "READY" \/ pc[cur] = "sleep"
<1>1. ASSUME IInv, Next PROVE Kept
  <2>0. Basics
    BY <1>1, Facts
  <2>1. CASE IntrOff \/ IntrOn \/ Unblock \/ CreateStep \/ DeviceInterrupt
    BY <2>1 DEF IntrOff, IntrOn, Unblock, CreateStep, DeviceInterrupt, intr_disable, intr_enable,
                thread_unblock, init_thread, thread_start, thread_started, process_execute, tvars
  <2>2. CASE Block
    <3>1. PICK stat \in BlockStats : thread_block(stat, FALSE)
      BY <2>2 DEF Block
    <3>2. stat \in Blocked /\ (FALSE \/ stat \notin Blocked) = FALSE
      BY <3>1
    <3>3. Switched([status EXCEPT ![cur] = stat], [saved EXCEPT ![cur] = intr], FALSE)
      BY <1>1, <2>0, <3>1, <3>2, ScheduleStep
         DEF Basics, IInv, TypeOK, ThreadTypeOK, Status, RunQueue, thread_block
    <3>4. cur' # cur => status'[cur] = stat
      BY <1>1, <3>2, <3>3 DEF Switched, IInv, TypeOK, ThreadTypeOK, Blocked
    <3> QED
      BY <3>2, <3>4 DEF Blocked
  <2>3. CASE SleepStep
    BY <2>3 DEF SleepStep, mtime_sleep, ticks_to_sleep, At, tvars
  <2>4. CASE idle
    <3>1. pc[cur] \in IdlePC
      BY <2>4 DEF idle, IdleStep, idle_block, idle_hlt, At, IdlePC
    <3> QED
      BY <1>1, <3>1 DEF IInv, IdleInv, TypeOK, ThreadTypeOK
  <2>5. CASE TimerInterrupt
    BY <1>1, <2>5 DEF IInv, FlagInv, TimerInterrupt, TimerTick, intr_timer_handler
  <2> QED
    BY <1>1, <2>1, <2>2, <2>3, <2>4, <2>5 DEF Next
<1>2. IInv /\ [Next]_vars => [Kept]_vars
  BY <1>1
<1> QED
  BY <1>2, Inductive, PTL DEF Spec, CriticalRegionNotPreempted

-----------------------------------------------------------------------------

(* The address spaces of Process, for every set of threads and processes.  *)
PInv == IInv /\ SpaceOK /\ SpaceFollows

(* Every step is a step of the scheduler or leaves its state alone.        *)
LEMMA StepIsSchedulerStep == ASSUME [ProcessNext]_pvars PROVE [Next]_vars
BY DEF ProcessNext, KeepStep, SwitchStep, block_switch, sleep_switch, idle_switch,
       timer_switch, create_page_dir, list_process, list_thread, Next, CreateStep,
       SleepStep, pvars

(* What holds of the scheduler holds of it with address spaces.            *)
THEOREM ProcessRefinesScheduler == ProcessSpec => Spec
<1>1. ProcessInit => Init
  BY DEF ProcessInit
<1>2. [ProcessNext]_pvars => [Next]_vars
  BY StepIsSchedulerStep
<1> QED
  BY <1>1, <1>2, PTL DEF ProcessSpec, Spec

(* Without a call of schedule() the processor keeps its thread.            *)
LEMMA KeepStepKeepsCur == ASSUME KeepStep PROVE cur' = cur
<1>1. CASE IntrOff \/ IntrOn \/ Unblock \/ DeviceInterrupt
  BY <1>1 DEF IntrOff, IntrOn, Unblock, DeviceInterrupt, intr_disable, intr_enable,
              thread_unblock, tvars
<1>2. CASE init_thread \/ thread_started \/ mtime_sleep
  BY <1>2 DEF init_thread, thread_started, mtime_sleep, tvars
<1>3. CASE ticks_to_sleep /\ pc' # pc
  BY <1>3 DEF ticks_to_sleep, tvars
<1>4. CASE At("wake") /\ idle
  BY <1>4 DEF idle, IdleStep, idle_block, idle_hlt, At, intr_enable
<1>5. CASE slice[cur] # 0 /\ TimerInterrupt
  BY <1>5 DEF TimerInterrupt, TimerTick, intr_timer_handler
<1> QED
  BY <1>1, <1>2, <1>3, <1>4, <1>5 DEF KeepStep

(* The PCB create_page_dir writes to is neither running nor listed.        *)
LEMMA ChildIsNobodyElse ==
  ASSUME IInv, create_page_dir
  PROVE  /\ child[cur] \in Threads /\ child[cur] # cur
         /\ child[cur] \notin ToSet(ready) /\ child[cur] \notin ToSet(all)
<1>1. cur \in Threads /\ child[cur] \in Threads /\ pc[cur] = "made"
  BY DEF IInv, TypeOK, ThreadTypeOK, create_page_dir, At
<1>2. status[child[cur]] = "READY" /\ child[cur] \notin ToSet(ready) /\ status[cur] = "RUNNING"
  BY <1>1 DEF IInv, ChildInv, RunQueue
<1>3. Pending(child[cur])
  BY <1>1 DEF Pending
<1> QED
  BY <1>1, <1>2, <1>3 DEF IInv, AllInv

LEMMA SpaceStep == PInv /\ [ProcessNext]_pvars => PInv'
<1> SUFFICES ASSUME PInv, [ProcessNext]_pvars PROVE PInv'
  OBVIOUS
<1> USE ProcessAssumption
<1>1. IInv'
  BY StepIsSchedulerStep, NextPreserves DEF PInv
<1>2. cur \in Threads /\ cur' \in Threads
  BY <1>1 DEF PInv, IInv, TypeOK, ThreadTypeOK
<1>3. CASE SwitchStep
  <2>1. process_activate(cur')
    BY <1>3 DEF SwitchStep, block_switch, sleep_switch, idle_switch, timer_switch
  <2> QED
    BY <1>1, <1>2, <2>1 DEF PInv, SpaceOK, SpaceFollows, process_activate
<1>4. CASE create_page_dir
  <2>1. child[cur] \in Threads /\ child[cur] # cur
    BY <1>4, ChildIsNobodyElse DEF PInv
  <2>2. cur' = cur
    BY <1>4 DEF create_page_dir, vars, tvars
  <2> QED
    BY <1>1, <1>2, <1>4, <2>1, <2>2 DEF PInv, SpaceOK, SpaceFollows, create_page_dir
<1>5. ASSUME cur' = cur, UNCHANGED space PROVE PInv'
  BY <1>1, <1>5 DEF PInv, SpaceOK, SpaceFollows, space
<1>6. CASE KeepStep
  BY <1>5, <1>6, KeepStepKeepsCur DEF KeepStep
<1>7. CASE list_process \/ list_thread
  BY <1>5, <1>7 DEF list_process, list_thread, process_execute, thread_start
<1>8. CASE UNCHANGED pvars
  BY <1>5, <1>8 DEF pvars, vars, tvars
<1> QED
  BY <1>3, <1>4, <1>6, <1>7, <1>8 DEF ProcessNext

LEMMA SpaceInductive == ProcessSpec => []PInv
<1>1. ProcessInit => PInv
  BY InitEstablishes, ProcessAssumption, ThreadAssumption
     DEF ProcessInit, PInv, SpaceOK, SpaceFollows, Init, ThreadInit
<1> QED
  BY <1>1, SpaceStep, PTL DEF ProcessSpec

(* schedule, process_activate: every thread runs in its own address space  *)
(* and every process has its own kernel stack in the TSS.                  *)
THEOREM SpaceFollowsThread == ProcessSpec => []SpaceFollows
<1>1. PInv => SpaceFollows
  BY DEF PInv
<1> QED
  BY <1>1, SpaceInductive, PTL

(* process_execute: a directory is given to a PCB nobody can run yet.      *)
THEOREM SpaceSettledBeforeListing == ProcessSpec => SpaceSettled
<1> DEFINE Settled == \A t \in Threads : pgdir'[t] # pgdir[t] =>
                        t # cur /\ ~elem_find(ready, t) /\ ~elem_find(all, t)
<1>1. ASSUME PInv, ProcessNext PROVE Settled
  <2>1. CASE create_page_dir
    BY <1>1, <2>1, ChildIsNobodyElse DEF PInv, SpaceOK, create_page_dir, elem_find
  <2>2. CASE KeepStep \/ SwitchStep \/ list_process \/ list_thread
    BY <2>2 DEF KeepStep, SwitchStep, block_switch, sleep_switch, idle_switch, timer_switch,
                process_activate, list_process, list_thread, space
  <2> QED
    BY <1>1, <2>1, <2>2 DEF ProcessNext
<1>2. PInv /\ [ProcessNext]_pvars => [Settled]_pvars
  BY <1>1
<1> QED
  BY <1>2, SpaceInductive, PTL DEF ProcessSpec, SpaceSettled
=============================================================================
