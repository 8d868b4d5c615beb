----------------------------- MODULE SyncLemmas -----------------------------
(***************************************************************************)
(* What the components that have threads and locks rest on.                *)
(*                                                                         *)
(* What the list operations and the primitives of Thread do: list_append,  *)
(* list_push and list_pop as operations on the elements of a list,         *)
(* schedule() without its branches, and what switches and wake-ups keep of *)
(* the run queue.                                                          *)
(*                                                                         *)
(* What every step of sync.c keeps.  LockInv is about the locks and needs  *)
(* nothing of the scheduler but that some thread runs, so it holds         *)
(* wherever the clock may strike.  WaitInv is about who waits: no ASSERT   *)
(* fails, the lists threads are on, and no wake-up is lost.                *)
(*                                                                         *)
(* At the end, that the pointers of list.c represent the sequences.        *)
(***************************************************************************)
EXTENDS Sync, List, TLAPS

(* No element is on the list twice. *)
Distinct(s) == \A i, j \in DOMAIN s : s[i] = s[j] => i = j

(* An element is in ToSet(s) exactly if elem_find meets it at some index. *)
LEMMA InToSet ==
  ASSUME NEW S, NEW s \in Seq(S)
  PROVE  /\ DOMAIN s = 1 .. Len(s) /\ Len(s) \in Nat
         /\ \A y : y \in ToSet(s) <=> \E i \in 1 .. Len(s) : s[i] = y
<1>1. DOMAIN s = 1 .. Len(s) /\ Len(s) \in Nat
  OBVIOUS
<1>2. \A y : y \in ToSet(s) <=> \E i \in 1 .. Len(s) : s[i] = y
  BY <1>1, Zenon DEF ToSet
<1> QED
  BY <1>1, <1>2

(* list_append adds its argument and nothing else. *)
LEMMA AppendElements ==
  ASSUME NEW S, NEW s \in Seq(S), NEW x \in S
  PROVE  /\ Append(s, x) \in Seq(S) /\ Append(s, x) # <<>>
         /\ \A y : y \in ToSet(Append(s, x)) <=> y \in ToSet(s) \/ y = x
         /\ Distinct(s) /\ x \notin ToSet(s) => Distinct(Append(s, x))
<1> DEFINE a == Append(s, x)
<1>1. /\ a \in Seq(S) /\ a # <<>> /\ Len(a) = Len(s) + 1 /\ Len(s) \in Nat
      /\ a[Len(s) + 1] = x /\ \A i \in 1 .. Len(s) : a[i] = s[i]
  OBVIOUS
<1>2. /\ DOMAIN s = 1 .. Len(s)
      /\ \A y : y \in ToSet(s) <=> \E i \in 1 .. Len(s) : s[i] = y
  BY InToSet
<1>3. /\ DOMAIN a = 1 .. Len(a)
      /\ \A y : y \in ToSet(a) <=> \E i \in 1 .. Len(a) : a[i] = y
  BY <1>1, InToSet
<1> HIDE DEF a
<1>4. \A y : y \in ToSet(a) <=> y \in ToSet(s) \/ y = x
  BY <1>1, <1>2, <1>3
<1>5. ASSUME Distinct(s), x \notin ToSet(s) PROVE Distinct(a)
  BY <1>1, <1>2, <1>3, <1>5 DEF Distinct
<1> QED
  BY <1>1, <1>4, <1>5 DEF a

(* list_push adds its argument and nothing else. *)
LEMMA PushElements ==
  ASSUME NEW S, NEW s \in Seq(S), NEW x \in S
  PROVE  /\ <<x>> \o s \in Seq(S) /\ <<x>> \o s # <<>>
         /\ \A y : y \in ToSet(<<x>> \o s) <=> y \in ToSet(s) \/ y = x
         /\ Distinct(s) /\ x \notin ToSet(s) => Distinct(<<x>> \o s)
<1> DEFINE a == <<x>> \o s
<1>1. /\ a \in Seq(S) /\ a # <<>> /\ Len(a) = Len(s) + 1 /\ Len(s) \in Nat
      /\ a[1] = x /\ \A i \in 1 .. Len(s) : a[i + 1] = s[i]
  OBVIOUS
<1>2. /\ DOMAIN s = 1 .. Len(s)
      /\ \A y : y \in ToSet(s) <=> \E i \in 1 .. Len(s) : s[i] = y
  BY InToSet
<1>3. /\ DOMAIN a = 1 .. Len(a)
      /\ \A y : y \in ToSet(a) <=> \E i \in 1 .. Len(a) : a[i] = y
  BY <1>1, InToSet
<1> HIDE DEF a
<1>4. \A i \in 1 .. Len(a) : i = 1 \/ (i - 1 \in 1 .. Len(s) /\ a[i] = s[i - 1])
  BY <1>1
<1>5. \A y : y \in ToSet(a) <=> y \in ToSet(s) \/ y = x
  <2>1. ASSUME NEW y, y \in ToSet(s) PROVE y \in ToSet(a)
    <3>1. PICK i \in 1 .. Len(s) : s[i] = y
      BY <2>1, <1>2
    <3>2. i + 1 \in 1 .. Len(a) /\ a[i + 1] = y
      BY <3>1, <1>1
    <3> QED
      BY <3>2, <1>3
  <2>2. x \in ToSet(a)
    BY <1>1, <1>3
  <2>3. ASSUME NEW y, y \in ToSet(a), y # x PROVE y \in ToSet(s)
    BY <2>3, <1>1, <1>2, <1>3, <1>4
  <2> QED
    BY <2>1, <2>2, <2>3
<1>6. ASSUME Distinct(s), x \notin ToSet(s) PROVE Distinct(a)
  <2> SUFFICES ASSUME NEW i \in 1 .. Len(a), NEW j \in 1 .. Len(a), a[i] = a[j]
               PROVE  i = j
    BY <1>3 DEF Distinct
  <2>1. CASE i = 1 /\ j # 1
    BY <2>1, <1>1, <1>2, <1>4, <1>6
  <2>2. CASE j = 1 /\ i # 1
    BY <2>2, <1>1, <1>2, <1>4, <1>6
  <2>3. CASE i # 1 /\ j # 1
    BY <2>3, <1>1, <1>2, <1>4, <1>6 DEF Distinct
  <2> QED
    BY <2>1, <2>2, <2>3
<1> QED
  BY <1>1, <1>5, <1>6 DEF a

(* list_pop takes the head and leaves the rest. *)
LEMMA PopElements ==
  ASSUME NEW S, NEW s \in Seq(S), s # <<>>
  PROVE  /\ Head(s) \in S /\ Tail(s) \in Seq(S) /\ Head(s) \in ToSet(s)
         /\ \A y : y \in ToSet(s) <=> y \in ToSet(Tail(s)) \/ y = Head(s)
         /\ Distinct(s) => Distinct(Tail(s)) /\ Head(s) \notin ToSet(Tail(s))
<1> DEFINE a == Tail(s)
<1>1. /\ a \in Seq(S) /\ Len(s) = Len(a) + 1 /\ Len(a) \in Nat
      /\ s[1] = Head(s) /\ s[1] \in S
      /\ \A i \in 1 .. Len(a) : s[i + 1] = a[i]
  OBVIOUS
<1>2. /\ DOMAIN s = 1 .. Len(s)
      /\ \A y : y \in ToSet(s) <=> \E i \in 1 .. Len(s) : s[i] = y
  BY InToSet
<1>3. /\ DOMAIN a = 1 .. Len(a)
      /\ \A y : y \in ToSet(a) <=> \E i \in 1 .. Len(a) : a[i] = y
  BY <1>1, InToSet
<1> DEFINE h == Head(s)
<1> HIDE DEF a, h
<1>4. \A i \in 1 .. Len(s) : i = 1 \/ (i - 1 \in 1 .. Len(a) /\ s[i] = a[i - 1])
  BY <1>1
<1>5. h \in ToSet(s) /\ \A y \in ToSet(a) : y \in ToSet(s)
  <2>1. ASSUME NEW y \in ToSet(a) PROVE y \in ToSet(s)
    <3>1. PICK i \in 1 .. Len(a) : a[i] = y
      BY <1>3
    <3>2. i + 1 \in 1 .. Len(s) /\ s[i + 1] = y
      BY <3>1, <1>1
    <3> QED
      BY <3>2, <1>2
  <2> QED
    BY <2>1, <1>1, <1>2 DEF h
<1>6. \A y \in ToSet(s) : y \in ToSet(a) \/ y = h
  BY <1>1, <1>2, <1>3, <1>4 DEF h
<1>7. ASSUME Distinct(s) PROVE Distinct(a) /\ h \notin ToSet(a)
  <2>1. ASSUME NEW i \in 1 .. Len(a), NEW j \in 1 .. Len(a), a[i] = a[j] PROVE i = j
    <3>1. i + 1 \in DOMAIN s /\ j + 1 \in DOMAIN s /\ s[i + 1] = s[j + 1]
      BY <2>1, <1>1, <1>2
    <3>2. i + 1 = j + 1
      BY <3>1, <1>7 DEF Distinct
    <3> QED
      BY <3>2
  <2>2. ASSUME h \in ToSet(a) PROVE FALSE
    <3>1. PICK i \in 1 .. Len(a) : a[i] = h
      BY <2>2, <1>3
    <3>2. i + 1 \in DOMAIN s /\ 1 \in DOMAIN s /\ s[i + 1] = s[1]
      BY <3>1, <1>1, <1>2 DEF h
    <3>3. i + 1 = 1
      BY <3>2, <1>7 DEF Distinct
    <3> QED
      BY <3>3
  <2> QED
    BY <2>1, <2>2, <1>3 DEF Distinct
<1> QED
  BY <1>1, <1>5, <1>6, <1>7 DEF a, h

-----------------------------------------------------------------------------

(* schedule keeps the types: it runs a thread of the ready list, or idle.  *)
LEMMA ScheduleTypes ==
  ASSUME ThreadTypeOK, NEW st \in [Threads -> Status], NEW sv \in [Threads -> BOOLEAN],
         NEW failed \in BOOLEAN, schedule(st, sv, failed)
  PROVE  ThreadTypeOK'
<1> USE ThreadAssumption
<1> DEFINE ra == ReadyAfter(st)
           rd == IF ra = <<>> THEN <<Idle>> ELSE ra
<1>1. ra \in Seq(Threads)
  BY DEF ReadyAfter, ThreadTypeOK
<1>2. rd \in Seq(Threads) /\ rd # <<>>
  BY <1>1
<1>3. slice' \in [Threads -> Nat]
  BY DEF schedule, SliceAfter, ThreadTypeOK
<1>4. /\ cur' = Head(rd) /\ ready' = Tail(rd) /\ saved' = sv /\ intr' = sv[Head(rd)]
      /\ panicked' \in BOOLEAN
      /\ status' = [(IF st[cur] = "RUNNING" THEN [st EXCEPT ![cur] = "READY"] ELSE st)
                     EXCEPT ![Head(rd)] = "RUNNING"]
  BY DEF schedule
<1> HIDE DEF rd
<1>5. Head(rd) \in Threads /\ Tail(rd) \in Seq(Threads)
  BY <1>2
<1>6. status' \in [Threads -> Status]
  BY <1>4, <1>5 DEF ThreadTypeOK, Status
<1> QED
  BY <1>3, <1>4, <1>5, <1>6 DEF ThreadTypeOK

(* thread_block, thread_unblock and the clock keep the types.              *)
LEMMA BlockTypes ==
  ASSUME ThreadTypeOK, NEW failed \in BOOLEAN, thread_block("BLOCKED", failed)
  PROVE  ThreadTypeOK'
<1>1. /\ [status EXCEPT ![cur] = "BLOCKED"] \in [Threads -> Status]
      /\ [saved EXCEPT ![cur] = intr] \in [Threads -> BOOLEAN]
      /\ (failed \/ "BLOCKED" \notin Blocked) \in BOOLEAN
  BY DEF ThreadTypeOK, Status, Blocked
<1> QED
  BY <1>1, ScheduleTypes DEF thread_block

LEMMA UnblockTypes ==
  ASSUME ThreadTypeOK, NEW u \in Threads, NEW failed \in BOOLEAN, thread_unblock(u, failed)
  PROVE  ThreadTypeOK'
<1>1. ready' \in Seq(Threads)
  BY DEF thread_unblock, ThreadTypeOK
<1>2. panicked' \in BOOLEAN
  BY DEF thread_unblock, elem_find
<1> QED
  BY <1>1, <1>2 DEF thread_unblock, ThreadTypeOK, Status

LEMMA TimerTypes == ASSUME ThreadTypeOK, intr_timer_handler PROVE ThreadTypeOK'
<1>1. CASE slice[cur] = 0
  <2>1. status \in [Threads -> Status] /\ [saved EXCEPT ![cur] = TRUE] \in [Threads -> BOOLEAN]
    BY DEF ThreadTypeOK
  <2> QED
    BY <1>1, <2>1, ScheduleTypes DEF intr_timer_handler
<1>2. CASE slice[cur] # 0
  BY <1>2 DEF intr_timer_handler, ThreadTypeOK
<1> QED
  BY <1>1, <1>2

-----------------------------------------------------------------------------

(* The part of the inductive invariant about the run queue.                *)
RunQueue ==
  /\ Distinct(ready)
  /\ \A t \in Threads : t \in ToSet(ready) => status[t] = "READY"
  /\ \A t \in Threads : status[t] = "RUNNING" <=> t = cur

(* schedule() without its branches: who runs next, who is listed then.     *)
Nobody(st) == st[cur] # "RUNNING" /\ ready = <<>>
Switched(st, sv, failed) ==
  /\ cur' \in Threads
  /\ saved' = sv /\ intr' = sv[cur']
  /\ slice' \in [Threads -> Nat]
  /\ ready' \in Seq(Threads) /\ Distinct(ready') /\ cur' \notin ToSet(ready')
  /\ status' = [t \in Threads |->
       IF t = cur' THEN "RUNNING"
       ELSE IF st[t] = "RUNNING" /\ t = cur THEN "READY" ELSE st[t]]
  /\ \A t \in Threads : t \in ToSet(ready') \/ t = cur' <=>
       \/ t \in ToSet(ready)
       \/ st[cur] = "RUNNING" /\ t = cur
       \/ Nobody(st) /\ t = Idle
  /\ panicked' = (failed \/ (Nobody(st) /\ st[Idle] \notin Blocked))

(* schedule pops a listed thread; the one it replaces is listed only if it *)
(* was preempted, and idle_thread is taken only if nobody else is there.   *)
LEMMA ScheduleStep ==
  ASSUME ThreadTypeOK, Distinct(ready), cur \notin ToSet(ready),
         NEW st \in [Threads -> Status], NEW sv \in [Threads -> BOOLEAN],
         NEW failed \in BOOLEAN, schedule(st, sv, failed)
  PROVE  Switched(st, sv, failed)
<1> USE ThreadAssumption
<1> DEFINE preempted == st[cur] = "RUNNING"
           nobody == ~preempted /\ ready = <<>>
           ra == ReadyAfter(st)
           rd == IF ra = <<>> THEN <<Idle>> ELSE ra
           st1 == IF preempted THEN [st EXCEPT ![cur] = "READY"] ELSE st
<1>1. /\ cur \in Threads /\ ready \in Seq(Threads)
      /\ slice \in [Threads -> Nat] /\ Prio \in [Threads -> Nat]
  BY DEF ThreadTypeOK
<1>2. /\ ra \in Seq(Threads) /\ Distinct(ra) /\ (ra = <<>> <=> nobody)
      /\ \A t \in Threads : t \in ToSet(ra) <=> t \in ToSet(ready) \/ (preempted /\ t = cur)
  <2>1. CASE preempted
    BY <2>1, <1>1, AppendElements DEF ReadyAfter
  <2>2. CASE ~preempted
    BY <2>2, <1>1 DEF ReadyAfter
  <2> QED
    BY <2>1, <2>2
<1>3. /\ rd \in Seq(Threads) /\ rd # <<>> /\ Distinct(rd)
      /\ \A t \in Threads : t \in ToSet(rd) <=>
           t \in ToSet(ra) \/ (nobody /\ t = Idle)
  <2>1. CASE ra = <<>>
    <3>1. rd = Append(<<>>, Idle) /\ nobody
      BY <2>1, <1>2
    <3>2. <<>> \in Seq(Threads) /\ Distinct(<<>>) /\ ToSet(<<>>) = {}
      BY DEF Distinct, ToSet
    <3>3. /\ Append(<<>>, Idle) \in Seq(Threads) /\ Append(<<>>, Idle) # <<>>
          /\ Distinct(Append(<<>>, Idle))
          /\ \A t : t \in ToSet(Append(<<>>, Idle)) <=> t = Idle
      BY <3>2, AppendElements
    <3>4. \A t : t \notin ToSet(ra)
      BY <2>1, <3>2
    <3> HIDE DEF ra, nobody
    <3> QED
      BY <3>1, <3>3, <3>4
  <2>2. CASE ra # <<>>
    BY <2>2, <1>2
  <2> QED
    BY <2>1, <2>2
<1>4. /\ cur' = Head(rd) /\ ready' = Tail(rd) /\ saved' = sv /\ intr' = sv[Head(rd)]
      /\ status' = [st1 EXCEPT ![Head(rd)] = "RUNNING"]
      /\ slice' = SliceAfter(st)
      /\ panicked' = (failed \/ (preempted /\ elem_find(ready, cur))
                             \/ (ra = <<>> /\ st1[Idle] \notin Blocked))
  BY DEF schedule
<1>5. slice' \in [Threads -> Nat]
  BY <1>1, <1>4 DEF SliceAfter
<1> HIDE DEF ra, rd
<1>6. /\ cur' \in Threads /\ ready' \in Seq(Threads) /\ Distinct(ready')
      /\ cur' \notin ToSet(ready')
      /\ \A t : t \in ToSet(rd) <=> t \in ToSet(ready') \/ t = cur'
  BY <1>3, <1>4, PopElements
<1>7. status' = [t \in Threads |->
         IF t = cur' THEN "RUNNING"
         ELSE IF preempted /\ t = cur THEN "READY" ELSE st[t]]
  BY <1>1, <1>4, <1>6
<1>8. panicked' = (failed \/ (nobody /\ st[Idle] \notin Blocked))
  BY <1>2, <1>4 DEF elem_find
<1> QED
  BY <1>2, <1>3, <1>4, <1>5, <1>6, <1>7, <1>8 DEF Switched, Nobody

-----------------------------------------------------------------------------

(* An empty ready list finds the idle thread blocked, so that it can be    *)
(* unblocked: idle_thread is never READY without being listed.             *)
IdleReady == status[Idle] # "NONE" /\ (status[Idle] = "READY" => Idle \in ToSet(ready))

(* No ASSERT failed, and the lists the primitives work on are in order.    *)
RunSound == ThreadTypeOK /\ ~panicked /\ RunQueue /\ IdleReady

(* Nobody is READY without being listed.                                   *)
AllListed == \A t \in Threads : status[t] = "READY" => t \in ToSet(ready)

(* A thread gives up the processor: blocked, preempted, or by a yield,     *)
(* which lists it nowhere.  Only the idle thread can stop being blocked.   *)
LEMMA SwitchSound ==
  ASSUME RunSound, NEW s \in Blocked \cup {"READY", "RUNNING"}, s = "READY" => cur # Idle,
         NEW sv \in [Threads -> BOOLEAN], NEW failed \in BOOLEAN, ~failed,
         schedule([status EXCEPT ![cur] = s], sv, failed)
  PROVE  /\ RunSound'
         /\ \A t \in Threads \ {Idle} : \A b \in Blocked :
              status'[t] = b <=> IF t = cur THEN s = b ELSE status[t] = b
         /\ \A t \in Threads : t # cur /\ status[t] = "READY" => status'[t] \in {"READY", "RUNNING"}
         /\ AllListed /\ s # "READY" => AllListed'
<1> USE ThreadAssumption
<1> DEFINE st == [status EXCEPT ![cur] = s]
<1>1. /\ ThreadTypeOK /\ Distinct(ready) /\ cur \notin ToSet(ready) /\ cur \in Threads
      /\ status \in [Threads -> Status]
      /\ \A t \in Threads : t \in ToSet(ready) => status[t] = "READY"
      /\ \A t \in Threads : status[t] = "RUNNING" <=> t = cur
  BY DEF RunSound, RunQueue, ThreadTypeOK
<1>2. /\ st \in [Threads -> Status] /\ st[cur] = s
      /\ \A t \in Threads : t # cur => st[t] = status[t]
  BY <1>1 DEF Status
<1>3. schedule(st, sv, failed)
  OBVIOUS
<1> HIDE DEF st
<1>4. Switched(st, sv, failed)
  BY <1>1, <1>2, <1>3, ScheduleStep
<1>5. Nobody(st) => st[Idle] \in Blocked
  <2> SUFFICES ASSUME Nobody(st) PROVE st[Idle] \in Blocked
    OBVIOUS
  <2>1. ToSet(ready) = {}
    BY DEF Nobody, ToSet
  <2> QED
    BY <1>1, <1>2, <2>1 DEF RunSound, IdleReady, Nobody, Status
<1>6. /\ cur' \in Threads /\ cur' \notin ToSet(ready') /\ ready' \in Seq(Threads)
      /\ status' = [t \in Threads |->
           IF t = cur' THEN "RUNNING" ELSE IF s = "RUNNING" /\ t = cur THEN "READY" ELSE st[t]]
      /\ \A t \in Threads : t \in ToSet(ready') \/ t = cur' <=>
           \/ t \in ToSet(ready)
           \/ s = "RUNNING" /\ t = cur
           \/ Nobody(st) /\ t = Idle
  BY <1>2, <1>4 DEF Switched
<1>7. ThreadTypeOK' /\ ~panicked'
  BY <1>1, <1>2, <1>4, <1>5 DEF Switched, ThreadTypeOK, Status
<1>8. RunQueue'
  <2>1. \A t \in Threads : t \in ToSet(ready') => status'[t] = "READY"
    <3> SUFFICES ASSUME NEW t \in Threads, t \in ToSet(ready') PROVE status'[t] = "READY"
      OBVIOUS
    <3>1. t # cur'
      BY <1>6
    <3>2. Nobody(st) => cur' = Idle
      <4> SUFFICES ASSUME Nobody(st) PROVE cur' = Idle
        OBVIOUS
      <4>1. ToSet(ready) = {} /\ s # "RUNNING"
        BY <1>2 DEF Nobody, ToSet
      <4> QED
        BY <1>6, <4>1
    <3>3. t \in ToSet(ready) \/ (s = "RUNNING" /\ t = cur)
      BY <1>6, <3>1, <3>2
    <3> QED
      BY <1>1, <1>2, <1>6, <3>1, <3>3
  <2>2. \A t \in Threads : status'[t] = "RUNNING" <=> t = cur'
    BY <1>1, <1>2, <1>6
  <2>3. Distinct(ready')
    BY <1>4 DEF Switched
  <2> QED
    BY <2>1, <2>2, <2>3 DEF RunQueue
<1>9. IdleReady'
  BY <1>1, <1>2, <1>6 DEF RunSound, IdleReady, Blocked
<1>10. \A t \in Threads \ {Idle} : \A b \in Blocked :
         status'[t] = b <=> IF t = cur THEN s = b ELSE status[t] = b
  BY <1>1, <1>2, <1>6 DEF Blocked
<1>11. \A t \in Threads : t # cur /\ status[t] = "READY" => status'[t] \in {"READY", "RUNNING"}
  BY <1>2, <1>6
<1>12. AllListed /\ s # "READY" => AllListed'
  BY <1>1, <1>2, <1>6 DEF AllListed
<1> QED
  BY <1>7, <1>8, <1>9, <1>10, <1>11, <1>12 DEF RunSound

(* A blocked thread is woken by another thread or by a device handler.     *)
LEMMA WakeSound ==
  ASSUME RunSound, NEW u \in Threads, status[u] \in Blocked, thread_unblock(u, FALSE)
  PROVE  /\ RunSound' /\ (AllListed => AllListed')
         /\ cur' = cur /\ intr' = intr /\ saved' = saved /\ status' = [status EXCEPT ![u] = "READY"]
<1> USE ThreadAssumption
<1>1. /\ ready \in Seq(Threads) /\ status \in [Threads -> Status] /\ Distinct(ready)
      /\ \A t \in Threads : t \in ToSet(ready) => status[t] = "READY"
      /\ \A t \in Threads : status[t] = "RUNNING" <=> t = cur
  BY DEF RunSound, RunQueue, ThreadTypeOK
<1>2. u \notin ToSet(ready) /\ u # cur
  BY <1>1 DEF Blocked
<1>3. /\ ready' = <<u>> \o ready /\ status' = [status EXCEPT ![u] = "READY"]
      /\ UNCHANGED <<cur, slice, intr, saved>> /\ panicked' = FALSE
  BY <1>2 DEF thread_unblock, elem_find
<1>4. /\ ready' \in Seq(Threads) /\ Distinct(ready')
      /\ \A t : t \in ToSet(ready') <=> t \in ToSet(ready) \/ t = u
  BY <1>1, <1>2, <1>3, PushElements
<1>5. ThreadTypeOK'
  BY <1>3, <1>4 DEF RunSound, ThreadTypeOK, Status
<1>6. RunQueue' /\ IdleReady'
  BY <1>1, <1>2, <1>3, <1>4 DEF RunSound, RunQueue, IdleReady
<1>7. AllListed => AllListed'
  BY <1>1, <1>3, <1>4 DEF AllListed
<1> QED
  BY <1>3, <1>5, <1>6, <1>7 DEF RunSound

(* The clock: one tick of the slice less, or a preemption.                 *)
LEMMA TickSound ==
  ASSUME RunSound, intr_timer_handler
  PROVE  /\ RunSound' /\ (AllListed => AllListed')
         /\ \A t \in Threads \ {Idle} : \A b \in Blocked : status'[t] = b <=> status[t] = b
         /\ \A t \in Threads : status[t] \in {"READY", "RUNNING"} => status'[t] \in {"READY", "RUNNING"}
<1> USE ThreadAssumption
<1>1. /\ cur \in Threads /\ status \in [Threads -> Status] /\ slice \in [Threads -> Nat]
      /\ saved \in [Threads -> BOOLEAN] /\ status[cur] = "RUNNING"
  BY DEF RunSound, RunQueue, ThreadTypeOK
<1>2. CASE slice[cur] = 0
  <2>1. /\ status = [status EXCEPT ![cur] = "RUNNING"]
        /\ [saved EXCEPT ![cur] = TRUE] \in [Threads -> BOOLEAN]
    BY <1>1
  <2>2. schedule([status EXCEPT ![cur] = "RUNNING"], [saved EXCEPT ![cur] = TRUE], FALSE)
    BY <1>2, <2>1 DEF intr_timer_handler
  <2>3. "RUNNING" \in Blocked \cup {"READY", "RUNNING"} /\ "RUNNING" # "READY"
    OBVIOUS
  <2>4. /\ RunSound' /\ (AllListed => AllListed')
        /\ \A t \in Threads \ {Idle} : \A b \in Blocked :
              status'[t] = b <=> IF t = cur THEN "RUNNING" = b ELSE status[t] = b
        /\ \A t \in Threads : t # cur /\ status[t] = "READY" => status'[t] \in {"READY", "RUNNING"}
    BY <2>1, <2>2, <2>3, SwitchSound
  <2>5. status'[cur] \in {"READY", "RUNNING"}
    <3> DEFINE sv == [saved EXCEPT ![cur] = TRUE]
    <3>1. schedule(status, sv, FALSE)
      BY <2>1, <2>2
    <3>2. ThreadTypeOK /\ Distinct(ready) /\ cur \notin ToSet(ready) /\ sv \in [Threads -> BOOLEAN]
      BY <1>1, <2>1 DEF RunSound, RunQueue
    <3> HIDE DEF sv
    <3>3. Switched(status, sv, FALSE)
      BY <1>1, <3>1, <3>2, ScheduleStep
    <3> QED
      BY <1>1, <3>3 DEF Switched
  <2> QED
    BY <1>1, <2>4, <2>5 DEF RunSound, RunQueue, Blocked
<1>3. CASE slice[cur] # 0
  <2>1. slice' \in [Threads -> Nat] /\ UNCHANGED <<cur, status, ready, intr, saved, panicked>>
    BY <1>1, <1>3 DEF intr_timer_handler
  <2> QED
    BY <2>1 DEF RunSound, ThreadTypeOK, RunQueue, IdleReady, AllListed
<1> QED
  BY <1>2, <1>3

-----------------------------------------------------------------------------


OwnPC == {"own", "count", "zero", "up"}

(* What holds of lock l between any two steps: the owner is unique, the    *)
(* semaphore says whether there is one, and each window of lock_acquire    *)
(* and lock_release finds the holder and the counter it left.              *)
LockSound(l) ==
  /\ \A t \in Threads : Owns(t, l) => value[l] = 0
  /\ value[l] = 0 => \E t \in Threads : Owns(t, l)
  /\ \A t, u \in Threads : Owns(t, l) /\ Owns(u, l) => t = u
  /\ \A t \in Threads : lk[t] = l =>
       /\ pc[t] \in {"own", "zero", "up"} => holder[l] = Null
       /\ pc[t] = "count" => holder[l] = t
       /\ pc[t] \in {"own", "count", "up"} => repeat[l] = 0
       /\ pc[t] = "zero" => repeat[l] = 1
  /\ value[l] = 1 => repeat[l] = 0
  /\ \A t \in Threads : holder[l] = t /\ ~(pc[t] = "count" /\ lk[t] = l) => repeat[l] > 0

SyncTypes == ThreadTypeOK /\ SyncTypeOK /\ pc \in [Threads -> SyncPC \cup IdlePC]

LockInv == SyncTypes /\ \A l \in Locks : LockSound(l)

-----------------------------------------------------------------------------

(* A step outside the windows of lock_acquire and lock_release.            *)
LEMMA FrameSound ==
  ASSUME \A l \in Locks : LockSound(l),
         UNCHANGED <<value, holder, repeat>>,
         \A t \in Threads : \/ pc'[t] = pc[t] /\ lk'[t] = lk[t]
                            \/ pc[t] \notin OwnPC /\ pc'[t] \notin OwnPC
  PROVE  \A l \in Locks : LockSound(l)'
<1> SUFFICES ASSUME NEW l \in Locks PROVE LockSound(l)'
  OBVIOUS
<1>1. LockSound(l)
  OBVIOUS
<1>2. \A t \in Threads :
        /\ Owns(t, l)' <=> Owns(t, l)
        /\ \A x \in OwnPC : (pc'[t] = x /\ lk'[t] = l) <=> (pc[t] = x /\ lk[t] = l)
  BY DEF Owns, OwnPC
<1> QED
  BY <1>1, <1>2 DEF LockSound, OwnPC

(* What SyncTypes says of a step's state, for the leaves below.            *)
Typed ==
  /\ ThreadTypeOK /\ SyncTypeOK
  /\ cur \in Threads /\ lk \in [Threads -> Locks]
  /\ pc \in [Threads -> SyncPC \cup IdlePC]
  /\ value \in [Locks -> {0, 1}] /\ holder \in [Locks -> Threads \cup {Null}]
  /\ repeat \in [Locks -> Nat] /\ waiters \in [Locks -> Seq(Threads)]
  /\ old \in [Threads -> BOOLEAN] /\ intr \in BOOLEAN

LEMMA TypeFacts == ASSUME SyncTypes PROVE Typed
BY DEF SyncTypes, ThreadTypeOK, SyncTypeOK, Typed

(* lock_acquire: first acquisition or one more.                            *)
LEMMA AcquireKeepsLocks == ASSUME LockInv, NEW l \in Locks, lock_acquire(l) PROVE LockInv'
<1> USE ThreadAssumption, SyncAssumption
<1>0. Typed
  BY TypeFacts DEF LockInv
<1> USE <1>0 DEF Typed
<1>3. /\ pc[cur] = "out" /\ lk' = [lk EXCEPT ![cur] = l]
      /\ UNCHANGED <<tvars, value, waiters, holder, old>>
  BY DEF lock_acquire, At
<1>4. CASE holder[l] = cur
  <2>1. repeat' = [repeat EXCEPT ![l] = @ + 1] /\ pc' = pc
    BY <1>4 DEF lock_acquire
  <2>2. SyncTypes'
    <3>1. repeat' \in [Locks -> Nat]
      BY <2>1
    <3>2. ThreadTypeOK'
      BY <1>3 DEF ThreadTypeOK, tvars
    <3> QED
      BY <1>3, <2>1, <3>1, <3>2 DEF SyncTypes, SyncTypeOK
  <2>3. ASSUME NEW k \in Locks PROVE LockSound(k)'
    <3>1. LockSound(k)
      BY DEF LockInv
    <3>2. \A t \in Threads :
            /\ Owns(t, k)' <=> Owns(t, k)
            /\ \A x \in OwnPC : (pc'[t] = x /\ lk'[t] = k) <=> (pc[t] = x /\ lk[t] = k)
      BY <1>3, <2>1 DEF Owns, OwnPC
    <3>3. CASE k = l
      <4>1. Owns(cur, k) /\ value[k] = 0
        BY <1>4, <3>1, <3>3 DEF Owns, LockSound
      <4>2. \A t \in Threads : lk[t] = k => pc[t] \notin OwnPC
        BY <1>3, <1>4, <3>1, <3>3, <4>1 DEF LockSound, Owns, OwnPC
      <4> QED
        BY <1>3, <2>1, <3>1, <3>2, <3>3, <4>1, <4>2 DEF LockSound, OwnPC
    <3>4. CASE k # l
      BY <1>3, <2>1, <3>1, <3>2, <3>4 DEF LockSound, OwnPC
    <3> QED
      BY <3>3, <3>4
  <2> QED
    BY <2>2, <2>3 DEF LockInv
<1>5. CASE holder[l] # cur
  <2>1. pc' = [pc EXCEPT ![cur] = "down"] /\ repeat' = repeat
    BY <1>5 DEF lock_acquire, Goto
  <2>2. SyncTypes'
    BY <1>3, <2>1 DEF SyncTypes, ThreadTypeOK, SyncTypeOK, SyncPC, tvars
  <2> QED
    BY <1>3, <2>1, <2>2, FrameSound DEF LockInv, OwnPC
<1> QED
  BY <1>4, <1>5

(* lock_release by the holder: one acquisition less, or the first write.   *)
LEMMA ReleaseKeepsLocks ==
  ASSUME LockInv, NEW l \in Locks, holder[l] = cur, lock_release(l)
  PROVE  LockInv'
<1> USE ThreadAssumption, SyncAssumption
<1>0. Typed
  BY TypeFacts DEF LockInv
<1> USE <1>0 DEF Typed
<1>2. /\ pc[cur] = "out" /\ lk' = [lk EXCEPT ![cur] = l] /\ panicked' \in BOOLEAN
      /\ UNCHANGED <<cur, status, ready, slice, intr, saved, value, waiters, old>>
  BY DEF lock_release, At
<1>3. LockSound(l) /\ Owns(cur, l) /\ value[l] = 0 /\ repeat[l] > 0
  BY <1>2 DEF LockInv, LockSound, Owns
<1>4. \A t \in Threads : lk[t] = l => pc[t] \notin OwnPC
  BY <1>2, <1>3 DEF LockSound, Owns, OwnPC
<1>5. CASE repeat[l] > 1
  <2>1. repeat' = [repeat EXCEPT ![l] = @ - 1] /\ UNCHANGED <<holder, pc>>
    BY <1>5 DEF lock_release
  <2>2. SyncTypes'
    <3>1. repeat[l] - 1 \in Nat
      BY <1>5
    <3>2. repeat' \in [Locks -> Nat]
      BY <2>1, <3>1
    <3>3. ThreadTypeOK'
      BY <1>2 DEF ThreadTypeOK
    <3> QED
      BY <1>2, <2>1, <3>2, <3>3 DEF SyncTypes, SyncTypeOK
  <2>3. ASSUME NEW k \in Locks PROVE LockSound(k)'
    <3>1. LockSound(k)
      BY DEF LockInv
    <3>2. \A t \in Threads :
            /\ Owns(t, k)' <=> Owns(t, k)
            /\ \A x \in OwnPC : (pc'[t] = x /\ lk'[t] = k) <=> (pc[t] = x /\ lk[t] = k)
      BY <1>2, <2>1 DEF Owns, OwnPC
    <3>3. CASE k = l
      BY <1>2, <1>3, <1>4, <1>5, <2>1, <3>2, <3>3 DEF LockSound, OwnPC
    <3>4. CASE k # l
      BY <1>2, <2>1, <3>1, <3>2, <3>4 DEF LockSound, OwnPC
    <3> QED
      BY <3>3, <3>4
  <2> QED
    BY <2>2, <2>3 DEF LockInv
<1>6. CASE ~(repeat[l] > 1)
  <2>1. /\ holder' = [holder EXCEPT ![l] = Null] /\ pc' = [pc EXCEPT ![cur] = "zero"]
        /\ repeat' = repeat
    BY <1>6 DEF lock_release, Goto
  <2>2. SyncTypes'
    BY <1>2, <2>1 DEF SyncTypes, ThreadTypeOK, SyncTypeOK, SyncPC
  <2>3. ASSUME NEW k \in Locks PROVE LockSound(k)'
    <3>1. LockSound(k)
      BY DEF LockInv
    <3>2. \A t \in Threads : Owns(t, k)' <=> Owns(t, k)
      <4>1. CASE k = l
        BY <1>2, <1>3, <1>4, <2>1, <4>1 DEF Owns, LockSound, OwnPC
      <4>2. CASE k # l
        BY <1>2, <2>1, <4>2 DEF Owns
      <4> QED
        BY <4>1, <4>2
    <3>3. CASE k = l
      <4>1. repeat[l] = 1
        BY <1>3, <1>6
      <4> QED
        BY <1>2, <1>3, <1>4, <2>1, <3>2, <3>3, <4>1 DEF LockSound, OwnPC
    <3>4. CASE k # l
      BY <1>2, <2>1, <3>1, <3>2, <3>4 DEF LockSound, OwnPC
    <3> QED
      BY <3>3, <3>4
  <2> QED
    BY <2>2, <2>3 DEF LockInv
<1> QED
  BY <1>5, <1>6
(* sema_down: before the decrement nothing about the lock changes.         *)
LEMMA DownKeepsLocks == ASSUME LockInv, sema_down \/ sema_down_loop PROVE LockInv'
<1> USE ThreadAssumption, SyncAssumption
<1>0. Typed
  BY TypeFacts DEF LockInv
<1> USE <1>0 DEF Typed
<1> DEFINE l == lk[cur]
<1>1. CASE sema_down
  <2>1. /\ pc[cur] = "down" /\ pc' = [pc EXCEPT ![cur] = "test"] /\ intr' = FALSE
        /\ old' = [old EXCEPT ![cur] = intr]
        /\ UNCHANGED <<cur, status, ready, slice, saved, panicked>>
        /\ UNCHANGED <<value, waiters, holder, repeat, lk>>
    BY <1>1 DEF sema_down, intr_disable, At, Goto
  <2>2. SyncTypes'
    BY <2>1 DEF SyncTypes, ThreadTypeOK, SyncTypeOK, SyncPC
  <2> QED
    BY <2>1, <2>2, FrameSound DEF LockInv, OwnPC
<1>2. CASE sema_down_loop /\ value[l] = 0
  <2>1. /\ thread_block("BLOCKED", elem_find(waiters[l], cur))
        /\ waiters' = [waiters EXCEPT ![l] = Append(@, cur)]
        /\ UNCHANGED <<value, holder, repeat, lk, old, pc>>
    BY <1>2 DEF sema_down_loop
  <2>2. ThreadTypeOK'
    <3>1. elem_find(waiters[l], cur) \in BOOLEAN
      BY DEF elem_find
    <3> QED
      BY <2>1, <3>1, BlockTypes
  <2>3. SyncTypes'
    <3>1. Append(waiters[l], cur) \in Seq(Threads)
      <4>1. waiters[l] \in Seq(Threads)
        OBVIOUS
      <4> QED
        BY <4>1, AppendElements
    <3>2. waiters' \in [Locks -> Seq(Threads)]
      BY <2>1, <3>1
    <3> QED
      BY <2>1, <2>2, <3>2 DEF SyncTypes, SyncTypeOK
  <2> QED
    BY <2>1, <2>3, FrameSound DEF LockInv
<1>3. CASE sema_down_loop /\ value[l] # 0
  <2>1. /\ pc[cur] = "test" /\ pc' = [pc EXCEPT ![cur] = "own"]
        /\ value' = [value EXCEPT ![l] = @ - 1] /\ intr' = old[cur] /\ panicked' \in BOOLEAN
        /\ UNCHANGED <<waiters, cur, status, ready, slice, saved>>
        /\ UNCHANGED <<holder, repeat, lk, old>>
    BY <1>3 DEF sema_down_loop, At, Goto
  <2>2. value[l] = 1 /\ value' = [value EXCEPT ![l] = 0]
    <3>1. value[l] = 1
      BY <1>3
    <3> QED
      BY <2>1, <3>1
  <2>3. SyncTypes'
    BY <2>1, <2>2 DEF SyncTypes, ThreadTypeOK, SyncTypeOK, SyncPC
  <2>4. ASSUME NEW k \in Locks PROVE LockSound(k)'
    <3>1. LockSound(k)
      BY DEF LockInv
    <3>2. CASE k = l
      <4>1. \A t \in Threads : ~Owns(t, k)
        BY <2>2, <3>1, <3>2 DEF LockSound
      <4>2. \A t \in Threads : Owns(t, k)' <=> t = cur
        BY <2>1, <3>2, <4>1 DEF Owns
      <4>3. /\ holder[k] = Null /\ repeat[k] = 0
            /\ \A t \in Threads : holder[k] # t /\ (lk[t] = k => pc[t] \notin OwnPC)
        BY <2>2, <3>1, <3>2, <4>1 DEF LockSound, Owns, OwnPC
      <4> QED
        BY <2>1, <2>2, <3>2, <4>2, <4>3 DEF LockSound, OwnPC
    <3>3. CASE k # l
      <4>1. \A t \in Threads : Owns(t, k)' <=> Owns(t, k)
        BY <2>1, <3>3 DEF Owns
      <4> QED
        BY <2>1, <3>1, <3>3, <4>1 DEF LockSound
    <3> QED
      BY <3>2, <3>3
  <2> QED
    BY <2>3, <2>4 DEF LockInv
<1> QED
  BY <1>1, <1>2, <1>3

(* The rest of lock_acquire, with the semaphore taken.                     *)
LEMMA OwnKeepsLocks ==
  ASSUME LockInv, lock_acquire_own \/ lock_acquire_count
  PROVE  LockInv'
<1> USE ThreadAssumption, SyncAssumption
<1>0. Typed
  BY TypeFacts DEF LockInv
<1> USE <1>0 DEF Typed
<1> DEFINE l == lk[cur]
<1>1. CASE lock_acquire_own
  <2>1. /\ pc[cur] = "own" /\ pc' = [pc EXCEPT ![cur] = "count"]
        /\ holder' = [holder EXCEPT ![l] = cur]
        /\ UNCHANGED <<tvars, value, waiters, repeat, lk, old>>
    BY <1>1 DEF lock_acquire_own, At, Goto
  <2>2. SyncTypes'
    BY <2>1 DEF SyncTypes, ThreadTypeOK, SyncTypeOK, SyncPC, tvars
  <2>3. ASSUME NEW k \in Locks PROVE LockSound(k)'
    <3>1. LockSound(k)
      BY DEF LockInv
    <3>2. CASE k = l
      <4>1. Owns(cur, k) /\ holder[k] = Null /\ repeat[k] = 0
        BY <2>1, <3>1, <3>2 DEF LockSound, Owns
      <4>2. \A t \in Threads : Owns(t, k)' <=> Owns(t, k)
        BY <2>1, <3>1, <3>2, <4>1 DEF LockSound, Owns
      <4>3. \A t \in Threads \ {cur} : lk[t] = k => pc[t] \notin OwnPC
        BY <3>1, <4>1 DEF LockSound, Owns, OwnPC
      <4> QED
        BY <2>1, <3>1, <3>2, <4>1, <4>2, <4>3 DEF LockSound, OwnPC
    <3>3. CASE k # l
      <4>1. \A t \in Threads : Owns(t, k)' <=> Owns(t, k)
        BY <2>1, <3>3 DEF Owns
      <4> QED
        BY <2>1, <3>1, <3>3, <4>1 DEF LockSound
    <3> QED
      BY <3>2, <3>3
  <2> QED
    BY <2>2, <2>3 DEF LockInv
<1>2. CASE lock_acquire_count
  <2>1. /\ pc[cur] = "count" /\ pc' = [pc EXCEPT ![cur] = "out"]
        /\ repeat' = [repeat EXCEPT ![l] = 1] /\ panicked' \in BOOLEAN
        /\ UNCHANGED <<cur, status, ready, slice, intr, saved>>
        /\ UNCHANGED <<value, waiters, holder, lk, old>>
    BY <1>2 DEF lock_acquire_count, At, Goto
  <2>2. SyncTypes'
    BY <2>1 DEF SyncTypes, ThreadTypeOK, SyncTypeOK, SyncPC
  <2>3. ASSUME NEW k \in Locks PROVE LockSound(k)'
    <3>1. LockSound(k)
      BY DEF LockInv
    <3>2. CASE k = l
      <4>1. Owns(cur, k) /\ holder[k] = cur /\ value[k] = 0
        BY <2>1, <3>1, <3>2 DEF LockSound, Owns
      <4>2. \A t \in Threads : Owns(t, k)' <=> Owns(t, k)
        BY <2>1, <3>1, <3>2, <4>1 DEF LockSound, Owns
      <4>3. \A t \in Threads \ {cur} : lk[t] = k => pc[t] \notin OwnPC
        BY <3>1, <4>1 DEF LockSound, Owns, OwnPC
      <4> QED
        BY <2>1, <3>1, <3>2, <4>1, <4>2, <4>3 DEF LockSound, OwnPC
    <3>3. CASE k # l
      <4>1. \A t \in Threads : Owns(t, k)' <=> Owns(t, k)
        BY <2>1, <3>3 DEF Owns
      <4> QED
        BY <2>1, <3>1, <3>3, <4>1 DEF LockSound
    <3> QED
      BY <3>2, <3>3
  <2> QED
    BY <2>2, <2>3 DEF LockInv
<1> QED
  BY <1>1, <1>2

(* The rest of lock_release: the counter, then sema_up.                    *)
LEMMA UpKeepsLocks == ASSUME LockInv, lock_release_zero \/ sema_up PROVE LockInv'
<1> USE ThreadAssumption, SyncAssumption
<1>0. Typed
  BY TypeFacts DEF LockInv
<1> USE <1>0 DEF Typed
<1> DEFINE l == lk[cur]
<1>1. CASE lock_release_zero
  <2>1. /\ pc[cur] = "zero" /\ pc' = [pc EXCEPT ![cur] = "up"]
        /\ repeat' = [repeat EXCEPT ![l] = 0]
        /\ UNCHANGED <<tvars, value, waiters, holder, lk, old>>
    BY <1>1 DEF lock_release_zero, At, Goto
  <2>2. SyncTypes'
    BY <2>1 DEF SyncTypes, ThreadTypeOK, SyncTypeOK, SyncPC, tvars
  <2>3. ASSUME NEW k \in Locks PROVE LockSound(k)'
    <3>1. LockSound(k)
      BY DEF LockInv
    <3>2. CASE k = l
      <4>1. Owns(cur, k) /\ holder[k] = Null /\ value[k] = 0
        BY <2>1, <3>1, <3>2 DEF LockSound, Owns
      <4>2. \A t \in Threads : Owns(t, k)' <=> Owns(t, k)
        BY <2>1, <3>1, <3>2, <4>1 DEF LockSound, Owns
      <4>3. \A t \in Threads \ {cur} : lk[t] = k => pc[t] \notin OwnPC
        BY <3>1, <4>1 DEF LockSound, Owns, OwnPC
      <4> QED
        BY <2>1, <3>1, <3>2, <4>1, <4>2, <4>3 DEF LockSound, OwnPC
    <3>3. CASE k # l
      <4>1. \A t \in Threads : Owns(t, k)' <=> Owns(t, k)
        BY <2>1, <3>3 DEF Owns
      <4> QED
        BY <2>1, <3>1, <3>3, <4>1 DEF LockSound
    <3> QED
      BY <3>2, <3>3
  <2> QED
    BY <2>2, <2>3 DEF LockInv
<1>2. CASE sema_up
  <2>1. /\ pc[cur] = "up" /\ pc' = [pc EXCEPT ![cur] = "out"]
        /\ value' = [value EXCEPT ![l] = @ + 1]
        /\ UNCHANGED <<holder, repeat, lk, old>>
    BY <1>2 DEF sema_up, At, Goto
  <2>2. LockSound(l) /\ Owns(cur, l) /\ holder[l] = Null /\ value[l] = 0 /\ repeat[l] = 0
    <3>1. LockSound(l)
      BY DEF LockInv
    <3>2. Owns(cur, l)
      BY <2>1 DEF Owns
    <3> QED
      BY <2>1, <3>1, <3>2 DEF LockSound
  <2>3. value' = [value EXCEPT ![l] = 1]
    BY <2>1, <2>2
  <2>4. ThreadTypeOK' /\ waiters' \in [Locks -> Seq(Threads)]
    <3>1. CASE waiters[l] = <<>>
      BY <1>2, <3>1 DEF sema_up, ThreadTypeOK
    <3>2. CASE waiters[l] # <<>>
      <4>1. waiters[l] \in Seq(Threads)
        OBVIOUS
      <4>2. Head(waiters[l]) \in Threads /\ Tail(waiters[l]) \in Seq(Threads)
        BY <3>2, <4>1
      <4>3. /\ thread_unblock(Head(waiters[l]), value[l] # 0)
            /\ waiters' = [waiters EXCEPT ![l] = Tail(@)]
        BY <1>2, <3>2 DEF sema_up
      <4>4. (value[l] # 0) \in BOOLEAN
        OBVIOUS
      <4>5. ThreadTypeOK'
        BY <4>2, <4>3, <4>4, UnblockTypes
      <4> QED
        BY <4>2, <4>3, <4>5
    <3> QED
      BY <3>1, <3>2
  <2>5. SyncTypes'
    BY <2>1, <2>3, <2>4 DEF SyncTypes, SyncTypeOK, SyncPC
  <2>6. ASSUME NEW k \in Locks PROVE LockSound(k)'
    <3>1. LockSound(k)
      BY DEF LockInv
    <3>2. CASE k = l
      <4>1. \A t \in Threads : lk[t] = k => t = cur \/ pc[t] \notin OwnPC
        BY <2>2, <3>1, <3>2 DEF LockSound, Owns, OwnPC
      <4>2. \A t \in Threads : ~Owns(t, k)' /\ holder[k] # t
        BY <2>1, <2>2, <3>2, <4>1 DEF Owns, OwnPC
      <4>3. \A t \in Threads : lk'[t] = k => pc'[t] \notin OwnPC
        BY <2>1, <4>1 DEF OwnPC
      <4> QED
        BY <2>1, <2>2, <2>3, <3>2, <4>2, <4>3 DEF LockSound, OwnPC
    <3>3. CASE k # l
      <4>1. \A t \in Threads : Owns(t, k)' <=> Owns(t, k)
        BY <2>1, <3>3 DEF Owns
      <4> QED
        BY <2>1, <3>1, <3>3, <4>1 DEF LockSound
    <3> QED
      BY <3>2, <3>3
  <2> QED
    BY <2>5, <2>6 DEF LockInv
<1> QED
  BY <1>1, <1>2

(* A step of the idle loop at most, seen from the locks.                   *)
PcElsewhere == \/ pc' = pc
               \/ pc[cur] \in IdlePC /\ \E x \in IdlePC : pc' = [pc EXCEPT ![cur] = x]

(* Whatever happens outside lock_acquire and lock_release.                 *)
LEMMA ElsewhereKeepsLocks ==
  ASSUME LockInv, UNCHANGED svars, ThreadTypeOK', PcElsewhere
  PROVE  LockInv'
<1>0. Typed
  BY TypeFacts DEF LockInv
<1>1. pc' \in [Threads -> SyncPC \cup IdlePC]
  BY <1>0 DEF Typed, PcElsewhere
<1>2. SyncTypes'
  BY <1>0, <1>1 DEF SyncTypes, Typed, SyncTypeOK, svars
<1>3. \A t \in Threads : \/ pc'[t] = pc[t] /\ lk'[t] = lk[t]
                         \/ pc[t] \notin OwnPC /\ pc'[t] \notin OwnPC
  BY <1>0 DEF Typed, PcElsewhere, svars, OwnPC, IdlePC
<1>4. UNCHANGED <<value, holder, repeat>> /\ \A l \in Locks : LockSound(l)
  BY DEF svars, LockInv
<1> QED
  BY <1>2, <1>3, <1>4, FrameSound DEF LockInv

-----------------------------------------------------------------------------

Sleeps(t, l) == status[t] = "BLOCKED" /\ pc[t] = "test" /\ lk[t] = l
Tests(t, l)  == status[t] \in {"READY", "RUNNING"} /\ pc[t] = "test" /\ lk[t] = l

(* Who waits: no ASSERT has failed, a thread is on the waiters list of the *)
(* lock sema_down has it blocked on and on no other, and a free lock with  *)
(* sleepers has a thread on its way to it.                                 *)
WaitInv ==
  /\ RunSound
  /\ \A t \in Threads : pc[t] \in IdlePC <=> t = Idle
  /\ \A l \in Locks :
       /\ Distinct(waiters[l])
       /\ \A t \in Threads : t \in ToSet(waiters[l]) <=> Sleeps(t, l)
       /\ value[l] = 1 /\ waiters[l] # <<>> => \E t \in Threads : Tests(t, l)

(* The invariant says what the properties of Sync ask of these fields.     *)
LEMMA WaitProperties ==
  ASSUME WaitInv
  PROVE  NoPanic /\ NoLostWakeup /\ (AllListed => OneListPerTag)
<1>1. NoPanic /\ NoLostWakeup
  BY DEF WaitInv, RunSound, NoPanic, NoLostWakeup, Tests
<1>2. ASSUME AllListed PROVE OneListPerTag
  <2>1. \A t \in Threads : elem_find(ready, t) <=> status[t] = "READY"
    BY <1>2 DEF AllListed, WaitInv, RunSound, RunQueue, elem_find
  <2> QED
    BY <2>1 DEF WaitInv, OneListPerTag, Distinct, Sleeps, elem_find
<1> QED
  BY <1>1, <1>2

(* A step that puts nobody to sleep on a lock, wakes nobody from one and   *)
(* frees none.                                                             *)
LEMMA WaitFrame ==
  ASSUME WaitInv, RunSound', UNCHANGED waiters,
         \A t \in Threads : pc'[t] \in IdlePC <=> t = Idle,
         \A l \in Locks : value'[l] = 1 => value[l] = 1,
         \A l \in Locks : \A t \in Threads : Sleeps(t, l)' <=> Sleeps(t, l),
         \A l \in Locks : \A t \in Threads : value'[l] = 1 /\ Tests(t, l) => Tests(t, l)'
  PROVE  WaitInv'
BY DEF WaitInv

(* What WaitInv says of the running thread, for the leaves below.          *)
LEMMA Running ==
  ASSUME SyncTypes, WaitInv, At("out") \/ pc[cur] \in SyncPC
  PROVE  /\ ~panicked /\ status[cur] = "RUNNING" /\ cur # Idle /\ cur \in Threads
         /\ \A l \in Locks : ~Sleeps(cur, l)
<1> USE ThreadAssumption
<1>1. cur \in Threads /\ status[cur] = "RUNNING" /\ ~panicked
  BY DEF WaitInv, RunSound, RunQueue, ThreadTypeOK
<1>2. pc[cur] \in SyncPC
  BY DEF At, SyncPC
<1>3. cur # Idle
  BY <1>1, <1>2 DEF WaitInv, SyncPC, IdlePC
<1> QED
  BY <1>1, <1>3 DEF Sleeps

(* Steps that write neither the run queue nor a waiters list, and do not   *)
(* begin or end a wait.                                                    *)
LEMMA QuietStep ==
  ASSUME SyncTypes, SyncTypes', WaitInv, NEW x \in SyncPC, pc[cur] \in SyncPC,
         UNCHANGED <<cur, status, ready, slice, saved, waiters>>, ~panicked',
         pc' = [pc EXCEPT ![cur] = x], \A t \in Threads \ {cur} : lk'[t] = lk[t],
         \A l \in Locks : value'[l] = 1 => value[l] = 1 /\ (Tests(cur, l) => Tests(cur, l)')
  PROVE  WaitInv' /\ (AllListed => AllListed')
<1> USE ThreadAssumption
<1>1. /\ status[cur] = "RUNNING" /\ cur # Idle /\ cur \in Threads
      /\ pc \in [Threads -> SyncPC \cup IdlePC]
  BY Running DEF SyncTypes
<1>2. RunSound'
  BY DEF WaitInv, RunSound, RunQueue, IdleReady, SyncTypes
<1>3. \A t \in Threads : pc'[t] \in IdlePC <=> t = Idle
  BY <1>1 DEF WaitInv, IdlePC, SyncPC
<1>4. \A l \in Locks : \A t \in Threads : Sleeps(t, l)' <=> Sleeps(t, l)
  BY <1>1 DEF Sleeps
<1>5. \A l \in Locks : \A t \in Threads : value'[l] = 1 /\ Tests(t, l) => Tests(t, l)'
  BY <1>1 DEF Tests
<1>6. WaitInv'
  BY <1>2, <1>3, <1>4, <1>5, WaitFrame
<1> QED
  BY <1>6 DEF AllListed

(* lock_acquire and lock_release up to the semaphore: no ASSERT fails,     *)
(* because the counter says what LockInv says.                             *)
LEMMA AcquireKeepsWaits ==
  ASSUME LockInv, WaitInv, NEW l \in Locks, lock_acquire(l)
  PROVE  WaitInv' /\ (AllListed => AllListed')
<1> USE ThreadAssumption, SyncAssumption
<1>1. SyncTypes /\ SyncTypes' /\ Typed
  BY AcquireKeepsLocks, TypeFacts DEF LockInv
<1>2. /\ pc[cur] = "out" /\ lk' = [lk EXCEPT ![cur] = l]
      /\ UNCHANGED <<cur, status, ready, slice, intr, saved, panicked, value, waiters>>
      /\ pc' = pc \/ pc' = [pc EXCEPT ![cur] = "down"]
  BY DEF lock_acquire, At, Goto, tvars
<1>3. pc' = [pc EXCEPT ![cur] = "out"] \/ pc' = [pc EXCEPT ![cur] = "down"]
  BY <1>1, <1>2 DEF Typed
<1>4. ~panicked'
  BY <1>2 DEF WaitInv, RunSound
<1>5. \A t \in Threads \ {cur} : lk'[t] = lk[t]
  BY <1>1, <1>2 DEF Typed
<1>6. \A k \in Locks : ~Tests(cur, k)
  BY <1>2 DEF Tests
<1>7. "out" \in SyncPC /\ "down" \in SyncPC
  BY DEF SyncPC
<1> QED
  BY <1>1, <1>2, <1>3, <1>4, <1>5, <1>6, <1>7, QuietStep

LEMMA ReleaseKeepsWaits ==
  ASSUME LockInv, WaitInv, NEW l \in Locks, holder[l] = cur, lock_release(l)
  PROVE  WaitInv' /\ (AllListed => AllListed')
<1> USE ThreadAssumption, SyncAssumption
<1>1. SyncTypes /\ SyncTypes' /\ Typed
  BY ReleaseKeepsLocks, TypeFacts DEF LockInv
<1>2. /\ pc[cur] = "out" /\ lk' = [lk EXCEPT ![cur] = l]
      /\ UNCHANGED <<cur, status, ready, slice, intr, saved, value, waiters>>
      /\ pc' = pc \/ pc' = [pc EXCEPT ![cur] = "zero"]
  BY DEF lock_release, At, Goto
<1>3. pc' = [pc EXCEPT ![cur] = "out"] \/ pc' = [pc EXCEPT ![cur] = "zero"]
  BY <1>1, <1>2 DEF Typed
<1>4. ~panicked'
  <2>1. cur \in Threads /\ repeat[l] \in Nat
    BY <1>1 DEF Typed
  <2>2. repeat[l] > 0
    BY <1>2, <2>1 DEF LockInv, LockSound
  <2>3. CASE repeat[l] > 1
    BY <2>3 DEF lock_release
  <2>4. CASE ~(repeat[l] > 1)
    <3>1. repeat[l] = 1
      BY <2>1, <2>2, <2>4
    <3> QED
      BY <2>4, <3>1 DEF lock_release
  <2> QED
    BY <2>3, <2>4
<1>5. \A t \in Threads \ {cur} : lk'[t] = lk[t]
  BY <1>1, <1>2 DEF Typed
<1>6. \A k \in Locks : ~Tests(cur, k)
  BY <1>2 DEF Tests
<1>7. "out" \in SyncPC /\ "zero" \in SyncPC
  BY DEF SyncPC
<1> QED
  BY <1>1, <1>2, <1>3, <1>4, <1>5, <1>6, <1>7, QuietStep

(* sema_down: the thread that finds the value 0 appends itself to the      *)
(* waiters and blocks in one step with interrupts off.                     *)
LEMMA DownKeepsWaits ==
  ASSUME LockInv, WaitInv, sema_down \/ sema_down_loop
  PROVE  WaitInv' /\ (AllListed => AllListed')
<1> USE ThreadAssumption, SyncAssumption
<1>1. SyncTypes /\ SyncTypes' /\ Typed
  BY DownKeepsLocks, TypeFacts DEF LockInv
<1> DEFINE l == lk[cur]
<1>2. l \in Locks
  BY <1>1 DEF Typed
<1>3. CASE sema_down
  <2>1. /\ pc[cur] = "down" /\ pc' = [pc EXCEPT ![cur] = "test"]
        /\ UNCHANGED <<cur, status, ready, slice, saved, panicked, value, waiters, lk>>
    BY <1>3 DEF sema_down, intr_disable, At, Goto
  <2>2. ~panicked' /\ (\A k \in Locks : ~Tests(cur, k)) /\ "test" \in SyncPC /\ pc[cur] \in SyncPC
    BY <2>1 DEF WaitInv, RunSound, Tests, SyncPC
  <2> QED
    BY <1>1, <2>1, <2>2, QuietStep
<1>4. CASE sema_down_loop /\ value[l] # 0
  <2>1. value[l] = 1
    BY <1>1, <1>2, <1>4 DEF Typed
  <2>2. /\ pc[cur] = "test" /\ pc' = [pc EXCEPT ![cur] = "own"]
        /\ value' = [value EXCEPT ![l] = 0] /\ ~panicked'
        /\ UNCHANGED <<cur, status, ready, slice, saved, waiters, lk>>
    <3>1. /\ pc[cur] = "test" /\ pc' = [pc EXCEPT ![cur] = "own"]
          /\ value' = [value EXCEPT ![l] = value[l] - 1]
          /\ UNCHANGED <<cur, status, ready, slice, saved, waiters, lk>>
      BY <1>4 DEF sema_down_loop, At, Goto
    <3>2. value[l] - 1 = 0
      BY <2>1
    <3>3. ~panicked'
      BY <1>4, <2>1 DEF sema_down_loop
    <3> QED
      BY <3>1, <3>2, <3>3
  <2>3. \A k \in Locks : value'[k] = 1 => value[k] = 1 /\ (Tests(cur, k) => Tests(cur, k)')
    BY <1>1, <1>2, <2>2 DEF Tests, Typed
  <2>4. ~panicked' /\ "own" \in SyncPC /\ pc[cur] \in SyncPC
    BY <2>2 DEF SyncPC
  <2> QED
    BY <1>1, <2>2, <2>3, <2>4, QuietStep
<1>5. CASE sema_down_loop /\ value[l] = 0
  <2>1. /\ pc[cur] = "test"
        /\ thread_block("BLOCKED", elem_find(waiters[l], cur))
        /\ waiters' = [waiters EXCEPT ![l] = Append(@, cur)]
        /\ UNCHANGED <<value, pc, lk>>
    BY <1>5 DEF sema_down_loop, At
  <2>2. ~panicked /\ status[cur] = "RUNNING" /\ cur # Idle /\ cur \in Threads
    BY <1>1, <2>1, Running DEF SyncPC
  <2>3. cur \notin ToSet(waiters[l])
    BY <1>2, <2>2 DEF WaitInv, Sleeps
  <2> DEFINE sv == [saved EXCEPT ![cur] = intr]
             failed == elem_find(waiters[l], cur) \/ "BLOCKED" \notin Blocked
  <2>4. /\ schedule([status EXCEPT ![cur] = "BLOCKED"], sv, failed)
        /\ sv \in [Threads -> BOOLEAN] /\ failed \in BOOLEAN /\ ~failed
        /\ "BLOCKED" \in Blocked \cup {"READY", "RUNNING"} /\ "BLOCKED" \in Blocked
    BY <1>1, <2>1, <2>3 DEF thread_block, elem_find, Blocked, Typed, ThreadTypeOK
  <2> HIDE DEF sv, failed
  <2>5. /\ RunSound'
        /\ \A t \in Threads \ {Idle} :
             status'[t] = "BLOCKED" <=> IF t = cur THEN TRUE ELSE status[t] = "BLOCKED"
        /\ \A t \in Threads : t # cur /\ status[t] = "READY" => status'[t] \in {"READY", "RUNNING"}
        /\ AllListed => AllListed'
    BY <2>4, SwitchSound DEF WaitInv
  <2>6. \A k \in Locks : \A t \in Threads :
          Sleeps(t, k)' <=> Sleeps(t, k) \/ (t = cur /\ k = l)
    BY <2>1, <2>2, <2>5 DEF WaitInv, Sleeps, IdlePC
  <2>7. \A k \in Locks : \A t \in Threads : k # l /\ Tests(t, k) => Tests(t, k)'
    <3> SUFFICES ASSUME NEW k \in Locks, NEW t \in Threads, k # l, Tests(t, k) PROVE Tests(t, k)'
      OBVIOUS
    <3>1. t # cur
      BY DEF Tests
    <3>2. status[t] = "READY"
      BY <3>1 DEF Tests, WaitInv, RunSound, RunQueue
    <3> QED
      BY <2>1, <2>5, <3>1, <3>2 DEF Tests
  <2>8. /\ waiters[l] \in Seq(Threads) /\ Distinct(waiters[l])
        /\ \A k \in Locks : waiters'[k] = IF k = l THEN Append(waiters[l], cur) ELSE waiters[k]
    BY <1>1, <1>2, <2>1 DEF Typed, WaitInv
  <2>9. ASSUME NEW k \in Locks
        PROVE  /\ Distinct(waiters'[k])
               /\ \A t \in Threads : t \in ToSet(waiters'[k]) <=> Sleeps(t, k)'
               /\ value'[k] = 1 /\ waiters'[k] # <<>> => \E t \in Threads : Tests(t, k)'
    <3>1. CASE k = l
      <4>1. /\ Distinct(Append(waiters[l], cur))
            /\ \A t : t \in ToSet(Append(waiters[l], cur)) <=> t \in ToSet(waiters[l]) \/ t = cur
        BY <2>2, <2>3, <2>8, AppendElements
      <4>2. value'[k] # 1
        BY <1>5, <2>1, <3>1
      <4> QED
        BY <2>6, <2>8, <3>1, <4>1, <4>2 DEF WaitInv
    <3>2. CASE k # l
      BY <2>1, <2>6, <2>7, <2>8, <3>2 DEF WaitInv
    <3> QED
      BY <3>1, <3>2
  <2>10. WaitInv'
    BY <2>1, <2>5, <2>9 DEF WaitInv
  <2> QED
    BY <2>5, <2>10
<1> QED
  BY <1>3, <1>4, <1>5

(* The writes of lock_acquire after the semaphore, and the counter's reset *)
(* in lock_release.                                                        *)
LEMMA OwnKeepsWaits ==
  ASSUME LockInv, WaitInv, lock_acquire_own \/ lock_acquire_count \/ lock_release_zero
  PROVE  WaitInv' /\ (AllListed => AllListed')
<1> USE ThreadAssumption, SyncAssumption
<1>1. SyncTypes /\ SyncTypes' /\ Typed
  BY OwnKeepsLocks, UpKeepsLocks, TypeFacts DEF LockInv
<1>2. /\ pc[cur] \in {"own", "count", "zero"}
      /\ \E x \in {"count", "out", "up"} : pc' = [pc EXCEPT ![cur] = x]
      /\ UNCHANGED <<cur, status, ready, slice, saved, value, waiters, lk>>
  BY DEF lock_acquire_own, lock_acquire_count, lock_release_zero, At, Goto, tvars
<1>3. ~panicked'
  <2>1. CASE lock_acquire_count
    <3>1. cur \in Threads /\ lk[cur] \in Locks /\ pc[cur] = "count"
      BY <1>1, <2>1 DEF Typed, lock_acquire_count, At
    <3>2. repeat[lk[cur]] = 0
      BY <3>1 DEF LockInv, LockSound
    <3> QED
      BY <2>1, <3>2 DEF lock_acquire_count
  <2>2. CASE lock_acquire_own \/ lock_release_zero
    BY <2>2 DEF lock_acquire_own, lock_release_zero, tvars, WaitInv, RunSound
  <2> QED
    BY <2>1, <2>2
<1>4. \A k \in Locks : ~Tests(cur, k)
  BY <1>2 DEF Tests
<1>5. {"own", "count", "zero", "out", "up"} \subseteq SyncPC
  BY DEF SyncPC
<1> QED
  BY <1>1, <1>2, <1>3, <1>4, <1>5, QuietStep

(* sema_up: the value is 0, so the increment leaves it binary; the woken   *)
(* thread leaves the waiters and is on its way to the lock.                *)
LEMMA UpKeepsWaits == ASSUME LockInv, WaitInv, sema_up PROVE WaitInv' /\ (AllListed => AllListed')
<1> USE ThreadAssumption, SyncAssumption
<1>1. SyncTypes /\ SyncTypes' /\ Typed
  BY UpKeepsLocks, TypeFacts DEF LockInv
<1>0. PICK l \in Locks : l = lk[cur]
  BY <1>1 DEF Typed
<1>2. /\ pc[cur] = "up" /\ pc' = [pc EXCEPT ![cur] = "out"] /\ lk' = lk
      /\ value' = [value EXCEPT ![l] = @ + 1]
  BY <1>0 DEF sema_up, At, Goto
<1>3. ~panicked /\ status[cur] = "RUNNING" /\ cur # Idle /\ cur \in Threads
  BY <1>1, <1>2, Running DEF SyncPC
<1>4. value[l] = 0
  BY <1>0, <1>2, <1>3 DEF LockInv, LockSound, Owns
<1>5. \A k \in Locks : k # l => value'[k] = value[k]
  BY <1>1, <1>2 DEF Typed
<1>6. \A t \in Threads : pc'[t] \in IdlePC <=> t = Idle
  BY <1>1, <1>2, <1>3 DEF Typed, WaitInv, IdlePC
<1>7. CASE waiters[l] = <<>>
  <2>1. UNCHANGED <<waiters, cur, status, ready, slice, intr, saved>> /\ panicked' = FALSE
    BY <1>0, <1>4, <1>7 DEF sema_up
  <2>2. RunSound'
    BY <1>1, <2>1 DEF WaitInv, RunSound, RunQueue, IdleReady, SyncTypes
  <2>3. \A k \in Locks : \A t \in Threads :
          (Sleeps(t, k)' <=> Sleeps(t, k)) /\ (Tests(t, k) => Tests(t, k)')
    BY <1>1, <1>2, <1>3, <2>1 DEF Typed, Sleeps, Tests
  <2>4. WaitInv'
    BY <1>5, <1>6, <1>7, <2>1, <2>2, <2>3 DEF WaitInv
  <2> QED
    BY <2>1, <2>4 DEF AllListed
<1>8. CASE waiters[l] # <<>>
  <2>1. waiters[l] \in Seq(Threads) /\ Distinct(waiters[l])
    BY <1>1, <1>2 DEF Typed, WaitInv
  <2>2. PICK u \in Threads :
        /\ u = Head(waiters[l]) /\ u \in ToSet(waiters[l])
        /\ Distinct(Tail(waiters[l])) /\ u \notin ToSet(Tail(waiters[l]))
        /\ \A t : t \in ToSet(waiters[l]) <=> t \in ToSet(Tail(waiters[l])) \/ t = u
    BY <1>8, <2>1, PopElements
  <2>3. /\ thread_unblock(u, value[l] # 0)
        /\ waiters' = [waiters EXCEPT ![l] = Tail(@)]
    BY <1>0, <1>8, <2>2 DEF sema_up
  <2>4. thread_unblock(u, FALSE)
    BY <1>4, <2>3, Zenon
  <2>5. \A k \in Locks : waiters'[k] = IF k = l THEN Tail(waiters[l]) ELSE waiters[k]
    BY <1>1, <2>3 DEF Typed
  <2>6. Sleeps(u, l) /\ status[u] \in Blocked /\ u # cur
    BY <1>2, <1>3, <2>2 DEF WaitInv, Sleeps, Blocked
  <2>7. /\ RunSound' /\ (AllListed => AllListed')
        /\ cur' = cur /\ status' = [status EXCEPT ![u] = "READY"]
    BY <2>2, <2>4, <2>6, WakeSound DEF WaitInv
  <2>8. status \in [Threads -> Status] /\ pc \in [Threads -> SyncPC \cup IdlePC]
    BY <1>1 DEF Typed, ThreadTypeOK
  <2>9. \A k \in Locks : \A t \in Threads :
          /\ Sleeps(t, k)' <=> Sleeps(t, k) /\ t # u
          /\ Tests(t, k) => Tests(t, k)'
    BY <1>2, <1>3, <2>2, <2>7, <2>8 DEF Sleeps, Tests
  <2>10. Tests(u, l)'
    <3>1. lk'[u] = l /\ pc[u] = "test"
      BY <1>2, <2>6 DEF Sleeps
    <3>2. pc'[u] = "test"
      BY <1>2, <2>6, <3>1
    <3>3. status'[u] = "READY"
      BY <2>2, <2>7, <2>8
    <3> QED
      BY <3>1, <3>2, <3>3 DEF Tests
  <2>11. ASSUME NEW k \in Locks
        PROVE  /\ Distinct(waiters'[k])
               /\ \A t \in Threads : t \in ToSet(waiters'[k]) <=> Sleeps(t, k)'
               /\ value'[k] = 1 /\ waiters'[k] # <<>> => \E t \in Threads : Tests(t, k)'
    <3>1. CASE k = l
      BY <2>2, <2>5, <2>9, <2>10, <3>1 DEF WaitInv
    <3>2. CASE k # l
      <4>1. ~Sleeps(u, k)
        BY <2>6, <3>2 DEF Sleeps
      <4> QED
        BY <1>5, <2>5, <2>9, <3>2, <4>1 DEF WaitInv
    <3> QED
      BY <3>1, <3>2
  <2>12. WaitInv'
    BY <1>6, <2>7, <2>11 DEF WaitInv
  <2> QED
    BY <2>7, <2>12
<1> QED
  BY <1>7, <1>8

LEMMA StepKeepsWaits ==
  ASSUME LockInv, WaitInv, LockStep
  PROVE  LockInv' /\ WaitInv' /\ (AllListed => AllListed')
<1>1. LockInv'
  BY DownKeepsLocks, OwnKeepsLocks, UpKeepsLocks DEF LockStep
<1>2. WaitInv' /\ (AllListed => AllListed')
  BY DownKeepsWaits, OwnKeepsWaits, UpKeepsWaits DEF LockStep
<1> QED
  BY <1>1, <1>2

(* The clock, a blocking or a wake-up outside of sync.c.                   *)
LEMMA ElsewhereKeepsWaits ==
  ASSUME SyncTypes, WaitInv, UNCHANGED svars, RunSound', PcElsewhere,
         \A t \in Threads \ {Idle} : pc[t] = "test" =>
           /\ status'[t] = "BLOCKED" <=> status[t] = "BLOCKED"
           /\ status[t] \in {"READY", "RUNNING"} => status'[t] \in {"READY", "RUNNING"}
  PROVE  WaitInv'
<1> USE ThreadAssumption
<1>1. Typed
  BY TypeFacts
<1>2. \A t \in Threads : pc'[t] \in IdlePC <=> t = Idle
  BY <1>1 DEF WaitInv, PcElsewhere, Typed
<1>3. \A t \in Threads : pc'[t] = "test" <=> pc[t] = "test"
  BY <1>1 DEF PcElsewhere, Typed, IdlePC
<1>4. \A t \in Threads : pc[t] = "test" => t # Idle
  BY DEF WaitInv, IdlePC
<1>5. \A l \in Locks : \A t \in Threads :
        (Sleeps(t, l)' <=> Sleeps(t, l)) /\ (Tests(t, l) => Tests(t, l)')
  BY <1>1, <1>3, <1>4 DEF Sleeps, Tests, svars
<1> QED
  BY <1>1, <1>2, <1>5, WaitFrame DEF svars

(* The clock strikes, or the idle thread runs.                             *)
LEMMA MachineKeepsAll ==
  ASSUME LockInv, WaitInv, TimerTick \/ IdleStep, UNCHANGED svars
  PROVE  /\ LockInv' /\ WaitInv' /\ (AllListed => AllListed')
         /\ \A t \in Threads \ {Idle} : \A b \in Blocked : status'[t] = b <=> status[t] = b
<1> USE ThreadAssumption
<1>1. Typed /\ cur \in Threads /\ SyncTypes
  BY TypeFacts DEF LockInv, Typed
<1>2. PcElsewhere
  BY DEF TimerTick, LeaveHlt, IdleStep, idle_block, idle_hlt, At, Goto, IdlePC, PcElsewhere
<1>3. /\ RunSound' /\ (AllListed => AllListed')
      /\ \A t \in Threads \ {Idle} : pc[t] = "test" =>
           /\ status'[t] = "BLOCKED" <=> status[t] = "BLOCKED"
           /\ status[t] \in {"READY", "RUNNING"} => status'[t] \in {"READY", "RUNNING"}
      /\ \A t \in Threads \ {Idle} : \A b \in Blocked : status'[t] = b <=> status[t] = b
  <2>1. CASE TimerTick
    <3>1. RunSound /\ intr_timer_handler
      BY <2>1 DEF TimerTick, WaitInv
    <3>2. "BLOCKED" \in Blocked
      BY DEF Blocked
    <3> QED
      BY <3>1, <3>2, TickSound
  <2>2. CASE idle_block
    <3> DEFINE sv == [saved EXCEPT ![cur] = intr]
               failed == FALSE \/ "BLOCKED" \notin Blocked
    <3>1. /\ schedule([status EXCEPT ![cur] = "BLOCKED"], sv, failed)
          /\ sv \in [Threads -> BOOLEAN] /\ failed \in BOOLEAN /\ ~failed
          /\ "BLOCKED" \in Blocked \cup {"READY", "RUNNING"} /\ "BLOCKED" \in Blocked
      BY <1>1, <2>2 DEF idle_block, thread_block, Blocked, Typed, ThreadTypeOK
    <3>2. cur = Idle
      BY <1>1, <2>2 DEF idle_block, At, WaitInv, IdlePC
    <3> HIDE DEF sv, failed
    <3>3. /\ RunSound' /\ (AllListed => AllListed')
          /\ \A t \in Threads \ {Idle} : \A b \in Blocked :
               status'[t] = b <=> IF t = cur THEN "BLOCKED" = b ELSE status[t] = b
          /\ \A t \in Threads : t # cur /\ status[t] = "READY" => status'[t] \in {"READY", "RUNNING"}
      BY <3>1, SwitchSound DEF WaitInv
    <3>4. \A t \in Threads : t # cur => status[t] # "RUNNING"
      BY DEF WaitInv, RunSound, RunQueue
    <3> QED
      BY <3>1, <3>2, <3>3, <3>4
  <2>3. CASE idle_hlt
    <3>1. UNCHANGED <<cur, status, ready, slice, saved, panicked>> /\ intr' = TRUE
      BY <2>3 DEF idle_hlt, intr_enable
    <3> QED
      BY <1>1, <3>1 DEF WaitInv, RunSound, RunQueue, IdleReady, AllListed, ThreadTypeOK
  <2> QED
    BY <2>1, <2>2, <2>3 DEF IdleStep
<1>4. WaitInv'
  BY <1>1, <1>2, <1>3, ElsewhereKeepsWaits
<1>5. LockInv'
  BY <1>2, <1>3, ElsewhereKeepsLocks DEF RunSound
<1> QED
  BY <1>3, <1>4, <1>5

(* Code outside of sync.c that writes neither the run queue nor a lock.    *)
LEMMA LocalKeepsAll ==
  ASSUME LockInv, WaitInv, UNCHANGED <<svars, pc, cur, status, ready, slice, saved, panicked>>,
         intr' \in BOOLEAN
  PROVE  LockInv' /\ WaitInv' /\ (AllListed => AllListed')
<1>1. SyncTypes
  BY DEF LockInv
<1>2. RunSound' /\ (AllListed => AllListed')
  BY DEF WaitInv, RunSound, ThreadTypeOK, RunQueue, IdleReady, AllListed
<1>3. PcElsewhere
  BY DEF PcElsewhere
<1>4. WaitInv'
  BY <1>1, <1>2, <1>3, ElsewhereKeepsWaits DEF svars
<1>5. LockInv'
  BY <1>2, <1>3, ElsewhereKeepsLocks DEF RunSound, svars
<1> QED
  BY <1>2, <1>4, <1>5

(* thread_unblock of a thread that sleeps elsewhere than in sema_down.     *)
LEMMA WakeKeepsAll ==
  ASSUME LockInv, WaitInv, NEW u \in Threads, status[u] \in Blocked, pc[u] # "test",
         thread_unblock(u, FALSE), UNCHANGED svars, PcElsewhere
  PROVE  /\ LockInv' /\ WaitInv' /\ (AllListed => AllListed')
         /\ cur' = cur /\ intr' = intr /\ saved' = saved /\ status' = [status EXCEPT ![u] = "READY"]
<1>1. SyncTypes /\ status \in [Threads -> Status]
  BY DEF LockInv, SyncTypes, ThreadTypeOK
<1>2. /\ RunSound' /\ (AllListed => AllListed')
      /\ cur' = cur /\ intr' = intr /\ saved' = saved /\ status' = [status EXCEPT ![u] = "READY"]
  BY WakeSound DEF WaitInv
<1>3. WaitInv'
  BY <1>1, <1>2, ElsewhereKeepsWaits
<1>4. LockInv'
  BY <1>2, ElsewhereKeepsLocks DEF RunSound
<1> QED
  BY <1>2, <1>3, <1>4

(* thread_block elsewhere than in sema_down.                               *)
LEMMA BlockKeepsAll ==
  ASSUME LockInv, WaitInv, pc[cur] = "out", NEW b \in Blocked, thread_block(b, FALSE),
         UNCHANGED <<svars, pc>>
  PROVE  /\ LockInv' /\ WaitInv' /\ (AllListed => AllListed')
         /\ saved' = [saved EXCEPT ![cur] = intr] /\ intr' = saved'[cur']
         /\ \A t \in Threads \ {Idle} : \A x \in Blocked :
              status'[t] = x <=> IF t = cur THEN b = x ELSE status[t] = x
<1> DEFINE sv == [saved EXCEPT ![cur] = intr]
           failed == FALSE \/ b \notin Blocked
<1>1. SyncTypes /\ Typed /\ saved \in [Threads -> BOOLEAN]
  BY TypeFacts DEF LockInv, SyncTypes, ThreadTypeOK
<1>2. schedule([status EXCEPT ![cur] = b], sv, failed)
  BY DEF thread_block
<1>3. sv \in [Threads -> BOOLEAN] /\ failed \in BOOLEAN /\ ~failed
  BY <1>1 DEF Typed
<1>4. b \in Blocked \cup {"READY", "RUNNING"} /\ b # "READY"
  BY DEF Blocked
<1>5. saved' = sv /\ intr' = sv[cur']
  BY <1>2 DEF schedule
<1> HIDE DEF sv, failed
<1>6. /\ RunSound' /\ (AllListed => AllListed')
      /\ \A t \in Threads \ {Idle} : \A x \in Blocked :
           status'[t] = x <=> IF t = cur THEN b = x ELSE status[t] = x
      /\ \A t \in Threads : t # cur /\ status[t] = "READY" => status'[t] \in {"READY", "RUNNING"}
  BY <1>2, <1>3, <1>4, SwitchSound DEF WaitInv
<1>7. \A t \in Threads \ {Idle} : pc[t] = "test" =>
           /\ status'[t] = "BLOCKED" <=> status[t] = "BLOCKED"
           /\ status[t] \in {"READY", "RUNNING"} => status'[t] \in {"READY", "RUNNING"}
  <2>1. \A t \in Threads : t # cur => status[t] # "RUNNING"
    BY DEF WaitInv, RunSound, RunQueue
  <2>2. "BLOCKED" \in Blocked
    BY DEF Blocked
  <2> QED
    BY <1>6, <2>1, <2>2
<1>8. PcElsewhere
  BY DEF PcElsewhere
<1>9. WaitInv'
  BY <1>1, <1>6, <1>7, <1>8, ElsewhereKeepsWaits
<1>10. LockInv'
  BY <1>6, <1>8, ElsewhereKeepsLocks DEF RunSound
<1> QED
  BY <1>5, <1>6, <1>9, <1>10 DEF sv

(* A step of sync.c does nothing to the threads outside of it.             *)
LEMMA StepLeavesOthers ==
  ASSUME LockInv, WaitInv, LockStep, NEW t \in Threads, t # cur
  PROVE  /\ pc'[t] = pc[t] /\ lk'[t] = lk[t] /\ old'[t] = old[t]
         /\ \A l \in Locks : holder'[l] = t <=> holder[l] = t
         /\ t # Idle /\ pc[t] # "test" => \A b \in Blocked : status'[t] = b <=> status[t] = b
<1> USE SyncAssumption
<1>1. Typed
  BY TypeFacts DEF LockInv
<1> USE <1>1 DEF Typed
<1>2. CASE lock_acquire_own
  <2>1. holder[lk[cur]] = Null
    BY <1>2 DEF LockInv, LockSound, lock_acquire_own, At
  <2> QED
    BY <1>2, <2>1 DEF lock_acquire_own, Goto, tvars
<1>3. CASE sema_down \/ lock_acquire_count \/ lock_release_zero
  BY <1>3 DEF sema_down, lock_acquire_count, lock_release_zero, Goto, intr_disable, tvars
<1>4. CASE sema_down_loop /\ value[lk[cur]] # 0
  BY <1>4 DEF sema_down_loop, Goto
<1>5. CASE sema_down_loop /\ value[lk[cur]] = 0
  <2>1. /\ thread_block("BLOCKED", elem_find(waiters[lk[cur]], cur))
        /\ UNCHANGED <<pc, lk, old, holder>> /\ pc[cur] = "test"
    BY <1>5 DEF sema_down_loop, At
  <2>2. ~elem_find(waiters[lk[cur]], cur)
    <3>1. status[cur] = "RUNNING"
      BY DEF WaitInv, RunSound, RunQueue
    <3> QED
      BY <3>1 DEF WaitInv, Sleeps, elem_find
  <2> DEFINE sv == [saved EXCEPT ![cur] = intr]
             failed == elem_find(waiters[lk[cur]], cur) \/ "BLOCKED" \notin Blocked
  <2>3. /\ schedule([status EXCEPT ![cur] = "BLOCKED"], sv, failed)
        /\ sv \in [Threads -> BOOLEAN] /\ failed \in BOOLEAN /\ ~failed
        /\ "BLOCKED" \in Blocked \cup {"READY", "RUNNING"} /\ "BLOCKED" \in Blocked
    BY <2>1, <2>2 DEF thread_block, elem_find, Blocked, ThreadTypeOK
  <2> HIDE DEF sv, failed
  <2>4. \A u \in Threads \ {Idle} : \A b \in Blocked :
          status'[u] = b <=> IF u = cur THEN "BLOCKED" = b ELSE status[u] = b
    <3>1. RunSound
      BY DEF WaitInv
    <3>2. "BLOCKED" # "READY"
      OBVIOUS
    <3> HIDE <1>1
    <3> QED
      BY <2>3, <3>1, <3>2, SwitchSound
  <2> QED
    BY <2>1, <2>4
<1>6. CASE sema_up
  <2>1. /\ pc' = [pc EXCEPT ![cur] = "out"] /\ UNCHANGED <<lk, old, holder>>
    BY <1>6 DEF sema_up, Goto
  <2>2. CASE waiters[lk[cur]] = <<>>
    BY <1>6, <2>1, <2>2 DEF sema_up
  <2>3. CASE waiters[lk[cur]] # <<>>
    <3>1. status' = [status EXCEPT ![Head(waiters[lk[cur]])] = "READY"]
      BY <1>6, <2>3 DEF sema_up, thread_unblock
    <3>2. /\ Head(waiters[lk[cur]]) \in Threads
          /\ Head(waiters[lk[cur]]) \in ToSet(waiters[lk[cur]])
      <4>1. waiters[lk[cur]] \in Seq(Threads)
        OBVIOUS
      <4> QED
        BY <2>3, <4>1, PopElements
    <3>3. pc[Head(waiters[lk[cur]])] = "test"
      BY <3>2 DEF WaitInv, Sleeps
    <3>4. pc[t] # "test" => status'[t] = status[t]
      BY <3>1, <3>3 DEF ThreadTypeOK
    <3> QED
      BY <2>1, <3>4
  <2> QED
    BY <2>2, <2>3
<1> QED
  BY <1>2, <1>3, <1>4, <1>5, <1>6 DEF LockStep

(* main has started the threads: every lock is free, everybody is listed.  *)
LEMMA SystemUpSound == ASSUME SystemUp PROVE LockInv /\ WaitInv /\ AllListed
<1> USE ThreadAssumption, SyncAssumption
<1>1. SyncTypes
  <2>1. ThreadTypeOK
    BY DEF SystemUp, ThreadTypeOK, Status
  <2>2. SyncTypeOK
    BY DEF SystemUp, SyncInit, SyncTypeOK
  <2>3. pc \in [Threads -> SyncPC \cup IdlePC]
    BY DEF SystemUp, SyncPC, IdlePC
  <2> QED
    BY <2>1, <2>2, <2>3 DEF SyncTypes
<1>2. ASSUME NEW l \in Locks PROVE LockSound(l)
  BY DEF SystemUp, SyncInit, LockSound, Owns
<1>3. RunSound /\ AllListed
  <2>1. /\ cur = Main /\ ready = Started /\ ~panicked
        /\ status = [t \in Threads |-> IF t = Main THEN "RUNNING" ELSE "READY"]
    BY DEF SystemUp
  <2> QED
    BY <1>1, <2>1 DEF RunSound, RunQueue, Distinct, IdleReady, AllListed, SyncTypes
<1>4. WaitInv
  <2>1. \A t \in Threads : pc[t] \in IdlePC <=> t = Idle
    BY DEF SystemUp, IdlePC
  <2>2. \A l \in Locks : waiters[l] = <<>> /\ \A t \in Threads : ~Sleeps(t, l)
    BY DEF SystemUp, SyncInit, Sleeps
  <2>3. Distinct(<<>>) /\ ToSet(<<>>) = {}
    BY DEF Distinct, ToSet
  <2> QED
    BY <1>3, <2>1, <2>2, <2>3 DEF WaitInv
<1> QED
  BY <1>1, <1>2, <1>3, <1>4 DEF LockInv

-----------------------------------------------------------------------------

(***************************************************************************)
(* The operations of list.c, on pointers, do to a list what the operations *)
(* on sequences do that Thread and the other modules use in their place.   *)
(***************************************************************************)

(* A list in memory: well-typed links and elements that occur once.        *)
IsList(l, s) == l \in Links /\ s \in Seq(Nodes) /\ Distinct(s) /\ Represents(l, s)

(* Two different positions of a walk hold different list_elems.            *)
LEMMA ElemsDiffer ==
  ASSUME ListAssumption, NEW s \in Seq(Nodes), Distinct(s)
  PROVE  /\ \A i \in 0 .. Len(s) + 1 : Elem(s, i) \in Nodes \cup {HeadElem, TailElem}
         /\ \A i \in 1 .. Len(s) : Elem(s, i) = s[i] /\ s[i] \in Nodes
         /\ \A i, j \in 0 .. Len(s) + 1 : Elem(s, i) = Elem(s, j) => i = j
<1>1. Len(s) \in Nat /\ DOMAIN s = 1 .. Len(s) /\ \A i \in 1 .. Len(s) : s[i] \in Nodes
  OBVIOUS
<1>2. \A i \in 1 .. Len(s) : Elem(s, i) = s[i]
  BY <1>1 DEF Elem
<1>3. \A i \in 0 .. Len(s) + 1 : i = 0 \/ i = Len(s) + 1 \/ i \in 1 .. Len(s)
  BY <1>1
<1>4. Elem(s, 0) = HeadElem /\ Elem(s, Len(s) + 1) = TailElem
  BY <1>1 DEF Elem
<1> QED
  BY <1>1, <1>2, <1>3, <1>4 DEF ListAssumption, Distinct

(* list_init: an empty list.                                               *)
THEOREM InitRepresents ==
  ASSUME ListAssumption, NEW l \in Links
  PROVE  IsList(list_init(l), <<>>) /\ list_empty(list_init(l))
<1>1. list_init(l) \in Links
  BY DEF list_init, Links
<1>2. Represents(list_init(l), <<>>)
  BY DEF list_init, Links, Represents, Elem, ListAssumption
<1>3. list_empty(list_init(l))
  BY DEF list_init, Links, list_empty, ListAssumption
<1> QED
  BY <1>1, <1>2, <1>3 DEF IsList, Distinct

(* list_insert_before: the new element comes before the i-th, and no       *)
(* list_elem outside of the list is touched.                               *)
THEOREM InsertRepresents ==
  ASSUME ListAssumption, NEW l, NEW s, IsList(l, s),
         NEW i \in 1 .. Len(s) + 1, NEW x \in Nodes, x \notin ToSet(s)
  PROVE  LET l1 == list_insert_before(l, Elem(s, i), x) IN
         /\ IsList(l1, Inserted(s, i, x))
         /\ \A n \in Nodes : n # x /\ n \notin ToSet(s) =>
              l1.next[n] = l.next[n] /\ l1.prev[n] = l.prev[n]
<1> DEFINE l1 == list_insert_before(l, Elem(s, i), x)
           s1 == Inserted(s, i, x)
           a == Elem(s, i - 1)
           b == Elem(s, i)
<1>1. /\ l \in Links /\ s \in Seq(Nodes) /\ Distinct(s) /\ Len(s) \in Nat /\ i \in Nat
      /\ i - 1 \in 0 .. Len(s) /\ i \in 0 .. Len(s) + 1 /\ i - 1 \in 0 .. Len(s) + 1
  BY DEF IsList
<1>2. /\ \A k \in 0 .. Len(s) + 1 : Elem(s, k) \in Nodes \cup {HeadElem, TailElem}
      /\ \A k \in 1 .. Len(s) : Elem(s, k) = s[k] /\ s[k] \in Nodes
      /\ \A k, m \in 0 .. Len(s) + 1 : Elem(s, k) = Elem(s, m) => k = m
  BY <1>1, ElemsDiffer
<1>3. \A k \in 0 .. Len(s) + 1 : Elem(s, k) # x
  <2>1. \A k \in 1 .. Len(s) : s[k] # x
    BY <1>1, InToSet
  <2> QED
    BY <1>1, <2>1 DEF Elem, ListAssumption
<1>4. \A k \in 0 .. Len(s) : /\ l.next[Elem(s, k)] = Elem(s, k + 1)
                             /\ l.prev[Elem(s, k + 1)] = Elem(s, k)
  BY DEF IsList, Represents
<1>5. l.prev[b] = a /\ l.next[a] = b /\ a # b /\ a # x /\ b # x
  <2>1. (i - 1) + 1 = i
    BY <1>1
  <2> QED
    BY <1>1, <1>2, <1>3, <1>4, <2>1
<1>6. /\ l1.next = [[l.next EXCEPT ![x] = b] EXCEPT ![a] = x]
      /\ l1.prev = [[l.prev EXCEPT ![x] = a] EXCEPT ![b] = x]
      /\ l1 \in Links
  <2>1. a \in Nodes \cup {HeadElem, TailElem} /\ b \in Nodes \cup {HeadElem, TailElem}
    BY <1>1, <1>2
  <2> HIDE DEF a
  <2> QED
    BY <1>1, <1>5, <2>1 DEF list_insert_before, Links
<1>7. /\ s1 \in Seq(Nodes) /\ Len(s1) = Len(s) + 1 /\ DOMAIN s1 = 1 .. Len(s) + 1
      /\ \A k \in 1 .. Len(s) + 1 :
           s1[k] = IF k < i THEN s[k] ELSE IF k = i THEN x ELSE s[k - 1]
  <2>1. \A k \in 1 .. Len(s) + 1 :
          (IF k < i THEN s[k] ELSE IF k = i THEN x ELSE s[k - 1]) \in Nodes
    BY <1>1
  <2>2. s1 \in [1 .. Len(s) + 1 -> Nodes]
    BY <2>1 DEF Inserted
  <2> QED
    BY <1>1, <2>2 DEF Inserted
<1>8. \A k \in 0 .. Len(s) + 2 :
        Elem(s1, k) = IF k < i THEN Elem(s, k) ELSE IF k = i THEN x ELSE Elem(s, k - 1)
  <2> SUFFICES ASSUME NEW k \in 0 .. Len(s) + 2
               PROVE  Elem(s1, k) = IF k < i THEN Elem(s, k) ELSE IF k = i THEN x ELSE Elem(s, k - 1)
    OBVIOUS
  <2> HIDE DEF s1
  <2>1. CASE k = 0
    BY <1>1, <2>1 DEF Elem
  <2>2. CASE k = Len(s) + 2
    BY <1>1, <1>7, <2>2 DEF Elem
  <2>3. CASE k \in 1 .. Len(s) + 1
    BY <1>1, <1>7, <2>3 DEF Elem
  <2> QED
    BY <1>1, <2>1, <2>2, <2>3
<1>9. Represents(l1, s1)
  <2> SUFFICES ASSUME NEW k \in 0 .. Len(s) + 1
               PROVE  l1.next[Elem(s1, k)] = Elem(s1, k + 1) /\ l1.prev[Elem(s1, k + 1)] = Elem(s1, k)
    BY <1>7 DEF Represents
  <2> HIDE DEF s1, l1
  <2>1. l.next \in [Nodes \cup {HeadElem, TailElem} -> Nodes \cup {HeadElem, TailElem, NULL}]
        /\ l.prev \in [Nodes \cup {HeadElem, TailElem} -> Nodes \cup {HeadElem, TailElem, NULL}]
    BY <1>1 DEF Links
  <2>2. CASE k < i - 1
    <3>1. k \in 0 .. Len(s) /\ k + 1 < i /\ k < i
      BY <1>1, <2>2
    <3>2. Elem(s1, k) = Elem(s, k) /\ Elem(s1, k + 1) = Elem(s, k + 1)
      BY <1>1, <1>8, <3>1
    <3>3. Elem(s, k) # a /\ Elem(s, k) # x /\ Elem(s, k + 1) # b /\ Elem(s, k + 1) # x
      BY <1>1, <1>2, <1>3, <2>2, <3>1
    <3> HIDE DEF a, b
    <3> QED
      BY <1>1, <1>2, <1>4, <1>6, <2>1, <3>1, <3>2, <3>3
  <2>3. CASE k = i - 1
    <3>1. Elem(s1, k) = a /\ Elem(s1, k + 1) = x
      BY <1>1, <1>8, <2>3
    <3>2. a \in Nodes \cup {HeadElem, TailElem}
      BY <1>1, <1>2
    <3> HIDE DEF a, b
    <3> QED
      BY <1>5, <1>6, <2>1, <3>1, <3>2
  <2>4. CASE k = i
    <3>1. Elem(s1, k) = x /\ Elem(s1, k + 1) = b
      BY <1>1, <1>8, <2>4
    <3>2. b \in Nodes \cup {HeadElem, TailElem}
      BY <1>1, <1>2
    <3> HIDE DEF a, b
    <3> QED
      BY <1>5, <1>6, <2>1, <3>1, <3>2
  <2>5. CASE k > i
    <3>1. k - 1 \in 0 .. Len(s) /\ (k - 1) + 1 = k /\ k \in 0 .. Len(s) + 1 /\ k - 1 >= i
      BY <1>1, <2>5
    <3>2. Elem(s1, k) = Elem(s, k - 1) /\ Elem(s1, k + 1) = Elem(s, k)
      BY <1>1, <1>8, <2>5, <3>1
    <3>3. Elem(s, k - 1) # a /\ Elem(s, k - 1) # x /\ Elem(s, k) # b /\ Elem(s, k) # x
      BY <1>1, <1>2, <1>3, <2>5, <3>1
    <3>4. l.next[Elem(s, k - 1)] = Elem(s, k) /\ l.prev[Elem(s, k)] = Elem(s, k - 1)
      BY <1>4, <3>1
    <3>5. Elem(s, k - 1) \in Nodes \cup {HeadElem, TailElem} /\ Elem(s, k) \in Nodes \cup {HeadElem, TailElem}
      BY <1>1, <1>2, <3>1
    <3> HIDE DEF a, b
    <3> QED
      BY <1>6, <2>1, <3>2, <3>3, <3>4, <3>5
  <2> QED
    BY <1>1, <2>2, <2>3, <2>4, <2>5
<1>10. Distinct(s1)
  <2> SUFFICES ASSUME NEW k \in 1 .. Len(s) + 1, NEW m \in 1 .. Len(s) + 1, s1[k] = s1[m]
               PROVE  k = m
    BY <1>7 DEF Distinct
  <2>1. \A q \in 1 .. Len(s) : s[q] # x
    BY <1>1, InToSet
  <2>2. \A p, q \in 1 .. Len(s) : s[p] = s[q] => p = q
    BY <1>1 DEF Distinct
  <2> HIDE DEF s1
  <2>3. \A n \in 1 .. Len(s) + 1 : n # i => s1[n] # x
    <3> SUFFICES ASSUME NEW n \in 1 .. Len(s) + 1, n # i PROVE s1[n] # x
      OBVIOUS
    <3>1. CASE n < i
      <4>1. n \in 1 .. Len(s) /\ s1[n] = s[n]
        BY <1>1, <1>7, <3>1
      <4> QED
        BY <2>1, <4>1
    <3>2. CASE n > i
      <4>1. n - 1 \in 1 .. Len(s) /\ s1[n] = s[n - 1]
        BY <1>1, <1>7, <3>2
      <4> QED
        BY <2>1, <4>1
    <3> QED
      BY <1>1, <3>1, <3>2
  <2>5. CASE k = i \/ m = i
    BY <1>7, <2>3, <2>5
  <2>4. CASE k # i /\ m # i
    <3> DEFINE p == IF k < i THEN k ELSE k - 1
               q == IF m < i THEN m ELSE m - 1
    <3>1. p \in 1 .. Len(s) /\ q \in 1 .. Len(s) /\ s1[k] = s[p] /\ s1[m] = s[q]
      BY <1>1, <1>7, <2>4
    <3>2. p = q
      BY <2>2, <3>1
    <3> QED
      BY <1>1, <2>4, <3>2
  <2> QED
    BY <2>4, <2>5
<1>11. ASSUME NEW n \in Nodes, n # x, n \notin ToSet(s)
       PROVE  l1.next[n] = l.next[n] /\ l1.prev[n] = l.prev[n]
  <2>1. n # a /\ n # b
    <3>1. \A k \in 1 .. Len(s) : s[k] # n
      BY <1>1, <1>11, InToSet
    <3> QED
      BY <1>1, <3>1 DEF Elem, ListAssumption
  <2> HIDE DEF a, b, l1
  <2> QED
    BY <1>1, <1>6, <1>11, <2>1 DEF Links
<1> QED
  BY <1>6, <1>7, <1>9, <1>10, <1>11 DEF IsList

(* list_append is Append.                                                  *)
THEOREM AppendRepresents ==
  ASSUME ListAssumption, NEW l, NEW s, IsList(l, s), NEW x \in Nodes, x \notin ToSet(s)
  PROVE  IsList(list_append(l, x), Append(s, x))
<1>1. s \in Seq(Nodes) /\ Len(s) \in Nat
  BY DEF IsList
<1>2. Elem(s, Len(s) + 1) = TailElem
  BY <1>1 DEF Elem
<1>3. Inserted(s, Len(s) + 1, x) = Append(s, x)
  <2> DEFINE a == Append(s, x)
  <2>1. Len(a) = Len(s) + 1 /\ a \in Seq(Nodes) /\ a[Len(s) + 1] = x
        /\ \A j \in 1 .. Len(s) : a[j] = s[j]
    BY <1>1
  <2>2. \A j \in 1 .. Len(s) + 1 :
          a[j] = IF j < Len(s) + 1 THEN s[j] ELSE IF j = Len(s) + 1 THEN x ELSE s[j - 1]
    BY <1>1, <2>1
  <2> HIDE DEF a
  <2>3. a = [j \in 1 .. Len(s) + 1 |-> a[j]]
    BY <1>1, <2>1
  <2>4. Inserted(s, Len(s) + 1, x) = a
    BY <2>2, <2>3 DEF Inserted
  <2> QED
    BY <2>4 DEF a
<1>4. Len(s) + 1 \in 1 .. Len(s) + 1
  BY <1>1
<1>5. IsList(list_insert_before(l, Elem(s, Len(s) + 1), x), Inserted(s, Len(s) + 1, x))
  BY <1>4, InsertRepresents
<1> QED
  BY <1>2, <1>3, <1>5 DEF list_append

(* list_push puts the element in front.                                    *)
THEOREM PushRepresents ==
  ASSUME ListAssumption, NEW l, NEW s, IsList(l, s), NEW x \in Nodes, x \notin ToSet(s)
  PROVE  IsList(list_push(l, x), <<x>> \o s)
<1>1. s \in Seq(Nodes) /\ Len(s) \in Nat
  BY DEF IsList
<1>2. Elem(s, 1) = l.next[HeadElem]
  <2>1. 0 \in 0 .. Len(s) /\ Elem(s, 0) = HeadElem /\ 0 + 1 = 1
    BY <1>1 DEF Elem
  <2> QED
    BY <2>1 DEF IsList, Represents
<1>3. Inserted(s, 1, x) = <<x>> \o s
  <2> DEFINE a == <<x>> \o s
  <2>1. Len(a) = Len(s) + 1 /\ a \in Seq(Nodes) /\ a[1] = x
        /\ \A j \in 1 .. Len(s) : a[j + 1] = s[j]
    BY <1>1
  <2>2. \A j \in 1 .. Len(s) + 1 : a[j] = IF j < 1 THEN s[j] ELSE IF j = 1 THEN x ELSE s[j - 1]
    BY <1>1, <2>1
  <2> HIDE DEF a
  <2>3. a = [j \in 1 .. Len(s) + 1 |-> a[j]]
    BY <1>1, <2>1
  <2>4. Inserted(s, 1, x) = a
    BY <2>2, <2>3 DEF Inserted
  <2> QED
    BY <2>4 DEF a
<1>4. IsList(list_insert_before(l, Elem(s, 1), x), Inserted(s, 1, x))
  <2>1. 1 \in 1 .. Len(s) + 1
    BY <1>1
  <2> QED
    BY <2>1, InsertRepresents
<1> QED
  BY <1>2, <1>3, <1>4 DEF list_push

(* list_remove takes out the i-th element and leaves its pointers alone.   *)
THEOREM RemoveRepresents ==
  ASSUME ListAssumption, NEW l, NEW s, IsList(l, s), NEW i \in 1 .. Len(s)
  PROVE  LET l1 == list_remove(l, s[i]) IN
         /\ IsList(l1, Removed(s, i))
         /\ \A n \in Nodes : n = s[i] \/ n \notin ToSet(s) =>
              l1.next[n] = l.next[n] /\ l1.prev[n] = l.prev[n]
<1> DEFINE l1 == list_remove(l, s[i])
           s1 == Removed(s, i)
           a == Elem(s, i - 1)
           b == Elem(s, i + 1)
<1>1. /\ l \in Links /\ s \in Seq(Nodes) /\ Distinct(s) /\ Len(s) \in Nat /\ i \in Nat
      /\ i - 1 \in 0 .. Len(s) /\ i \in 0 .. Len(s) /\ i + 1 \in 0 .. Len(s) + 1
      /\ i - 1 \in 0 .. Len(s) + 1 /\ i \in 0 .. Len(s) + 1
  BY DEF IsList
<1>2. /\ \A k \in 0 .. Len(s) + 1 : Elem(s, k) \in Nodes \cup {HeadElem, TailElem}
      /\ \A k \in 1 .. Len(s) : Elem(s, k) = s[k] /\ s[k] \in Nodes
      /\ \A k, m \in 0 .. Len(s) + 1 : Elem(s, k) = Elem(s, m) => k = m
  BY <1>1, ElemsDiffer
<1>3. \A k \in 0 .. Len(s) : /\ l.next[Elem(s, k)] = Elem(s, k + 1)
                             /\ l.prev[Elem(s, k + 1)] = Elem(s, k)
  BY DEF IsList, Represents
<1>4. l.prev[s[i]] = a /\ l.next[s[i]] = b /\ a # b /\ a # s[i] /\ b # s[i]
  <2>1. (i - 1) + 1 = i /\ Elem(s, i) = s[i]
    BY <1>1, <1>2
  <2>2. l.prev[Elem(s, i)] = a
    BY <1>1, <1>3, <2>1
  <2>3. l.next[Elem(s, i)] = b
    BY <1>1, <1>3
  <2>4. a # b /\ a # Elem(s, i) /\ b # Elem(s, i)
    BY <1>1, <1>2
  <2> QED
    BY <2>1, <2>2, <2>3, <2>4
<1>5. /\ l1.next = [l.next EXCEPT ![a] = b] /\ l1.prev = [l.prev EXCEPT ![b] = a]
      /\ l1 \in Links /\ s[i] \in Nodes
      /\ a \in Nodes \cup {HeadElem, TailElem} /\ b \in Nodes \cup {HeadElem, TailElem}
      /\ l.next \in [Nodes \cup {HeadElem, TailElem} -> Nodes \cup {HeadElem, TailElem, NULL}]
      /\ l.prev \in [Nodes \cup {HeadElem, TailElem} -> Nodes \cup {HeadElem, TailElem, NULL}]
  <2>1. /\ a \in Nodes \cup {HeadElem, TailElem} /\ b \in Nodes \cup {HeadElem, TailElem}
        /\ s[i] \in Nodes
    BY <1>1, <1>2
  <2> HIDE DEF a, b
  <2> QED
    BY <1>1, <1>4, <2>1 DEF list_remove, Links
<1>6. /\ s1 \in Seq(Nodes) /\ Len(s1) = Len(s) - 1 /\ DOMAIN s1 = 1 .. Len(s) - 1
      /\ Len(s) - 1 \in Nat
      /\ \A k \in 1 .. Len(s) - 1 : s1[k] = IF k < i THEN s[k] ELSE s[k + 1]
  <2>1. \A k \in 1 .. Len(s) - 1 : (IF k < i THEN s[k] ELSE s[k + 1]) \in Nodes
    BY <1>1
  <2>2. s1 \in [1 .. Len(s) - 1 -> Nodes] /\ Len(s) - 1 \in Nat
    BY <1>1, <2>1 DEF Removed
  <2> QED
    BY <1>1, <2>2 DEF Removed
<1>7. \A k \in 0 .. Len(s) : Elem(s1, k) = IF k < i THEN Elem(s, k) ELSE Elem(s, k + 1)
  <2> SUFFICES ASSUME NEW k \in 0 .. Len(s)
               PROVE  Elem(s1, k) = IF k < i THEN Elem(s, k) ELSE Elem(s, k + 1)
    OBVIOUS
  <2> HIDE DEF s1
  <2>1. CASE k = 0
    BY <1>1, <2>1 DEF Elem
  <2>2. CASE k = Len(s)
    BY <1>1, <1>6, <2>2 DEF Elem
  <2>3. CASE k \in 1 .. Len(s) - 1
    BY <1>1, <1>6, <2>3 DEF Elem
  <2> QED
    BY <1>1, <2>1, <2>2, <2>3
<1>8. Represents(l1, s1)
  <2> SUFFICES ASSUME NEW k \in 0 .. Len(s) - 1
               PROVE  l1.next[Elem(s1, k)] = Elem(s1, k + 1) /\ l1.prev[Elem(s1, k + 1)] = Elem(s1, k)
    BY <1>6 DEF Represents
  <2> HIDE DEF s1, l1
  <2>1. CASE k < i - 1
    <3>1. k \in 0 .. Len(s) /\ k + 1 \in 0 .. Len(s) /\ k + 1 < i /\ k < i
      BY <1>1, <2>1
    <3>2. Elem(s1, k) = Elem(s, k) /\ Elem(s1, k + 1) = Elem(s, k + 1)
      BY <1>7, <3>1
    <3>3. Elem(s, k) # a /\ Elem(s, k + 1) # b
      BY <1>1, <1>2, <2>1, <3>1
    <3>4. Elem(s, k) \in Nodes \cup {HeadElem, TailElem} /\ Elem(s, k + 1) \in Nodes \cup {HeadElem, TailElem}
      BY <1>1, <1>2, <3>1
    <3> HIDE DEF a, b
    <3> QED
      BY <1>3, <1>5, <3>1, <3>2, <3>3, <3>4
  <2>2. CASE k = i - 1
    <3>1. Elem(s1, k) = a /\ Elem(s1, k + 1) = b
      <4>1. k \in 0 .. Len(s) /\ k + 1 \in 0 .. Len(s) /\ k < i /\ ~(k + 1 < i) /\ k + 1 = i
        BY <1>1, <2>2
      <4> QED
        BY <1>7, <2>2, <4>1
    <3> HIDE DEF a, b
    <3> QED
      BY <1>5, <3>1
  <2>3. CASE k >= i
    <3>1. k + 1 \in 0 .. Len(s) /\ (k + 1) + 1 \in 0 .. Len(s) + 1 /\ ~(k < i) /\ ~(k + 1 < i)
          /\ k \in 0 .. Len(s) /\ k + 1 \in 0 .. Len(s) + 1
      BY <1>1, <2>3
    <3>2. Elem(s1, k) = Elem(s, k + 1) /\ Elem(s1, k + 1) = Elem(s, (k + 1) + 1)
      BY <1>7, <3>1
    <3>3. Elem(s, k + 1) # a /\ Elem(s, (k + 1) + 1) # b
      BY <1>1, <1>2, <2>3, <3>1
    <3>4. l.next[Elem(s, k + 1)] = Elem(s, (k + 1) + 1) /\ l.prev[Elem(s, (k + 1) + 1)] = Elem(s, k + 1)
      BY <1>3, <3>1
    <3>5. /\ Elem(s, k + 1) \in Nodes \cup {HeadElem, TailElem}
          /\ Elem(s, (k + 1) + 1) \in Nodes \cup {HeadElem, TailElem}
      BY <1>1, <1>2, <3>1
    <3> HIDE DEF a, b
    <3> QED
      BY <1>5, <3>2, <3>3, <3>4, <3>5
  <2> QED
    BY <1>1, <2>1, <2>2, <2>3
<1>9. Distinct(s1)
  <2> SUFFICES ASSUME NEW k \in 1 .. Len(s) - 1, NEW m \in 1 .. Len(s) - 1, s1[k] = s1[m]
               PROVE  k = m
    BY <1>6 DEF Distinct
  <2>1. \A p, q \in 1 .. Len(s) : s[p] = s[q] => p = q
    BY <1>1 DEF Distinct
  <2> HIDE DEF s1
  <2> DEFINE p == IF k < i THEN k ELSE k + 1
             q == IF m < i THEN m ELSE m + 1
  <2>2. p \in 1 .. Len(s) /\ q \in 1 .. Len(s) /\ s1[k] = s[p] /\ s1[m] = s[q]
    BY <1>1, <1>6
  <2>3. p = q
    BY <2>1, <2>2
  <2> QED
    BY <1>1, <2>3
<1>10. ASSUME NEW n \in Nodes, n = s[i] \/ n \notin ToSet(s)
       PROVE  l1.next[n] = l.next[n] /\ l1.prev[n] = l.prev[n]
  <2>1. n # a /\ n # b
    <3>1. CASE n = s[i]
      BY <1>4, <3>1
    <3>2. CASE n \notin ToSet(s)
      <4>1. \A k \in 1 .. Len(s) : s[k] # n
        BY <1>1, <3>2, InToSet
      <4> QED
        BY <1>1, <4>1 DEF Elem, ListAssumption
    <3> QED
      BY <1>10, <3>1, <3>2
  <2> HIDE DEF a, b, l1
  <2> QED
    BY <1>5, <2>1
<1> QED
  BY <1>5, <1>6, <1>8, <1>9, <1>10 DEF IsList

(* list_pop returns the head and leaves the tail.                          *)
THEOREM PopRepresents ==
  ASSUME ListAssumption, NEW l, NEW s, IsList(l, s), ~list_empty(l)
  PROVE  s # <<>> /\ l.next[HeadElem] = Head(s) /\ IsList(list_pop(l), Tail(s))
<1>1. s \in Seq(Nodes) /\ Len(s) \in Nat
  BY DEF IsList
<1>2. l.next[HeadElem] = Elem(s, 1)
  <2>1. 0 \in 0 .. Len(s) /\ Elem(s, 0) = HeadElem /\ 0 + 1 = 1
    BY <1>1 DEF Elem
  <2> QED
    BY <2>1 DEF IsList, Represents
<1>3. s # <<>> /\ Len(s) >= 1
  <2>1. CASE s = <<>>
    BY <1>2, <2>1 DEF Elem, list_empty
  <2> QED
    BY <1>1, <2>1
<1>4. 1 \in 1 .. Len(s) /\ Elem(s, 1) = s[1] /\ Head(s) = s[1]
  BY <1>1, <1>3 DEF Elem
<1>5. Removed(s, 1) = Tail(s)
  <2> DEFINE a == Tail(s)
  <2>1. Len(a) = Len(s) - 1 /\ a \in Seq(Nodes) /\ Len(a) \in Nat
        /\ \A j \in 1 .. Len(s) - 1 : a[j] = s[j + 1]
    BY <1>1, <1>3
  <2>2. \A j \in 1 .. Len(s) - 1 : a[j] = IF j < 1 THEN s[j] ELSE s[j + 1]
    BY <2>1
  <2> HIDE DEF a
  <2>3. a = [j \in 1 .. Len(s) - 1 |-> a[j]]
    BY <2>1
  <2>4. Removed(s, 1) = a
    BY <2>2, <2>3 DEF Removed
  <2> QED
    BY <2>4 DEF a
<1>6. IsList(list_remove(l, s[1]), Removed(s, 1))
  BY <1>4, RemoveRepresents
<1> QED
  BY <1>2, <1>3, <1>4, <1>5, <1>6 DEF list_pop
=============================================================================
