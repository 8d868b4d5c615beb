---------------------------- MODULE DriverProofs ----------------------------
(***************************************************************************)
(* The drivers of device/.  First the calls of ide.c on one channel, for   *)
(* any disks, sectors and requests, any callers, any preemption and a      *)
(* drive of any speed.  Then the handler of keyboard.c, for any keyboard:  *)
(* its five flags are followed along the bytes that are still on the wire, *)
(* and the last of these sets of flags is what the keys say.               *)
(***************************************************************************)
EXTENDS Ide, Keyboard, SyncLemmas

(* The stages in which a call has the channel, and those of them from      *)
(* expecting_intr to the end of the wait for disk_done.                    *)
Mid  == {"command", "poll", "transfer", "down", "wait"}
Held == {"sector", "expect", "release"} \cup Mid
Stages == {"free", "select"} \cup Held

Cmd(r) == [dev |-> r.dev, lba |-> r.lba, cnt |-> r.cnt]

CallTypes ==
  /\ stage \in [Threads -> Stages]
  /\ req \in [Threads -> Requests \cup {None}] /\ buf = [t \in Threads |-> buf[t]]
  /\ disk \in [Sectors -> Contents]
  /\ drive = [st |-> drive.st, op |-> drive.op, cmd |-> drive.cmd]
  /\ drive.st \in {"idle", "busy", "drq"}
  /\ expecting \in BOOLEAN /\ irq \in BOOLEAN
  /\ \A t \in Threads : stage[t] # "free" => t \in Callers /\ req[t] \in Requests

(* Where a thread is in lock_acquire and lock_release at each stage of its *)
(* call: channel->lock is held from the selection of the disk on.          *)
Places ==
  \A t \in Threads :
    /\ stage[t] = "free" => pc[t] \in IdlePC \cup {"out", "zero", "up"}
    /\ stage[t] = "select" => /\ pc[t] \in {"out", "down", "test", "own", "count"}
                              /\ pc[t] = "out" => holder[CLock] = t
    /\ stage[t] \in Held => pc[t] = "out" /\ holder[CLock] = t
    /\ holder[CLock] = t => \/ stage[t] \in Held
                            \/ stage[t] = "select" /\ pc[t] \in {"out", "count"}

(* Nobody takes channel->lock twice.                                       *)
Single == repeat[CLock] \in {0, 1}

(* What a call has moved: all it was asked for, and not before the drive   *)
(* has done its part.                                                      *)
Bufs ==
  \A t \in Threads :
    IF \/ stage[t] = "release"
       \/ stage[t] \in {"down", "wait"} /\ IsWrite(req[t])
    THEN buf[t] \in [Span(req[t]) -> Contents] ELSE buf[t] = None

(* The channel between two commands.  A request may be left over.          *)
Rest == ~expecting /\ done = 0 /\ dwaiters = <<>> /\ drive.st = "idle"

(* The interrupt is still to come, or disk_done has counted it.            *)
Answer(t) ==
  \/ /\ expecting /\ done = 0
     /\ irq = (IsWrite(req[t]) \/ drive.st = "drq")
  \/ /\ ~expecting /\ done = 1 /\ ~irq /\ dwaiters = <<>>
     /\ ~IsWrite(req[t]) => drive.st = "drq"

(* The channel and the drive at each stage of the call that has them.      *)
Doing(t) == LET w == IsWrite(req[t]) IN
  /\ stage[t] \in {"expect", "command"} => reg = Cmd(req[t])
  /\ stage[t] \in Mid \ {"command"} =>
       drive.op = (IF w THEN "write" ELSE "read") /\ drive.cmd = Cmd(req[t])
  /\ stage[t] = "command" =>
       /\ expecting /\ done = 0 /\ dwaiters = <<>> /\ drive.st = "idle"
       /\ irq => cur = t /\ ~intr
  /\ stage[t] \in {"poll", "transfer"} =>
       /\ expecting = w /\ done = 0 /\ dwaiters = <<>> /\ ~irq
       /\ drive.st = "drq" \/ (w /\ stage[t] = "poll" /\ drive.st = "busy")
  /\ stage[t] \in {"down", "wait"} =>
       /\ Answer(t)
       /\ IF w THEN drive.st = "idle" ELSE drive.st \in {"busy", "drq"}
  /\ stage[t] = "down" => dwaiters = <<>>
  /\ stage[t] = "wait" =>
       dwaiters = IF status[t] = "BLOCKED" THEN <<t>> ELSE <<>>

Device ==
  /\ (\A t \in Threads : stage[t] \notin Mid) => Rest
  /\ \A t \in Threads : Doing(t)

LInv == LockInv /\ WaitInv
IInv == LInv /\ CallTypes /\ Places /\ Single /\ Bufs /\ Device

-----------------------------------------------------------------------------

LEMMA Sets ==
  /\ CLock \in Locks /\ Locks = {CLock} /\ Callers \subseteq Threads \ {Idle} /\ Null \notin Threads
  /\ None \notin Contents /\ Blank \in Contents
  /\ \A r \in Requests : /\ Span(r) \subseteq Sectors /\ r.data \in Contents \cup {None}
                         /\ r = [dev |-> r.dev, lba |-> r.lba, cnt |-> r.cnt, data |-> r.data]
BY IdeAssumption, SyncAssumption DEF Span

(* What the invariant says of the state, for the leaves below.             *)
LEMMA Facts ==
  ASSUME IInv
  PROVE  /\ Typed /\ SyncTypes /\ LockInv /\ WaitInv /\ LockSound(CLock)
         /\ cur \in Threads /\ status[cur] = "RUNNING" /\ ~panicked
         /\ status \in [Threads -> Status] /\ saved \in [Threads -> BOOLEAN]
         /\ \A t \in Threads : pc[t] \in IdlePC <=> t = Idle
<1>1. LockInv /\ WaitInv /\ SyncTypes /\ Typed /\ LockSound(CLock)
  BY TypeFacts, Sets DEF IInv, LInv, LockInv
<1>2. /\ cur \in Threads /\ status[cur] = "RUNNING" /\ ~panicked
      /\ status \in [Threads -> Status] /\ saved \in [Threads -> BOOLEAN]
      /\ \A t \in Threads : pc[t] \in IdlePC <=> t = Idle
  BY <1>1 DEF WaitInv, RunSound, RunQueue, SyncTypes, ThreadTypeOK
<1> QED
  BY <1>1, <1>2

(* The channel is one call's.                                              *)
LEMMA OneCall ==
  ASSUME IInv, NEW t \in Threads, stage[t] \in Held \/ holder[CLock] = t
  PROVE  \A u \in Threads \ {t} : stage[u] \in {"free", "select"} /\ stage[u] \notin Mid
<1> SUFFICES ASSUME NEW u \in Threads \ {t} PROVE stage[u] \in {"free", "select"}
  BY DEF Mid
<1>1. holder[CLock] = t
  BY DEF IInv, Places
<1>2. stage[u] \notin Held
  BY <1>1 DEF IInv, Places
<1> QED
  BY <1>2 DEF IInv, CallTypes, Stages

LEMMA InitSound == Init => IInv
<1> USE ThreadAssumption, SyncAssumption, Sets
<1> SUFFICES ASSUME Init PROVE IInv
  OBVIOUS
<1>1. LInv
  BY SystemUpSound DEF Init, LInv
<1>2. CallTypes
  BY DEF Init, CallTypes, Stages
<1>3. Places /\ Single /\ Bufs
  BY DEF Init, SystemUp, SyncInit, Places, Single, Bufs, Held, Mid, IdlePC
<1>4. Device
  BY DEF Init, Device, Rest, Doing, Mid
<1> QED
  BY <1>1, <1>2, <1>3, <1>4 DEF IInv

-----------------------------------------------------------------------------

(* A step of t with the channel: nobody else is at a stage of its own.     *)
LEMMA HolderKeeps ==
  ASSUME IInv, LInv', UNCHANGED <<pc, holder, repeat, req>>, NEW t \in Threads, stage[t] \in Held \cup {"select"},
         holder[CLock] = t, pc[t] = "out", NEW s \in Held, stage' = [stage EXCEPT ![t] = s],
         drive' = [st |-> drive'.st, op |-> drive'.op, cmd |-> drive'.cmd],
         drive'.st \in {"idle", "busy", "drq"}, expecting' \in BOOLEAN, irq' \in BOOLEAN,
         disk' \in [Sectors -> Contents], buf' = [u \in Threads |-> buf'[u]],
         \A u \in Threads \ {t} : buf'[u] = buf[u],
         IF s = "release" \/ (s \in {"down", "wait"} /\ IsWrite(req[t]))
         THEN buf'[t] \in [Span(req[t]) -> Contents] ELSE buf'[t] = None,
         s \notin Mid => Rest', Doing(t)'
  PROVE  IInv'
<1>1. \A u \in Threads \ {t} : stage'[u] = stage[u] /\ stage[u] \in {"free", "select"}
  BY OneCall DEF IInv, CallTypes
<1>2. stage'[t] = s /\ stage' \in [Threads -> Stages]
  BY DEF IInv, CallTypes, Stages
<1>3. CallTypes'
  BY <1>1, <1>2 DEF IInv, CallTypes, Held, Mid
<1>4. Places' /\ Single'
  BY <1>1, <1>2 DEF IInv, Places, Single, Held, Mid
<1>5. Bufs'
  BY <1>1, <1>2 DEF IInv, Bufs
<1>6. Device'
  <2>1. \A u \in Threads \ {t} : Doing(u)'
    BY <1>1 DEF Doing, Mid
  <2>2. (\A u \in Threads : stage'[u] \notin Mid) => Rest'
    BY <1>2
  <2> QED
    BY <2>1, <2>2 DEF Device
<1> QED
  BY <1>3, <1>4, <1>5, <1>6 DEF IInv

(* What a caller that takes a step with the channel knows.                 *)
LEMMA CallerFacts ==
  ASSUME IInv, NEW s, NEW next, From(s, next)
  PROVE  /\ cur \in Callers /\ cur \in Threads \ {Idle} /\ ~panicked /\ pc[cur] = "out"
         /\ stage[cur] = s /\ stage' = [stage EXCEPT ![cur] = next] /\ ~(intr /\ irq)
         /\ s \in Held \cup {"select"} => holder[CLock] = cur /\ req[cur] \in Requests
         /\ s \in Mid => Doing(cur)
         /\ s \in {"select", "sector", "expect", "release"} => Rest /\ Doing(cur)
         /\ status[cur] = "RUNNING"
<1>1. /\ cur \in Callers /\ cur \in Threads \ {Idle} /\ ~panicked /\ pc[cur] = "out"
      /\ stage[cur] = s /\ stage' = [stage EXCEPT ![cur] = next] /\ ~(intr /\ irq)
      /\ status[cur] = "RUNNING"
  BY Facts, Sets DEF From, At
<1>2. s \in Held \cup {"select"} => holder[CLock] = cur /\ req[cur] \in Requests
  BY <1>1 DEF IInv, Places, CallTypes, Held, Mid
<1>3. Doing(cur)
  BY <1>1 DEF IInv, Device
<1>4. ASSUME s \in {"select", "sector", "expect", "release"} PROVE Rest
  <2>1. \A u \in Threads \ {cur} : stage[u] \notin Mid
    BY <1>1, <1>2, <1>4, OneCall DEF Held
  <2>2. stage[cur] \notin Mid
    BY <1>1, <1>4 DEF Mid
  <2> QED
    BY <2>1, <2>2 DEF IInv, Device
<1> QED
  BY <1>1, <1>2, <1>3, <1>4

-----------------------------------------------------------------------------

(* select_disk, select_sector and cmd_out, which touch only the channel.   *)
LEMMA CommandKeeps ==
  ASSUME IInv, select_disk \/ select_sector \/ expect \/ cmd_out
  PROVE  IInv'
<1>0. PICK t \in Threads : t = cur
  BY Facts
<1> USE DEF Held, Mid
<1>1. UNCHANGED <<tvars, pc, svars, req, buf, done, dwaiters, disk>>
  BY DEF select_disk, select_sector, expect, cmd_out
<1>2. UNCHANGED <<holder, repeat>>
  BY <1>1 DEF svars
<1>3. LInv'
  <2>1. UNCHANGED <<svars, pc, cur, status, ready, slice, saved, panicked, intr>>
    BY <1>1 DEF tvars
  <2>2. intr' \in BOOLEAN
    BY <2>1, Facts DEF Typed
  <2> QED
    BY <2>1, <2>2, LocalKeepsAll DEF IInv, LInv
<1>4. UNCHANGED <<cur, intr, status>>
  BY <1>1 DEF tvars
<1>5. CASE select_disk
  <2>1. From("select", "sector") /\ UNCHANGED <<expecting, drive, irq>>
    BY <1>5 DEF select_disk
  <2>2. t = cur /\ stage[t] = "select" /\ holder[CLock] = t /\ pc[t] = "out" /\ Rest
        /\ stage' = [stage EXCEPT ![t] = "sector"]
    BY <1>0, <2>1, CallerFacts
  <2>3. buf[t] = None
    BY <2>2 DEF IInv, Bufs
  <2>4. Rest' /\ Doing(t)'
    BY <1>1, <1>4, <2>1, <2>2 DEF Rest, Doing, IInv, CallTypes
  <2> QED
    BY <1>1, <1>2, <1>3, <2>1, <2>2, <2>3, <2>4, HolderKeeps DEF IInv, CallTypes
<1>6. CASE select_sector
  <2>1. From("sector", "expect") /\ reg' = Cmd(req[t]) /\ UNCHANGED <<expecting, drive, irq>>
    BY <1>0, <1>6 DEF select_sector, Cmd
  <2>2. t = cur /\ stage[t] = "sector" /\ holder[CLock] = t /\ pc[t] = "out" /\ Rest
        /\ stage' = [stage EXCEPT ![t] = "expect"]
    BY <1>0, <2>1, CallerFacts
  <2>3. buf[t] = None
    BY <2>2 DEF IInv, Bufs
  <2>4. Rest' /\ Doing(t)'
    BY <1>1, <1>4, <2>1, <2>2 DEF Rest, Doing, IInv, CallTypes
  <2> QED
    BY <1>1, <1>2, <1>3, <2>1, <2>2, <2>3, <2>4, HolderKeeps DEF IInv, CallTypes
<1>7. CASE expect
  <2>1. From("expect", "command") /\ expecting' = TRUE /\ UNCHANGED <<reg, drive, irq>>
    BY <1>7 DEF expect
  <2>2. t = cur /\ stage[t] = "expect" /\ holder[CLock] = t /\ pc[t] = "out" /\ Rest
        /\ Doing(t) /\ stage' = [stage EXCEPT ![t] = "command"] /\ ~(intr /\ irq)
    BY <1>0, <2>1, CallerFacts
  <2>3. buf[t] = None
    BY <2>2 DEF IInv, Bufs
  <2>4. Doing(t)'
    BY <1>1, <1>4, <2>1, <2>2 DEF Rest, Doing, IInv, CallTypes
  <2> QED
    BY <1>1, <1>2, <1>3, <2>1, <2>2, <2>3, <2>4, HolderKeeps DEF IInv, CallTypes
<1>8. CASE cmd_out
  <2> DEFINE w == IsWrite(req[t])
             next == IF w THEN "poll" ELSE "down"
  <2>1. /\ From("command", next) /\ irq' = FALSE /\ UNCHANGED <<expecting, reg>>
        /\ drive' = [st |-> IF w /\ ~Slow THEN "drq" ELSE "busy",
                     op |-> IF w THEN "write" ELSE "read", cmd |-> reg]
    BY <1>0, <1>8 DEF cmd_out
  <2>2. t = cur /\ stage[t] = "command" /\ holder[CLock] = t /\ pc[t] = "out"
        /\ Doing(t) /\ stage' = [stage EXCEPT ![t] = next]
    BY <1>0, <2>1, CallerFacts
  <2>3. buf[t] = None
    BY <2>2 DEF IInv, Bufs
  <2>4. /\ drive' = [st |-> drive'.st, op |-> drive'.op, cmd |-> drive'.cmd]
        /\ drive'.st = (IF w /\ ~Slow THEN "drq" ELSE "busy") /\ drive'.cmd = Cmd(req[t])
        /\ drive'.op = IF w THEN "write" ELSE "read"
    BY <2>1, <2>2 DEF Doing
  <2>5. expecting /\ done = 0 /\ dwaiters = <<>>
    BY <2>2 DEF Doing
  <2>6. Doing(t)'
    BY <1>1, <1>4, <2>1, <2>2, <2>4, <2>5 DEF Doing, Answer, IInv, CallTypes
  <2>7. next \in Held /\ IF w THEN next = "poll" ELSE next = "down"
    OBVIOUS
  <2> HIDE DEF next
  <2> QED
    BY <1>1, <1>2, <1>3, <2>1, <2>2, <2>3, <2>4, <2>5, <2>6, <2>7, HolderKeeps DEF IInv, CallTypes
<1> QED
  BY <1>5, <1>6, <1>7, <1>8

(* sema_down(&disk_done), before its loop.                                 *)
LEMMA DownKeeps == ASSUME IInv, down PROVE IInv'
<1>0. PICK t \in Threads : t = cur
  BY Facts
<1> USE DEF Held, Mid
<1>1. From("down", "wait") /\ intr_disable /\ old' = [old EXCEPT ![t] = intr]
      /\ UNCHANGED <<pc, value, waiters, holder, repeat, lk,
                     req, buf, expecting, done, dwaiters, reg, drive, irq, disk>>
  BY <1>0 DEF down
<1>2. t = cur /\ stage[t] = "down" /\ holder[CLock] = t /\ pc[t] = "out"
      /\ Doing(t) /\ stage' = [stage EXCEPT ![t] = "wait"] /\ status[t] = "RUNNING"
  BY <1>0, <1>1, CallerFacts
<1>3. UNCHANGED <<cur, status, ready, slice, saved, panicked>> /\ intr' = FALSE
  BY <1>1 DEF intr_disable
<1>4. SyncTypes'
  BY <1>1, <1>3, Facts DEF SyncTypes, Typed, SyncTypeOK, ThreadTypeOK
<1>5. LockInv'
  BY <1>1, <1>4, Facts DEF LockInv, LockSound, Owns
<1>6. WaitInv'
  BY <1>1, <1>3, <1>4, Facts DEF WaitInv, RunSound, RunQueue, IdleReady, Sleeps, Tests, SyncTypes
<1>7. Doing(t)'
  BY <1>1, <1>2, <1>3 DEF Doing, Answer, IInv, CallTypes
<1>8. IF IsWrite(req[t]) THEN buf[t] \in [Span(req[t]) -> Contents] ELSE buf[t] = None
  BY <1>2 DEF IInv, Bufs
<1> QED
  BY <1>1, <1>2, <1>5, <1>6, <1>7, <1>8, HolderKeeps DEF IInv, LInv, CallTypes

(* Its loop: nobody else waits for disk_done, which counts to 1 at most.   *)
LEMMA WaitKeeps == ASSUME IInv, wait PROVE IInv'
<1>0. PICK t \in Threads : t = cur
  BY Facts
<1> USE DEF Held, Mid
<1>1. UNCHANGED <<pc, svars, req, buf, expecting, reg, drive, irq, disk>>
  BY DEF wait
<1>2. UNCHANGED <<holder, repeat>>
  BY <1>1 DEF svars
<1>3. t \in Threads \ {Idle} /\ stage[t] = "wait" /\ holder[CLock] = t /\ pc[t] = "out"
      /\ Doing(t) /\ status[t] = "RUNNING"
  BY <1>0, CallerFacts DEF wait
<1>4. dwaiters = <<>> /\ Answer(t)
  BY <1>3 DEF Doing
<1>5. IF IsWrite(req[t]) THEN buf[t] \in [Span(req[t]) -> Contents] ELSE buf[t] = None
  BY <1>3 DEF IInv, Bufs
<1>6. CASE done = 0
  <2>1. From("wait", "wait") /\ thread_block("BLOCKED", elem_find(dwaiters, t))
        /\ dwaiters' = Append(dwaiters, t) /\ done' = done
    BY <1>0, <1>6 DEF wait
  <2>2. stage' = [stage EXCEPT ![t] = "wait"]
    BY <1>0, <2>1, CallerFacts
  <2>3. elem_find(dwaiters, t) = FALSE /\ dwaiters' = <<t>>
    BY <1>4, <2>1 DEF elem_find, ToSet
  <2>4. thread_block("BLOCKED", FALSE)
    BY <2>1, <2>3
  <2>5. LockInv' /\ WaitInv' /\ status'[t] = "BLOCKED"
    BY <1>0, <1>1, <1>3, <2>4, BlockKeepsAll DEF IInv, LInv, Blocked
  <2>6. Doing(t)'
    BY <1>1, <1>3, <1>6, <2>1, <2>2, <2>3, <2>5 DEF Doing, Answer, IInv, CallTypes
  <2> QED
    BY <1>1, <1>2, <1>3, <1>5, <2>1, <2>2, <2>5, <2>6, HolderKeeps DEF IInv, LInv, CallTypes
<1>7. CASE done # 0
  <2> DEFINE w == IsWrite(req[t])
             next == IF w THEN "release" ELSE "poll"
  <2>1. From("wait", next) /\ done' = done - 1 /\ panicked' = (done # 1)
        /\ intr' = old[t] /\ UNCHANGED <<cur, status, ready, slice, saved, dwaiters>>
    BY <1>0, <1>7 DEF wait
  <2>2. stage' = [stage EXCEPT ![t] = next]
    BY <1>0, <2>1, CallerFacts
  <2>3. done = 1 /\ ~expecting /\ ~irq /\ (~w => drive.st = "drq") /\ (w => drive.st = "idle")
    BY <1>3, <1>4, <1>7 DEF Answer, Doing
  <2>4. ~panicked' /\ done' = 0
    <3>1. panicked' = (done # 1) /\ done = 1
      BY <2>1, <2>3
    <3>2. ~panicked'
      BY <3>1, Zenon
    <3>3. done' = done - 1 /\ done = 1
      BY <2>1, <2>3
    <3> QED
      BY <3>2, <3>3
  <2>5. LockInv' /\ WaitInv'
    <3>1. panicked' = panicked
      BY <2>4, Facts DEF IInv, WaitInv, RunSound, ThreadTypeOK, Typed, wait, thread_block, schedule
    <3>2. intr' \in BOOLEAN
      BY <1>3, <2>1, Facts DEF Typed
    <3> QED
      BY <1>1, <2>1, <3>1, <3>2, LocalKeepsAll DEF IInv, LInv
  <2>6. next \in Held /\ IF w THEN next = "release" ELSE next = "poll"
    OBVIOUS
  <2> HIDE DEF next
  <2>7. Doing(t)' /\ (next \notin Mid => Rest')
    <3>1. /\ stage'[t] = next /\ expecting' = expecting /\ irq' = irq /\ drive' = drive
          /\ req' = req /\ dwaiters' = <<>> /\ done' = 0 /\ reg' = reg /\ expecting \in BOOLEAN
      BY <1>1, <1>3, <1>4, <2>1, <2>2, <2>4 DEF IInv, CallTypes
    <3>2. drive.op = (IF w THEN "write" ELSE "read") /\ drive.cmd = Cmd(req[t])
      BY <1>3 DEF Doing
    <3>3. CASE w
      BY <2>3, <2>6, <3>1, <3>2, <3>3 DEF Doing, Rest
    <3>4. CASE ~w
      BY <2>3, <2>6, <3>1, <3>2, <3>4 DEF Doing, Rest, IsWrite
    <3> QED
      BY <3>3, <3>4
  <2> QED
    BY <1>1, <1>2, <1>3, <1>5, <2>1, <2>2, <2>5, <2>6, <2>7, HolderKeeps DEF IInv, LInv, CallTypes
<1> QED
  BY <1>6, <1>7

-----------------------------------------------------------------------------

(* thread_yield as sync.c sees it: nobody begins or ends a wait.           *)
LEMMA YieldKeepsAll ==
  ASSUME IInv, cur # Idle, pc[cur] = "out", thread_yield, UNCHANGED <<svars, pc>>
  PROVE  LInv'
<1> DEFINE sv == [saved EXCEPT ![cur] = intr]
           failed == elem_find(ready, cur)
<1>1. RunSound /\ SyncTypes /\ Typed /\ saved \in [Threads -> BOOLEAN] /\ status[cur] = "RUNNING"
  BY Facts DEF WaitInv
<1>2. ~failed
  BY <1>1 DEF RunSound, RunQueue, ThreadTypeOK, elem_find
<1>3. sv \in [Threads -> BOOLEAN] /\ failed \in BOOLEAN
  BY <1>1 DEF Typed, elem_find
<1>4. schedule([status EXCEPT ![cur] = "READY"], sv, failed)
  BY DEF thread_yield
<1>5. "READY" \in Blocked \cup {"READY", "RUNNING"} /\ "BLOCKED" \in Blocked /\ "READY" # "BLOCKED"
  BY DEF Blocked
<1> HIDE DEF sv, failed
<1>6. /\ RunSound'
      /\ \A t \in Threads \ {Idle} : \A b \in Blocked :
           status'[t] = b <=> IF t = cur THEN "READY" = b ELSE status[t] = b
      /\ \A t \in Threads : t # cur /\ status[t] = "READY" => status'[t] \in {"READY", "RUNNING"}
  BY <1>1, <1>2, <1>3, <1>4, <1>5, SwitchSound
<1>7. \A t \in Threads : t # cur => status[t] # "RUNNING"
  BY <1>1 DEF RunSound, RunQueue
<1>8. \A t \in Threads \ {Idle} : pc[t] = "test" =>
        /\ status'[t] = "BLOCKED" <=> status[t] = "BLOCKED"
        /\ status[t] \in {"READY", "RUNNING"} => status'[t] \in {"READY", "RUNNING"}
  BY <1>1, <1>5, <1>6, <1>7
<1>9. PcElsewhere
  BY DEF PcElsewhere
<1>10. WaitInv'
  BY <1>1, <1>6, <1>8, <1>9, ElsewhereKeepsWaits, Facts
<1>11. LockInv'
  BY <1>6, <1>9, ElsewhereKeepsLocks, Facts DEF RunSound
<1> QED
  BY <1>10, <1>11 DEF LInv

(* busy_wait: a write may find the drive busy, and sleeps on it; a call    *)
(* that goes on finds data to move, so the PANIC is not reached.           *)
LEMMA BusyKeeps == ASSUME IInv, busy_wait PROVE IInv'
<1>0. PICK t \in Threads : t = cur
  BY Facts
<1> USE DEF Held, Mid
<1>1. irq' = FALSE /\ UNCHANGED <<pc, svars, req, buf, expecting, done, dwaiters, reg, drive, disk>>
  BY DEF busy_wait
<1>2. UNCHANGED <<holder, repeat>>
  BY <1>1 DEF svars
<1>3. PICK s \in {"poll", "transfer"} :
        /\ From("poll", s)
        /\ s = "poll" => drive.st = "busy" /\ (thread_yield \/ UNCHANGED tvars)
        /\ s = "transfer" => /\ drive.st # "busy" /\ panicked' = (drive.st # "drq")
                             /\ UNCHANGED <<cur, status, ready, slice, intr, saved>>
  BY DEF busy_wait
<1>4. t \in Threads \ {Idle} /\ stage[t] = "poll" /\ holder[CLock] = t /\ pc[t] = "out"
      /\ Doing(t) /\ stage' = [stage EXCEPT ![t] = s] /\ ~panicked
  BY <1>0, <1>3, CallerFacts
<1>5. buf[t] = None
  BY <1>4 DEF IInv, Bufs
<1>6. drive.st = "drq" \/ drive.st = "busy"
  BY <1>4 DEF Doing
<1>7. LInv'
  <2>1. CASE s = "poll" /\ thread_yield
    BY <1>0, <1>1, <1>4, <2>1, YieldKeepsAll
  <2>2. CASE s = "poll" /\ UNCHANGED tvars
    <3>1. UNCHANGED <<svars, pc, cur, status, ready, slice, saved, panicked>> /\ intr' = intr
      BY <1>1, <2>2 DEF tvars
    <3> QED
      BY <3>1, LocalKeepsAll, Facts DEF IInv, LInv, Typed
  <2>3. CASE s = "transfer"
    <3>1. panicked' = (drive.st # "drq") /\ drive.st = "drq"
      BY <1>3, <1>6, <2>3
    <3>2. ~panicked'
      BY <3>1, Zenon
    <3>3. panicked \in BOOLEAN /\ panicked' \in BOOLEAN
      BY <3>1, Facts DEF Typed, ThreadTypeOK
    <3>4. panicked' = panicked
      BY <1>4, <3>2, <3>3
    <3> QED
      BY <1>1, <1>3, <2>3, <3>4, LocalKeepsAll, Facts DEF IInv, LInv, Typed
  <2> QED
    BY <1>3, <2>1, <2>2, <2>3
<1>8. Doing(t)'
  <2>1. /\ stage'[t] = s /\ expecting' = expecting /\ irq' = FALSE /\ drive' = drive
        /\ req' = req /\ dwaiters' = dwaiters /\ done' = done
    BY <1>1, <1>4 DEF IInv, CallTypes
  <2>2. /\ drive.op = (IF IsWrite(req[t]) THEN "write" ELSE "read") /\ drive.cmd = Cmd(req[t])
        /\ expecting = IsWrite(req[t]) /\ done = 0 /\ dwaiters = <<>>
        /\ drive.st = "drq" \/ (IsWrite(req[t]) /\ drive.st = "busy")
    BY <1>4 DEF Doing
  <2>3. s = "poll" \/ (s = "transfer" /\ drive.st = "drq")
    BY <1>3, <1>6
  <2> QED
    BY <2>1, <2>2, <2>3 DEF Doing
<1> QED
  BY <1>1, <1>2, <1>3, <1>4, <1>5, <1>7, <1>8, HolderKeeps DEF IInv, CallTypes

(* The drive was given this call's command: what moves is what the call    *)
(* was asked for.                                                          *)
LEMMA SameSpan == ASSUME NEW r PROVE Span(Cmd(r)) = Span(r)
BY DEF Span, Cmd

(* read_from_sector and write_to_sector.                                   *)
LEMMA TransferFacts ==
  ASSUME IInv, transfer, NEW t \in Threads, t = cur
  PROVE  /\ stage[t] = "transfer" /\ holder[CLock] = t /\ pc[t] = "out" /\ t # Idle
         /\ req[t] \in Requests /\ Span(req[t]) \subseteq Sectors
         /\ stage' = [stage EXCEPT ![t] = IF IsWrite(req[t]) THEN "down" ELSE "release"]
         /\ disk' = [s \in Sectors |-> IF IsWrite(req[t]) /\ s \in Span(req[t])
                                       THEN req[t].data ELSE disk[s]]
         /\ buf' = [buf EXCEPT ![t] = [s \in Span(req[t]) |-> disk'[s]]]
         /\ disk' \in [Sectors -> Contents] /\ buf'[t] \in [Span(req[t]) -> Contents]
         /\ drive' = [st |-> "idle", op |-> drive.op, cmd |-> drive.cmd]
         /\ irq' \in BOOLEAN /\ (IsWrite(req[t]) => irq')
         /\ UNCHANGED <<tvars, pc, svars, req, expecting, done, dwaiters, reg>>
<1> DEFINE w == IsWrite(req[t])
           next == IF w THEN "down" ELSE "release"
<1>1. /\ From("transfer", next)
      /\ disk' = [s \in Sectors |-> IF drive.op = "write" /\ w /\ s \in Span(drive.cmd)
                                    THEN req[t].data ELSE disk[s]]
      /\ buf' = [buf EXCEPT ![t] = [s \in Span(drive.cmd) |-> disk'[s]]]
      /\ drive' = [drive EXCEPT !.st = "idle"]
      /\ irq' = (irq \/ w \/ drive.cmd.cnt > 1)
      /\ UNCHANGED <<tvars, pc, svars, req, expecting, done, dwaiters, reg>>
  BY DEF transfer
<1>2. /\ stage[t] = "transfer" /\ holder[CLock] = t /\ pc[t] = "out" /\ t # Idle
      /\ req[t] \in Requests /\ stage' = [stage EXCEPT ![t] = next] /\ Doing(t)
  BY <1>1, CallerFacts DEF Held, Mid
<1>3. Span(req[t]) \subseteq Sectors /\ req[t].data \in Contents \cup {None}
  BY <1>2, Sets
<1>4. drive.op = (IF w THEN "write" ELSE "read") /\ Span(drive.cmd) = Span(req[t])
  BY <1>2, SameSpan DEF Doing, Mid
<1>5. disk' = [s \in Sectors |-> IF w /\ s \in Span(req[t]) THEN req[t].data ELSE disk[s]]
  BY <1>1, <1>4
<1>6. w => req[t].data \in Contents
  BY <1>3 DEF IsWrite
<1>7. disk' \in [Sectors -> Contents]
  BY <1>5, <1>6 DEF IInv, CallTypes
<1>8. buf' = [buf EXCEPT ![t] = [s \in Span(req[t]) |-> disk'[s]]]
  BY <1>1, <1>4
<1>9. buf'[t] \in [Span(req[t]) -> Contents]
  <2>1. buf'[t] = [s \in Span(req[t]) |-> disk'[s]]
    BY <1>8 DEF IInv, CallTypes
  <2> QED
    BY <1>3, <1>7, <2>1
<1>10. drive' = [st |-> "idle", op |-> drive.op, cmd |-> drive.cmd]
  BY <1>1 DEF IInv, CallTypes
<1>11. irq' \in BOOLEAN /\ (w => irq')
  BY <1>1, Zenon
<1> QED
  BY <1>1, <1>2, <1>3, <1>5, <1>7, <1>8, <1>9, <1>10, <1>11

LEMMA TransferKeeps == ASSUME IInv, transfer PROVE IInv'
<1>0. PICK t \in Threads : t = cur
  BY Facts
<1> USE DEF Held, Mid
<1> DEFINE w == IsWrite(req[t])
           next == IF w THEN "down" ELSE "release"
<1>1. /\ stage[t] = "transfer" /\ holder[CLock] = t /\ pc[t] = "out"
      /\ stage' = [stage EXCEPT ![t] = next]
      /\ buf' = [buf EXCEPT ![t] = [s \in Span(req[t]) |-> disk'[s]]]
      /\ disk' \in [Sectors -> Contents] /\ buf'[t] \in [Span(req[t]) -> Contents]
      /\ drive' = [st |-> "idle", op |-> drive.op, cmd |-> drive.cmd]
      /\ irq' \in BOOLEAN /\ (w => irq')
      /\ UNCHANGED <<tvars, pc, svars, req, expecting, done, dwaiters, reg>>
  BY <1>0, TransferFacts
<1>2. UNCHANGED <<holder, repeat>>
  BY <1>1 DEF svars
<1>3. LInv'
  <2>1. UNCHANGED <<svars, pc, cur, status, ready, slice, saved, panicked>> /\ intr' = intr
    BY <1>1 DEF tvars
  <2> QED
    BY <2>1, LocalKeepsAll, Facts DEF IInv, LInv, Typed
<1>4. /\ drive.op = (IF w THEN "write" ELSE "read") /\ drive.cmd = Cmd(req[t])
      /\ expecting = w /\ done = 0 /\ dwaiters = <<>>
  BY <1>1 DEF IInv, Device, Doing
<1>5. UNCHANGED <<cur, status, intr>>
  BY <1>1 DEF tvars
<1>6. next \in Held /\ IF w THEN next = "down" ELSE next = "release"
  OBVIOUS
<1> HIDE DEF next
<1>7. Doing(t)' /\ (next \notin Mid => Rest')
  <2>1. /\ stage'[t] = next /\ expecting' = expecting /\ req' = req /\ dwaiters' = <<>> /\ done' = 0
        /\ drive'.st = "idle" /\ drive'.op = drive.op /\ drive'.cmd = drive.cmd
    BY <1>1, <1>4 DEF IInv, CallTypes
  <2>2. CASE w
    <3>1. irq' = TRUE /\ expecting' /\ IsWrite(req'[t]) /\ next = "down"
      BY <1>1, <1>4, <1>6, <2>1, <2>2
    <3> QED
      BY <1>4, <2>1, <2>2, <3>1 DEF Doing, Answer, IsWrite
  <2>3. CASE ~w
    <3>1. ~expecting /\ next = "release"
      BY <1>4, <1>6, <2>3
    <3> QED
      BY <2>1, <3>1 DEF Doing, Rest
  <2> QED
    BY <2>2, <2>3
<1>8. \A u \in Threads \ {t} : buf'[u] = buf[u]
  BY <1>1 DEF IInv, CallTypes
<1>9. buf' = [u \in Threads |-> buf'[u]]
  BY <1>1 DEF IInv, CallTypes
<1>10. /\ drive' = [st |-> drive'.st, op |-> drive'.op, cmd |-> drive'.cmd] /\ drive'.st = "idle"
       /\ expecting' \in BOOLEAN
  BY <1>1 DEF IInv, CallTypes
<1>11. IF next = "release" \/ (next \in {"down", "wait"} /\ IsWrite(req[t]))
       THEN buf'[t] \in [Span(req[t]) -> Contents] ELSE buf'[t] = None
  BY <1>1, <1>6
<1> QED
  BY <1>1, <1>2, <1>3, <1>6, <1>7, <1>8, <1>9, <1>10, <1>11, HolderKeeps

-----------------------------------------------------------------------------

(* Nothing happens to the calls but, in the idle loop, to where a thread   *)
(* is.                                                                     *)
CallsKept ==
  /\ UNCHANGED <<holder, repeat, stage, req, buf, disk, reg>>
  /\ \A t \in Threads : pc'[t] = pc[t] \/ (pc[t] \in IdlePC /\ pc'[t] \in IdlePC)

LEMMA FrameKeeps ==
  ASSUME IInv, LInv', CallsKept, Device', expecting' \in BOOLEAN, irq' \in BOOLEAN,
         drive' = [st |-> drive'.st, op |-> drive'.op, cmd |-> drive'.cmd],
         drive'.st \in {"idle", "busy", "drq"}
  PROVE  IInv'
<1>1. CallTypes' /\ Single' /\ Bufs'
  BY DEF IInv, CallTypes, Single, Bufs, CallsKept
<1>2. Places'
  BY DEF IInv, Places, CallsKept, IdlePC, Held, Mid
<1> QED
  BY <1>1, <1>2 DEF IInv

LEMMA ElsewhereCalls ==
  ASSUME IInv, PcElsewhere, UNCHANGED <<svars, stage, req, buf, disk, reg>>
  PROVE  CallsKept
<1>1. \A t \in Threads : pc'[t] = pc[t] \/ (pc[t] \in IdlePC /\ pc'[t] \in IdlePC)
  BY Facts DEF PcElsewhere, Typed
<1> QED
  BY <1>1 DEF CallsKept, svars

(* The drive has found the sector, or takes the data.                      *)
LEMMA ReadyKeeps == ASSUME IInv, Ready PROVE IInv'
<1> USE DEF Held, Mid
<1>1. /\ drive.st = "busy" /\ drive' = [drive EXCEPT !.st = "drq"] /\ irq' = (drive.op = "read")
      /\ UNCHANGED <<tvars, pc, svars, stage, req, buf, expecting, done, dwaiters, reg, disk>>
  BY DEF Ready
<1>2. PICK t \in Threads : stage[t] \in Mid
  BY <1>1 DEF IInv, Device, Rest
<1>3. Doing(t) /\ holder[CLock] = t /\ (\A u \in Threads \ {t} : stage[u] \notin Held)
  BY <1>2, OneCall DEF IInv, Device, Places
<1>4. LInv'
  <2>1. UNCHANGED <<svars, pc, cur, status, ready, slice, saved, panicked>> /\ intr' = intr
    BY <1>1 DEF tvars
  <2> QED
    BY <2>1, LocalKeepsAll, Facts DEF IInv, LInv, Typed
<1>5. drive' = [st |-> "drq", op |-> drive.op, cmd |-> drive.cmd] /\ irq' \in BOOLEAN
  BY <1>1 DEF IInv, CallTypes
<1>6. CallsKept
  BY <1>1 DEF CallsKept, svars
<1>7. Doing(t)'
  <2> DEFINE w == IsWrite(req[t])
  <2>1. /\ UNCHANGED <<stage, req, expecting, done, dwaiters, status, reg>> /\ expecting \in BOOLEAN
        /\ drive'.st = "drq" /\ drive'.op = drive.op /\ drive'.cmd = drive.cmd
    BY <1>1, <1>5 DEF tvars, IInv, CallTypes
  <2>2. stage[t] \in {"poll", "down", "wait"} /\ drive.op = (IF w THEN "write" ELSE "read")
        /\ drive.cmd = Cmd(req[t])
    BY <1>1, <1>2, <1>3 DEF Doing
  <2>3. CASE stage[t] = "poll"
    <3>1. w /\ expecting = w /\ done = 0 /\ dwaiters = <<>> /\ drive.op = "write"
      BY <1>1, <1>3, <2>2, <2>3 DEF Doing
    <3>2. ~irq'
      BY <1>1, <3>1
    <3> QED
      BY <2>1, <2>2, <2>3, <3>1, <3>2 DEF Doing
  <2>4. CASE stage[t] \in {"down", "wait"}
    <3>1. ~w /\ drive.op = "read"
      BY <1>1, <1>3, <2>2, <2>4 DEF Doing
    <3>2. expecting /\ done = 0
      BY <1>1, <1>3, <2>4, <3>1 DEF Doing, Answer
    <3>3. irq' = TRUE
      BY <1>1, <3>1
    <3>4. Answer(t)'
      BY <2>1, <3>1, <3>2, <3>3 DEF Answer
    <3>5. /\ stage[t] = "down" => dwaiters = <<>>
          /\ stage[t] = "wait" => dwaiters = IF status[t] = "BLOCKED" THEN <<t>> ELSE <<>>
      BY <1>3 DEF Doing
    <3> QED
      BY <2>1, <2>2, <2>4, <3>1, <3>4, <3>5 DEF Doing
  <2> QED
    BY <2>2, <2>3, <2>4
<1>8. Device'
  <2>1. stage' = stage
    BY <1>1
  <2>2. \A u \in Threads \ {t} : Doing(u)'
    BY <1>3, <2>1 DEF Doing
  <2> QED
    BY <1>2, <1>7, <2>1, <2>2 DEF Device
<1> QED
  BY <1>1, <1>4, <1>5, <1>6, <1>8, FrameKeeps DEF IInv, CallTypes

(* Steps that are not the channel's: who waits for it and whether the      *)
(* command may be interrupted stay as they are.                            *)
LEMMA DeviceFrame ==
  ASSUME IInv, UNCHANGED <<stage, req, reg, drive, expecting, done, dwaiters, irq>>,
         \A t \in Threads : stage[t] = "wait" => (status'[t] = "BLOCKED" <=> status[t] = "BLOCKED"),
         \A t \in Threads : stage[t] = "command" /\ irq => cur' = t /\ ~intr'
  PROVE  Device'
<1>1. \A t \in Threads : Doing(t)'
  <2> SUFFICES ASSUME NEW t \in Threads PROVE Doing(t)'
    OBVIOUS
  <2>1. Doing(t)
    BY DEF IInv, Device
  <2>2. Answer(t) => Answer(t)'
    BY DEF Answer
  <2> QED
    BY <2>1, <2>2 DEF Doing, Mid
<1>2. (\A t \in Threads : stage'[t] \notin Mid) => Rest'
  BY DEF IInv, Device, Rest
<1> QED
  BY <1>1, <1>2 DEF Device

(* The clock and the idle thread.                                          *)
LEMMA MachineKeeps ==
  ASSUME IInv, TimerTick \/ IdleStep, UNCHANGED <<svars, ivars>>
  PROVE  IInv'
<1>1. /\ LInv'
      /\ \A t \in Threads \ {Idle} : status'[t] = "BLOCKED" <=> status[t] = "BLOCKED"
  BY MachineKeepsAll DEF IInv, LInv, Blocked
<1>2. PcElsewhere
  BY DEF TimerTick, LeaveHlt, IdleStep, idle_block, idle_hlt, At, Goto, IdlePC, PcElsewhere
<1>3. UNCHANGED <<stage, req, buf, expecting, done, dwaiters, reg, drive, irq, disk>>
  BY DEF ivars
<1>4. \A t \in Threads : stage[t] \in {"wait", "command"} => t # Idle
  BY Sets DEF IInv, CallTypes
<1>5. ASSUME NEW t \in Threads, stage[t] = "command", irq PROVE FALSE
  <2>1. cur = t /\ ~intr
    BY <1>5 DEF IInv, Device, Doing
  <2>2. pc[t] \notin IdlePC
    BY <1>4, <1>5, Facts
  <2> QED
    BY <2>1, <2>2 DEF TimerTick, intr_timer_handler, IdleStep, idle_block, idle_hlt, At, IdlePC
<1>6. Device'
  BY <1>1, <1>3, <1>4, <1>5, DeviceFrame
<1>7. CallsKept
  BY <1>2, <1>3, ElsewhereCalls
<1> QED
  BY <1>1, <1>3, <1>6, <1>7, FrameKeeps DEF IInv, CallTypes

LEMMA StutterKeeps == ASSUME IInv, UNCHANGED vars PROVE IInv'
<1>1. UNCHANGED <<tvars, pc, svars, ivars>>
  BY DEF vars
<1>2. UNCHANGED <<stage, req, buf, expecting, done, dwaiters, reg, drive, irq, disk>>
  BY <1>1 DEF ivars
<1>3. UNCHANGED <<svars, pc, cur, status, ready, slice, saved, panicked, intr>>
  BY <1>1 DEF tvars
<1>4. LInv'
  BY <1>3, LocalKeepsAll, Facts DEF IInv, LInv, Typed
<1>5. Device'
  BY <1>2, <1>3, DeviceFrame DEF IInv, Device, Doing
<1>6. CallsKept
  BY <1>2, <1>3 DEF CallsKept, svars
<1> QED
  BY <1>2, <1>4, <1>5, <1>6, FrameKeeps DEF IInv, CallTypes

(* main's flag between two of its calls.                                   *)
LEMMA InitAllKeeps == ASSUME IInv, InitAll(FALSE) \/ InitAll(TRUE) PROVE IInv'
<1>1. /\ From("free", "free") /\ (intr_enable \/ intr_disable)
      /\ UNCHANGED <<pc, svars, req, buf, expecting, done, dwaiters, reg, drive, irq, disk>>
  BY DEF InitAll
<1>2. stage' = stage /\ stage[cur] = "free"
  BY <1>1 DEF From, IInv, CallTypes
<1>3. UNCHANGED <<cur, status, ready, slice, saved, panicked>> /\ intr' \in BOOLEAN
  BY <1>1 DEF intr_enable, intr_disable
<1>4. LInv'
  BY <1>1, <1>3, LocalKeepsAll DEF IInv, LInv
<1>5. \A t \in Threads : stage[t] = "command" => ~irq
  BY <1>2 DEF IInv, Device, Doing
<1>6. Device'
  BY <1>1, <1>2, <1>3, <1>5, DeviceFrame
<1>7. CallsKept
  BY <1>1, <1>2 DEF CallsKept, svars
<1> QED
  BY <1>1, <1>4, <1>6, <1>7, FrameKeeps DEF IInv, CallTypes

-----------------------------------------------------------------------------

(* intr_hd_handler: a request that is not expected is dropped; one that is *)
(* can only find its call before or in the wait for disk_done.             *)
LEMMA LeftoverKeeps ==
  ASSUME IInv, intr_hd_handler, ~expecting
  PROVE  IInv'
<1>1. /\ intr /\ irq /\ irq' = FALSE /\ expecting' = FALSE /\ PcElsewhere
      /\ UNCHANGED <<tvars, done, dwaiters>> /\ UNCHANGED <<svars, stage, req, buf, reg, drive, disk>>
  BY DEF intr_hd_handler, LeaveHlt, Goto, IdlePC, PcElsewhere
<1>2. \A t \in Threads : stage[t] \notin Mid
  BY <1>1 DEF IInv, Device, Doing, Answer, Mid
<1>3. Device'
  BY <1>1, <1>2 DEF IInv, Device, Doing, Rest, Mid
<1>4. RunSound'
  BY <1>1, Facts DEF tvars, WaitInv, RunSound, ThreadTypeOK, RunQueue, IdleReady
<1>5. WaitInv'
  BY <1>1, <1>4, Facts, ElsewhereKeepsWaits DEF tvars
<1>6. LockInv'
  BY <1>1, <1>4, Facts, ElsewhereKeepsLocks DEF RunSound
<1>7. CallsKept
  BY <1>1, ElsewhereCalls
<1> QED
  BY <1>1, <1>3, <1>5, <1>6, <1>7, FrameKeeps DEF IInv, LInv, CallTypes

LEMMA AnswerKeeps ==
  ASSUME IInv, intr_hd_handler, expecting
  PROVE  IInv'
<1> USE DEF Held, Mid
<1>1. /\ intr /\ irq /\ irq' = FALSE /\ expecting' = FALSE /\ PcElsewhere
      /\ done' = done + 1 /\ UNCHANGED <<svars, stage, req, buf, reg, drive, disk>>
      /\ IF dwaiters = <<>>
         THEN /\ panicked' = (done # 0)
              /\ UNCHANGED <<cur, status, ready, slice, intr, saved, dwaiters>>
         ELSE thread_unblock(Head(dwaiters), done # 0) /\ dwaiters' = Tail(dwaiters)
  BY DEF intr_hd_handler, LeaveHlt, Goto, IdlePC, PcElsewhere
<1>2. PICK t \in Threads : stage[t] \in Mid
  BY DEF IInv, Device, Rest
<1>3. Doing(t) /\ holder[CLock] = t /\ pc[t] = "out" /\ (\A u \in Threads \ {t} : stage[u] \notin Held)
  BY <1>2, OneCall DEF IInv, Device, Places
<1> DEFINE w == IsWrite(req[t])
<1>4. /\ stage[t] \in {"down", "wait"} /\ done = 0 /\ (~w => drive.st = "drq")
      /\ drive.op = (IF w THEN "write" ELSE "read") /\ drive.cmd = Cmd(req[t])
      /\ (w => drive.st = "idle")
  BY <1>1, <1>2, <1>3 DEF Doing, Answer
<1>5. /\ stage[t] = "down" => dwaiters = <<>>
      /\ stage[t] = "wait" => dwaiters = IF status[t] = "BLOCKED" THEN <<t>> ELSE <<>>
  BY <1>3 DEF Doing
<1>6. LInv' /\ dwaiters' = <<>> /\ (stage[t] = "wait" => status'[t] # "BLOCKED")
  <2>1. CASE dwaiters = <<>>
    <3>1. panicked' = (done # 0) /\ UNCHANGED <<cur, status, ready, slice, intr, saved, dwaiters>>
      BY <1>1, <2>1
    <3>2. ~panicked'
      BY <1>4, <3>1, Zenon
    <3>3. stage[t] = "wait" => status'[t] # "BLOCKED"
      BY <1>5, <2>1, <3>1
    <3>4. RunSound'
      <4>1. RunSound /\ panicked' \in BOOLEAN
        BY <3>1, Facts DEF WaitInv
      <4> QED
        BY <3>1, <3>2, <4>1 DEF RunSound, ThreadTypeOK, RunQueue, IdleReady
    <3>5. WaitInv'
      BY <1>1, <3>1, <3>4, Facts, ElsewhereKeepsWaits
    <3>6. LockInv'
      BY <1>1, <3>4, Facts, ElsewhereKeepsLocks DEF RunSound
    <3> QED
      BY <2>1, <3>1, <3>3, <3>5, <3>6 DEF LInv
  <2>2. CASE dwaiters # <<>>
    <3>1. stage[t] = "wait" /\ status[t] = "BLOCKED" /\ dwaiters = <<t>>
      BY <1>4, <1>5, <2>2
    <3>2. Head(dwaiters) = t /\ Tail(dwaiters) = <<>> /\ (done # 0) = FALSE
      BY <1>4, <3>1
    <3>3. thread_unblock(t, FALSE) /\ dwaiters' = <<>>
      <4>1. thread_unblock(Head(dwaiters), done # 0) /\ dwaiters' = Tail(dwaiters)
        BY <1>1, <2>2
      <4> QED
        BY <3>2, <4>1
    <3>4. status[t] \in Blocked /\ pc[t] # "test"
      BY <1>3, <3>1 DEF Blocked
    <3>5. LockInv' /\ WaitInv' /\ status' = [status EXCEPT ![t] = "READY"]
      BY <1>1, <3>3, <3>4, Facts, WakeKeepsAll
    <3> QED
      BY <3>3, <3>5, Facts DEF LInv
  <2> QED
    BY <2>1, <2>2
<1>7. Doing(t)'
  <2>1. /\ UNCHANGED <<stage, req, drive, reg>> /\ ~expecting' /\ ~irq' /\ done' = 1 /\ dwaiters' = <<>>
    BY <1>1, <1>4, <1>6
  <2>2. Answer(t)'
    BY <1>4, <2>1 DEF Answer
  <2> QED
    BY <1>4, <1>6, <2>1, <2>2 DEF Doing
<1>8. Device'
  <2>1. stage' = stage
    BY <1>1
  <2>2. \A u \in Threads \ {t} : Doing(u)'
    BY <1>3, <2>1 DEF Doing
  <2> QED
    BY <1>2, <1>7, <2>1, <2>2 DEF Device
<1>9. CallsKept
  BY <1>1, ElsewhereCalls
<1> QED
  BY <1>1, <1>6, <1>8, <1>9, FrameKeeps DEF IInv, CallTypes

(* lock_acquire: the caller does not have the channel.                     *)
LEMMA CallKeeps == ASSUME IInv, Call PROVE IInv'
<1>0. PICK t \in Threads : t = cur
  BY Facts
<1> USE DEF Held, Mid
<1>1. PICK r \in Requests : req' = [req EXCEPT ![t] = r]
  BY <1>0 DEF Call
<1>2. /\ From("free", "select") /\ lock_acquire(CLock)
      /\ UNCHANGED <<buf, expecting, done, dwaiters, reg, drive, irq, disk>>
  BY DEF Call
<1>3. /\ stage[t] = "free" /\ pc[t] = "out" /\ stage' = [stage EXCEPT ![t] = "select"] /\ t \in Callers
      /\ holder[CLock] # t
  BY <1>0, <1>2, CallerFacts DEF IInv, Places
<1>4. /\ pc' = [pc EXCEPT ![t] = "down"] /\ UNCHANGED <<tvars, repeat, holder>>
  BY <1>0, <1>2, <1>3 DEF lock_acquire, Goto
<1>5. LInv'
  BY <1>2, Sets, Facts, AcquireKeepsLocks, AcquireKeepsWaits DEF LInv
<1>6. \A u \in Threads \ {t} : stage'[u] = stage[u] /\ pc'[u] = pc[u] /\ req'[u] = req[u]
  BY <1>1, <1>3, <1>4, Facts DEF IInv, CallTypes, Typed
<1>7. stage'[t] = "select" /\ pc'[t] = "down" /\ req'[t] = r /\ stage' \in [Threads -> Stages]
  BY <1>1, <1>3, <1>4, Facts DEF IInv, CallTypes, Typed, Stages
<1>8. CallTypes'
  <2>1. req' \in [Threads -> Requests \cup {None}]
    BY <1>1 DEF IInv, CallTypes
  <2> QED
    BY <1>2, <1>3, <1>6, <1>7, <2>1 DEF IInv, CallTypes
<1>9. Places' /\ Single'
  BY <1>3, <1>4, <1>6, <1>7 DEF IInv, Places, Single
<1>10. Bufs'
  <2>1. buf'[t] = None
    BY <1>2, <1>3 DEF IInv, Bufs
  <2> QED
    BY <1>2, <1>6, <1>7, <2>1 DEF IInv, Bufs
<1>11. Device'
  <2>1. UNCHANGED <<cur, intr, status>>
    BY <1>4 DEF tvars
  <2>2. ASSUME NEW u \in Threads \ {t} PROVE Doing(u)'
    <3>1. Doing(u)
      BY DEF IInv, Device
    <3>2. Answer(u) => Answer(u)'
      BY <1>2, <1>6 DEF Answer
    <3> QED
      BY <1>2, <1>6, <2>1, <3>1, <3>2 DEF Doing
  <2>3. Doing(t)'
    BY <1>7 DEF Doing
  <2>4. (\A u \in Threads : stage'[u] \notin Mid) => Rest'
    BY <1>2, <1>3, <1>6 DEF IInv, Device, Rest
  <2> QED
    BY <2>2, <2>3, <2>4 DEF Device
<1> QED
  BY <1>5, <1>8, <1>9, <1>10, <1>11 DEF IInv

(* lock_release: the channel is at rest, so the next caller finds it so.   *)
LEMMA ReturnKeeps == ASSUME IInv, Return PROVE IInv'
<1>0. PICK t \in Threads : t = cur
  BY Facts
<1> USE DEF Held, Mid
<1>1. /\ From("release", "free") /\ lock_release(CLock)
      /\ req' = [req EXCEPT ![t] = None] /\ buf' = [buf EXCEPT ![t] = None]
      /\ UNCHANGED <<expecting, done, dwaiters, reg, drive, irq, disk>>
  BY <1>0 DEF Return
<1>2. /\ stage[t] = "release" /\ pc[t] = "out" /\ stage' = [stage EXCEPT ![t] = "free"]
      /\ holder[CLock] = t /\ Rest
  BY <1>0, <1>1, CallerFacts
<1>3. \A u \in Threads \ {t} : stage[u] \in {"free", "select"}
  BY <1>2, OneCall
<1>4. ~(repeat[CLock] > 1)
  BY DEF IInv, Single
<1>5. /\ holder' = [holder EXCEPT ![CLock] = Null] /\ pc' = [pc EXCEPT ![t] = "zero"]
      /\ repeat' = repeat
  BY <1>0, <1>1, <1>4 DEF lock_release, Goto
<1>6. LInv'
  BY <1>0, <1>1, <1>2, Sets, Facts, ReleaseKeepsLocks, ReleaseKeepsWaits DEF LInv
<1>7. \A u \in Threads \ {t} : /\ stage'[u] = stage[u] /\ pc'[u] = pc[u] /\ req'[u] = req[u]
                               /\ buf'[u] = buf[u]
  BY <1>1, <1>2, <1>5, Facts DEF IInv, CallTypes, Typed
<1>8. /\ stage'[t] = "free" /\ pc'[t] = "zero" /\ req'[t] = None /\ buf'[t] = None
      /\ stage' \in [Threads -> Stages] /\ holder'[CLock] = Null
  BY <1>1, <1>2, <1>5, Facts, Sets DEF IInv, CallTypes, Typed, Stages
<1>9. CallTypes'
  <2>1. req' \in [Threads -> Requests \cup {None}] /\ buf' = [u \in Threads |-> buf'[u]]
    BY <1>1 DEF IInv, CallTypes
  <2> QED
    BY <1>1, <1>7, <1>8, <2>1 DEF IInv, CallTypes
<1>10. Places' /\ Single'
  BY <1>2, <1>3, <1>5, <1>7, <1>8, Sets DEF IInv, Places, Single
<1>11. Bufs'
  BY <1>7, <1>8 DEF IInv, Bufs
<1>12. Device'
  <2>1. Rest'
    BY <1>1, <1>2 DEF Rest
  <2>2. \A u \in Threads : Doing(u)'
    BY <1>3, <1>7, <1>8 DEF Doing
  <2> QED
    BY <2>1, <2>2 DEF Device
<1> QED
  BY <1>6, <1>9, <1>10, <1>11, <1>12 DEF IInv

(* A step of sync.c: whoever has the channel is outside of it.             *)
LEMMA OperateKeeps == ASSUME IInv, Operate PROVE IInv'
<1> USE DEF Held, Mid
<1>1. LockStep /\ UNCHANGED <<stage, req, buf, expecting, done, dwaiters, reg, drive, irq, disk>>
  BY DEF Operate, ivars
<1>2. LInv'
  BY <1>1, Facts, StepKeepsWaits DEF LInv
<1>3. Typed /\ lk[cur] = CLock /\ LockSound(CLock)
  BY Facts, Sets DEF Typed
<1>4. \A t \in Threads : t # cur =>
        /\ pc'[t] = pc[t] /\ (holder'[CLock] = t <=> holder[CLock] = t)
        /\ t # Idle /\ pc[t] # "test" => (status'[t] = "BLOCKED" <=> status[t] = "BLOCKED")
  BY <1>1, Facts, Sets, StepLeavesOthers DEF Blocked
<1>5. pc[cur] \in {"down", "test", "own", "count", "zero", "up"} /\ stage[cur] \in {"free", "select"}
  <2>1. pc[cur] \in {"down", "test", "own", "count", "zero", "up"}
    BY <1>1 DEF LockStep, sema_down, sema_down_loop, lock_acquire_own, lock_acquire_count,
                lock_release_zero, sema_up, At
  <2> QED
    BY <2>1, Facts DEF IInv, Places, CallTypes, Stages
<1>6. Places'
  <2> SUFFICES ASSUME NEW t \in Threads
      PROVE  /\ stage[t] = "free" => pc'[t] \in IdlePC \cup {"out", "zero", "up"}
             /\ stage[t] = "select" => /\ pc'[t] \in {"out", "down", "test", "own", "count"}
                                       /\ pc'[t] = "out" => holder'[CLock] = t
             /\ stage[t] \in Held => pc'[t] = "out" /\ holder'[CLock] = t
             /\ holder'[CLock] = t => \/ stage[t] \in Held
                                      \/ stage[t] = "select" /\ pc'[t] \in {"out", "count"}
    BY <1>1 DEF Places
  <2>1. CASE t # cur
    BY <1>4, <2>1 DEF IInv, Places
  <2>2. CASE t = cur
    <3>1. /\ stage[t] = "free" => pc[t] \in {"zero", "up"}
          /\ stage[t] = "select" => pc[t] \in {"down", "test", "own", "count"}
          /\ holder[CLock] = t => stage[t] = "select" /\ pc[t] = "count"
          /\ stage[t] \in {"free", "select"}
      BY <1>5, <2>2 DEF IInv, Places, IdlePC
    <3>2. CASE sema_down \/ sema_down_loop
      BY <1>3, <2>2, <3>1, <3>2 DEF sema_down, sema_down_loop, At, Goto, Typed
    <3>3. CASE lock_acquire_own
      BY <1>3, <2>2, <3>1, <3>3, Sets DEF lock_acquire_own, At, Goto, Typed
    <3>4. CASE lock_acquire_count
      <4>1. holder[CLock] = t /\ holder' = holder /\ pc' = [pc EXCEPT ![t] = "out"] /\ pc[t] = "count"
        BY <1>3, <2>2, <3>4 DEF lock_acquire_count, At, Goto, LockSound
      <4> QED
        BY <1>3, <3>1, <4>1 DEF Typed
    <3>5. CASE lock_release_zero \/ sema_up
      BY <1>3, <2>2, <3>1, <3>5 DEF lock_release_zero, sema_up, At, Goto, Typed
    <3> QED
      BY <1>1, <3>2, <3>3, <3>4, <3>5 DEF LockStep
  <2> QED
    BY <2>1, <2>2
<1>7. Single'
  <2>1. repeat' = repeat \/ repeat' = [repeat EXCEPT ![CLock] = 0]
                          \/ repeat' = [repeat EXCEPT ![CLock] = 1]
    BY <1>1, <1>3 DEF LockStep, sema_down, sema_down_loop, lock_acquire_own, lock_acquire_count,
                      lock_release_zero, sema_up
  <2> QED
    BY <1>3, <2>1, Sets DEF IInv, Single, Typed
<1>8. Device'
  <2>1. ASSUME NEW t \in Threads, stage[t] \in {"wait", "command"}
        PROVE  t # cur /\ t # Idle /\ pc[t] # "test"
    BY <1>5, <2>1, Sets DEF IInv, Places, CallTypes
  <2>2. \A t \in Threads : stage[t] = "command" => ~irq
    BY <2>1 DEF IInv, Device, Doing
  <2> QED
    BY <1>1, <1>4, <2>1, <2>2, DeviceFrame
<1>9. CallTypes' /\ Bufs'
  BY <1>1 DEF IInv, CallTypes, Bufs
<1> QED
  BY <1>2, <1>6, <1>7, <1>8, <1>9 DEF IInv

LEMMA NextPreserves == IInv /\ [Next]_vars => IInv'
<1> SUFFICES ASSUME IInv, [Next]_vars PROVE IInv'
  OBVIOUS
<1>1. CASE InitAll(FALSE) \/ InitAll(TRUE)
  BY <1>1, InitAllKeeps
<1>2. CASE Call \/ Return
  BY <1>2, CallKeeps, ReturnKeeps
<1>3. CASE select_disk \/ select_sector \/ expect \/ cmd_out
  BY <1>3, CommandKeeps
<1>4. CASE down \/ wait
  BY <1>4, DownKeeps, WaitKeeps
<1>5. CASE busy_wait \/ transfer
  BY <1>5, BusyKeeps, TransferKeeps
<1>6. CASE Ready
  BY <1>6, ReadyKeeps
<1>7. CASE intr_hd_handler
  BY <1>7, LeftoverKeeps, AnswerKeeps
<1>8. CASE Operate
  BY <1>8, OperateKeeps
<1>9. CASE Interrupt \/ idle
  BY <1>9, MachineKeeps DEF Interrupt, idle
<1>10. CASE UNCHANGED vars
  BY <1>10, StutterKeeps
<1> QED
  BY <1>1, <1>2, <1>3, <1>4, <1>5, <1>6, <1>7, <1>8, <1>9, <1>10 DEF Next, InCall

LEMMA Inductive == Spec => []IInv
BY NextPreserves, InitSound, PTL DEF Spec

-----------------------------------------------------------------------------

(* busy_wait finds DRQ once BSY is gone, disk_done stays binary, and no    *)
(* ASSERT of thread.c or sync.c fails: whichever requests are left over by *)
(* the sectors of an earlier read.                                         *)
THEOREM IdeNeverPanics == Spec => []NoPanic
<1>1. IInv => NoPanic
  BY Facts DEF NoPanic
<1> QED
  BY <1>1, Inductive, PTL

(* cmd_out sets expecting_intr before it writes the command, and the       *)
(* semaphore counts, so the interrupt that ends a sleep in sema_down is    *)
(* still to come while the thread sleeps.                                  *)
THEOREM CompletionIsNotLost == Spec => []CompletionNotLost
<1>1. IInv => CompletionNotLost
  <2> SUFFICES ASSUME IInv, NEW t \in Callers, stage[t] = "wait", status[t] = "BLOCKED"
               PROVE  expecting /\ (irq \/ (drive.st = "busy" /\ drive.op = "read"))
    BY DEF CompletionNotLost
  <2> DEFINE w == IsWrite(req[t])
  <2>1. t \in Threads /\ <<t>> # <<>>
    BY Sets
  <2>2. Doing(t) /\ drive.st \in {"idle", "busy", "drq"}
    BY <2>1 DEF IInv, Device, CallTypes
  <2>3. /\ Answer(t) /\ dwaiters = <<t>> /\ drive.op = (IF w THEN "write" ELSE "read")
        /\ IF w THEN drive.st = "idle" ELSE drive.st \in {"busy", "drq"}
    BY <2>2 DEF Doing, Mid
  <2>4. expecting /\ irq = (w \/ drive.st = "drq")
    BY <2>1, <2>3 DEF Answer
  <2>5. CASE w \/ drive.st = "drq"
    BY <2>4, <2>5, Zenon
  <2>6. CASE ~w /\ drive.st # "drq"
    BY <2>3, <2>4, <2>6
  <2> QED
    BY <2>4, <2>5, <2>6
<1> QED
  BY <1>1, Inductive, PTL

-----------------------------------------------------------------------------

(* The calls that have not taken effect yet and the data of those that     *)
(* have: the state of Disk, from the stages, the requests and the buffers. *)
Asked(t) == [secs |-> Span(req[t]), data |-> req[t].data]
pending  == [t \in Callers |-> IF Took(t) THEN None ELSE Asked(t)]
moved    == [t \in Callers |-> buf[t]]

LEMMA Unused ==
  /\ None \notin D!Calls
  /\ \A r \in Requests : /\ [secs |-> Span(r), data |-> r.data] \in D!Calls
                         /\ None \notin [Span(r) -> Contents]
<1>1. None \notin D!Calls /\ \A secs \in SUBSET Sectors : None \notin [secs -> Contents]
  BY IdeAssumption DEF D!Calls
<1>2. ASSUME NEW r \in Requests PROVE Span(r) \in SUBSET Sectors /\ r.data \in Contents \cup {None}
  BY Sets
<1> QED
  BY <1>1, <1>2 DEF D!Calls

LEMMA Stutters ==
  ASSUME UNCHANGED <<disk, buf, req>>, \A t \in Callers : Took(t)' <=> Took(t)
  PROVE  UNCHANGED <<disk, pending, moved>>
<1>1. pending' = pending
  BY DEF pending, Asked
<1>2. moved' = moved
  BY DEF moved
<1> QED
  BY <1>1, <1>2

(* A step of the caller that has the channel other than the transfer.      *)
LEMMA StageStutters ==
  ASSUME IInv, UNCHANGED <<disk, buf, req>>, NEW s, NEW n, From(s, n),
         LET w == IsWrite(req[cur]) IN
           (n \in {"free", "release"} \/ (w /\ n \in {"down", "wait"})) <=>
           (s \in {"free", "release"} \/ (w /\ s \in {"down", "wait"}))
  PROVE  UNCHANGED <<disk, pending, moved>>
<1>1. stage[cur] = s /\ stage' = [stage EXCEPT ![cur] = n] /\ cur \in Callers /\ cur \in Threads
  BY CallerFacts
<1>2. \A t \in Callers : t # cur => stage'[t] = stage[t]
  BY <1>1, Sets DEF IInv, CallTypes
<1>3. stage'[cur] = n
  BY <1>1 DEF IInv, CallTypes
<1>4. \A t \in Callers : Took(t)' <=> Took(t)
  <2> SUFFICES ASSUME NEW t \in Callers PROVE Took(t)' <=> Took(t)
    OBVIOUS
  <2>1. CASE t = cur
    BY <1>1, <1>3, <2>1 DEF Took
  <2>2. CASE t # cur
    BY <1>2, <2>2 DEF Took
  <2> QED
    BY <2>1, <2>2
<1> QED
  BY <1>4, Stutters

(* The call is made: it has its effect yet to take.                        *)
LEMMA CallStarts == ASSUME IInv, Call PROVE \E t \in Callers : D!Start(t)
<1>0. PICK t \in Callers : t = cur
  BY DEF Call, From
<1>1. PICK r \in Requests : req' = [req EXCEPT ![t] = r]
  BY <1>0 DEF Call
<1>2. /\ stage[t] = "free" /\ stage' = [stage EXCEPT ![t] = "select"] /\ UNCHANGED <<buf, disk>>
      /\ t \in Threads
  BY <1>0, CallerFacts DEF Call
<1>3. \A u \in Callers : u # t => stage'[u] = stage[u] /\ req'[u] = req[u]
  BY <1>1, <1>2, Sets DEF IInv, CallTypes
<1>4. stage'[t] = "select" /\ req'[t] = r
  BY <1>1, <1>2 DEF IInv, CallTypes
<1>5. Took(t) /\ ~Took(t)' /\ \A u \in Callers : u # t => (Took(u)' <=> Took(u))
  BY <1>2, <1>3, <1>4 DEF Took
<1>6. pending[t] = None /\ moved[t] = None
  BY <1>2, <1>5 DEF pending, moved, IInv, Bufs
<1>7. Asked(t)' \in D!Calls
  BY <1>4, Unused DEF Asked
<1>8. pending' = [pending EXCEPT ![t] = Asked(t)']
  BY <1>3, <1>5 DEF pending, Asked
<1>9. UNCHANGED <<disk, moved>>
  BY <1>2 DEF moved
<1> QED
  BY <1>6, <1>7, <1>8, <1>9 DEF D!Start, pending, moved, Asked

(* The data moves: the call takes effect, on the sectors it named.         *)
LEMMA TransferTakesEffect == ASSUME IInv, transfer PROVE \E t \in Callers : D!TakeEffect(t)
<1>0. PICK t \in Callers : t = cur
  BY DEF transfer, From
<1> DEFINE w == IsWrite(req[t])
           next == IF w THEN "down" ELSE "release"
<1>1. /\ stage[t] = "transfer" /\ req[t] \in Requests
      /\ stage' = [stage EXCEPT ![t] = next] /\ req' = req
      /\ disk' = [s \in Sectors |-> IF w /\ s \in Span(req[t]) THEN req[t].data ELSE disk[s]]
      /\ buf' = [buf EXCEPT ![t] = [s \in Span(req[t]) |-> disk'[s]]]
  BY <1>0, TransferFacts, Facts
<1>2. \A u \in Callers : u # t => stage'[u] = stage[u] /\ buf'[u] = buf[u]
  BY <1>1, Sets DEF IInv, CallTypes
<1>3. stage'[t] = next /\ buf'[t] = [s \in Span(req[t]) |-> disk'[s]]
  BY <1>1, Sets DEF IInv, CallTypes
<1>4. ~Took(t) /\ Took(t)' /\ \A u \in Callers : u # t => (Took(u)' <=> Took(u))
  BY <1>1, <1>2, <1>3 DEF Took
<1>5. pending[t] = Asked(t) /\ Asked(t) \in D!Calls
  BY <1>1, <1>4, Unused DEF pending, Asked
<1>6. pending[t] # None /\ pending[t].secs = Span(req[t]) /\ pending[t].data = req[t].data
  BY <1>5, Unused DEF Asked
<1>7. pending' = [pending EXCEPT ![t] = None]
  BY <1>1, <1>4 DEF pending, Asked
<1>8. moved' = [moved EXCEPT ![t] = [s \in Span(req[t]) |-> disk'[s]]]
  BY <1>2, <1>3 DEF moved
<1>9. disk' = [s \in Sectors |-> IF s \in Span(req[t]) /\ req[t].data # None
                                 THEN req[t].data ELSE disk[s]]
  BY <1>1 DEF IsWrite
<1> QED
  BY <1>6, <1>7, <1>8, <1>9 DEF D!TakeEffect, pending, moved, Asked

(* The call returns what it has moved.                                     *)
LEMMA CallReturns == ASSUME IInv, Return PROVE \E t \in Callers : D!Return(t)
<1>0. PICK t \in Callers : t = cur
  BY DEF Return, From
<1>1. /\ stage[t] = "release" /\ stage' = [stage EXCEPT ![t] = "free"] /\ disk' = disk
      /\ req' = [req EXCEPT ![t] = None] /\ buf' = [buf EXCEPT ![t] = None]
      /\ t \in Threads /\ req[t] \in Requests
  BY <1>0, CallerFacts DEF Return, Held
<1>2. \A u \in Callers : u # t => stage'[u] = stage[u] /\ buf'[u] = buf[u] /\ req'[u] = req[u]
  BY <1>1, Sets DEF IInv, CallTypes
<1>3. stage'[t] = "free" /\ buf'[t] = None
  BY <1>1 DEF IInv, CallTypes
<1>4. Took(t) /\ Took(t)' /\ \A u \in Callers : u # t => (Took(u)' <=> Took(u))
  BY <1>1, <1>2, <1>3 DEF Took
<1>5. pending' = pending
  BY <1>2, <1>4 DEF pending, Asked
<1>6. moved' = [moved EXCEPT ![t] = None]
  BY <1>2, <1>3 DEF moved
<1>7. moved[t] # None
  <2>1. buf[t] \in [Span(req[t]) -> Contents]
    BY <1>1 DEF IInv, Bufs
  <2> QED
    BY <1>1, <2>1, Unused DEF moved
<1> QED
  BY <1>1, <1>5, <1>6, <1>7 DEF D!Return, pending, moved, Asked

LEMMA StepRefines == ASSUME IInv, [Next]_vars PROVE [D!Next]_<<disk, pending, moved>>
<1>1. CASE Call \/ transfer \/ Return
  BY <1>1, CallStarts, TransferTakesEffect, CallReturns DEF D!Next
<1>2. CASE InitAll(FALSE) \/ InitAll(TRUE)
  <2>1. From("free", "free") /\ UNCHANGED <<disk, buf, req>>
    BY <1>2 DEF InitAll
  <2> QED
    BY <2>1, StageStutters
<1>3. CASE select_disk \/ select_sector \/ expect \/ down
  <2>1. /\ UNCHANGED <<disk, buf, req>>
        /\ \/ From("select", "sector") \/ From("sector", "expect") \/ From("expect", "command")
           \/ From("down", "wait")
    BY <1>3 DEF select_disk, select_sector, expect, down
  <2> QED
    BY <2>1, StageStutters
<1>4. CASE cmd_out
  <2> DEFINE w == IsWrite(req[cur])
  <2>1. UNCHANGED <<disk, buf, req>> /\ From("command", IF w THEN "poll" ELSE "down")
    BY <1>4 DEF cmd_out
  <2>2. CASE w
    BY <2>1, <2>2, StageStutters
  <2>3. CASE ~w
    BY <2>1, <2>3, StageStutters
  <2> QED
    BY <2>2, <2>3
<1>5. CASE wait
  <2> DEFINE w == IsWrite(req[cur])
  <2>1. /\ UNCHANGED <<disk, buf, req>>
        /\ From("wait", "wait") \/ From("wait", IF w THEN "release" ELSE "poll")
    BY <1>5 DEF wait
  <2>2. CASE From("wait", "wait")
    BY <2>1, <2>2, StageStutters
  <2>3. CASE w /\ From("wait", "release")
    BY <2>1, <2>3, StageStutters
  <2>4. CASE ~w /\ From("wait", "poll")
    BY <2>1, <2>4, StageStutters
  <2> QED
    BY <2>1, <2>2, <2>3, <2>4
<1>6. CASE busy_wait
  <2>1. UNCHANGED <<disk, buf, req>> /\ (From("poll", "poll") \/ From("poll", "transfer"))
    BY <1>6 DEF busy_wait
  <2> QED
    BY <2>1, StageStutters
<1>7. CASE Ready \/ intr_hd_handler \/ Operate \/ Interrupt \/ idle \/ UNCHANGED vars
  <2>1. UNCHANGED <<disk, buf, req, stage>>
    BY <1>7 DEF Ready, intr_hd_handler, Operate, Interrupt, idle, vars, ivars
  <2> QED
    BY <2>1, Stutters DEF Took
<1> QED
  BY <1>1, <1>2, <1>3, <1>4, <1>5, <1>6, <1>7 DEF Next, InCall

(* ide_read and ide_write are atomic reads and writes of the sectors they  *)
(* were asked for: each takes effect when its data moves, whatever the     *)
(* calls of other threads name, wherever the clock strikes, and whichever  *)
(* requests the sectors of an earlier read have left.                      *)
THEOREM IdeRefinesDisk == Spec => ImplementsDisk
<1>1. Init => D!Init
  <2> SUFFICES ASSUME Init PROVE D!Init
    OBVIOUS
  <2>1. disk \in [Sectors -> Contents]
    BY Sets DEF Init
  <2>2. pending = [t \in Callers |-> None] /\ moved = [t \in Callers |-> None]
    BY Sets DEF Init, pending, moved, Took
  <2> QED
    BY <2>1, <2>2 DEF D!Init, pending, moved, Asked
<1>2. IInv /\ [Next]_vars => [D!Next]_<<disk,
        [t \in Callers |-> IF Took(t) THEN None ELSE [secs |-> Span(req[t]), data |-> req[t].data]],
        [t \in Callers |-> buf[t]]>>
  BY StepRefines DEF pending, moved, Asked
<1> QED
  BY <1>1, <1>2, Inductive, PTL DEF Spec, ImplementsDisk, D!Spec

-----------------------------------------------------------------------------

(* What the handler does not follow: two keys of one kind held at once, a *)
(* repeated caps lock, and v, whose row has the capital of a.              *)
OneOfEach  == \A m \in {Shifts, Ctrls, Alts} : \A j, k \in pressed \cap m : j = k
CapsOnce   == caps_lock_make \notin Repeats
NoMisprint == \h2f \notin Keys

-----------------------------------------------------------------------------

(* The handler's variables as the set of those that are TRUE, and what the *)
(* handler makes of such a set for a byte.                                 *)
Flags == {"ctrl", "shift", "alt", "caps", "ext"}
Now ==
  {f \in Flags :
     \/ f = "ctrl" /\ ctrl_status
     \/ f = "shift" /\ shift_status
     \/ f = "alt" /\ alt_status
     \/ f = "caps" /\ caps_lock_status
     \/ f = "ext" /\ ext_scancode}

Known(code)   == (0 < code /\ code < \h3b) \/ code \in {alt_r_make, ctrl_r_make}
Visible(code) == ~IsBreak(code) /\ Known(code) /\ Low(code) \notin Invisible
Shifted(h, code) ==
  IF ShiftOnly(code) THEN "shift" \in h ELSE ~("shift" \in h <=> "caps" \in h)

IsOf(f, code) ==
  \/ f = "ctrl" /\ code \in Ctrls
  \/ f = "shift" /\ code \in Shifts
  \/ f = "alt" /\ code \in Alts

Effect(h, code) ==
  {f \in Flags \ {"ext"} :
     IF IsBreak(code) THEN f \in h /\ ~IsOf(f, code - \h80)
     ELSE IF Known(code) /\ Low(code) \in Invisible
     THEN IF f = "caps" THEN ~(f \in h <=> Low(code) = caps_lock_make)
                        ELSE f \in h \/ IsOf(f, Low(code))
     ELSE f \in h}

Code(h, byte)  == IF "ext" \in h THEN \he000 + byte ELSE byte
After(h, byte) == IF byte = \he0 THEN h \cup {"ext"} ELSE Effect(h, Code(h, byte))
Types(h, code, want) == Visible(code) => keymap(Low(code), Shifted(h, code)) = want
Fine(h, b) == NoMisprint /\ b.byte # \he0 => Types(h, Code(h, b.byte), b.want)

(* What the keys say. *)
HeldNow ==
  {f \in Flags :
     \/ f = "ctrl" /\ pressed \cap Ctrls # {}
     \/ f = "shift" /\ pressed \cap Shifts # {}
     \/ f = "alt" /\ pressed \cap Alts # {}
     \/ f = "caps" /\ caps}

Wanted == KeyCodes \X BOOLEAN
Right  == {[char |-> w, want |-> w] : w \in Wanted}  \* the characters that are as meant
Bytes  == [byte : Nat, want : Wanted]
KeyboardTypeOK ==
  /\ shift_status \in BOOLEAN /\ caps_lock_status \in BOOLEAN /\ caps \in BOOLEAN
  /\ NoMisprint => kbd_buf \in Seq(Right)
  /\ pressed \subseteq Keys
  /\ wire \in Seq(Bytes)

(* h: the handler's flags before each byte of w, and after all.            *)
Along(h, w) ==
  /\ h \in Seq(SUBSET Flags) /\ Len(h) = Len(w) + 1
  /\ \A i \in 1 .. Len(w) : h[i + 1] = After(h[i], w[i].byte) /\ Fine(h[i], w[i])
Follows(h) == Along(h, wire) /\ h[1] = Now /\ h[Len(h)] = HeldNow

KeyboardInv == KeyboardTypeOK /\ \E h : Follows(h)

-----------------------------------------------------------------------------

(* Two sets of flags with the same elements. *)
LEMMA FlagsEqual ==
  ASSUME NEW g \in SUBSET Flags, NEW h \in SUBSET Flags,
         "ctrl" \in g <=> "ctrl" \in h, "shift" \in g <=> "shift" \in h,
         "alt" \in g <=> "alt" \in h, "caps" \in g <=> "caps" \in h, "ext" \in g <=> "ext" \in h
  PROVE  g = h
<1>1. \A f \in Flags : f \in g <=> f \in h
  BY DEF Flags
<1> QED
  BY <1>1

(* Which flags the handler's variables, and the keys, set. *)
LEMMA NowIs ==
  /\ Now \in SUBSET Flags
  /\ "ctrl" \in Now <=> ctrl_status
  /\ "shift" \in Now <=> shift_status
  /\ "alt" \in Now <=> alt_status
  /\ "caps" \in Now <=> caps_lock_status
  /\ "ext" \in Now <=> ext_scancode
BY DEF Now, Flags

LEMMA HeldIs ==
  /\ HeldNow \in SUBSET Flags
  /\ "ctrl" \in HeldNow <=> pressed \cap Ctrls # {}
  /\ "shift" \in HeldNow <=> pressed \cap Shifts # {}
  /\ "alt" \in HeldNow <=> pressed \cap Alts # {}
  /\ "caps" \in HeldNow <=> caps
  /\ "ext" \notin HeldNow
BY DEF HeldNow, Flags

(* A break clears the flag of its key, a make of a modifier sets it, and   *)
(* caps lock inverts its own; nothing else changes a flag.                 *)
LEMMA EffectIs ==
  ASSUME NEW h, NEW code
  PROVE  /\ Effect(h, code) \in SUBSET Flags
         /\ "ext" \notin Effect(h, code)
         /\ IsBreak(code) =>
              /\ "ctrl" \in Effect(h, code) <=> "ctrl" \in h /\ code - \h80 \notin Ctrls
              /\ "shift" \in Effect(h, code) <=> "shift" \in h /\ code - \h80 \notin Shifts
              /\ "alt" \in Effect(h, code) <=> "alt" \in h /\ code - \h80 \notin Alts
              /\ "caps" \in Effect(h, code) <=> "caps" \in h
         /\ ~IsBreak(code) /\ Known(code) /\ Low(code) \in Invisible =>
              /\ "ctrl" \in Effect(h, code) <=> "ctrl" \in h \/ Low(code) \in Ctrls
              /\ "shift" \in Effect(h, code) <=> "shift" \in h \/ Low(code) \in Shifts
              /\ "alt" \in Effect(h, code) <=> "alt" \in h \/ Low(code) \in Alts
              /\ "caps" \in Effect(h, code) <=> ~("caps" \in h <=> Low(code) = caps_lock_make)
         /\ ~IsBreak(code) /\ ~(Known(code) /\ Low(code) \in Invisible) =>
              \A f \in Flags \ {"ext"} : f \in Effect(h, code) <=> f \in h
<1>1. \A f \in {"ctrl", "shift", "alt", "caps"} : f \in Flags \ {"ext"}
  BY DEF Flags
<1>2. /\ IsOf("ctrl", code - \h80) <=> code - \h80 \in Ctrls
      /\ IsOf("shift", code - \h80) <=> code - \h80 \in Shifts
      /\ IsOf("alt", code - \h80) <=> code - \h80 \in Alts
      /\ ~IsOf("caps", code - \h80)
  BY DEF IsOf
<1>3. /\ IsOf("ctrl", Low(code)) <=> Low(code) \in Ctrls
      /\ IsOf("shift", Low(code)) <=> Low(code) \in Shifts
      /\ IsOf("alt", Low(code)) <=> Low(code) \in Alts
  BY DEF IsOf
<1> QED
  BY <1>1, <1>2, <1>3 DEF Effect

(* The handler turns one set of flags into the next. *)
LEMMA HandlerTurns ==
  ASSUME KeyboardTypeOK, wire # <<>>, intr_keyboard_handler
  PROVE  Now' = After(Now, Head(wire).byte)
<1>1. PICK b : b = Head(wire).byte
  OBVIOUS
<1>2. PICK code : code = IF ext_scancode THEN \he000 + b ELSE b
  OBVIOUS
<1>3. Code(Now, b) = code
  BY <1>2, NowIs DEF Code
<1>4. /\ Now' \in SUBSET Flags
      /\ "ctrl" \in Now' <=> ctrl_status'
      /\ "shift" \in Now' <=> shift_status'
      /\ "alt" \in Now' <=> alt_status'
      /\ "caps" \in Now' <=> caps_lock_status'
      /\ "ext" \in Now' <=> ext_scancode'
  BY DEF Now, Flags
<1>5. CASE b = \he0
  <2>1. ext_scancode' /\ UNCHANGED <<ctrl_status, shift_status, alt_status, caps_lock_status>>
    <3>1. ext_scancode' = TRUE
      BY <1>1, <1>5 DEF intr_keyboard_handler
    <3>2. UNCHANGED <<ctrl_status, shift_status, alt_status, caps_lock_status>>
      BY <1>1, <1>5 DEF intr_keyboard_handler
    <3> QED
      BY <3>1, <3>2, Zenon
  <2>2. After(Now, b) = Now \cup {"ext"} /\ Now \cup {"ext"} \in SUBSET Flags
    BY <1>5, NowIs DEF After, Flags
  <2>3. Now' = Now \cup {"ext"}
    BY <1>4, <2>1, <2>2, NowIs, FlagsEqual
  <2> QED
    BY <1>1, <2>2, <2>3
<1>6. CASE b # \he0
  <2>1. ext_scancode' = FALSE
    BY <1>1, <1>6 DEF intr_keyboard_handler
  <2>2. PICK g : g = After(Now, b) /\ g = Effect(Now, code)
    BY <1>3, <1>6 DEF After
  <2>3. CASE IsBreak(code)
    <3>1. /\ caps_lock_status' = caps_lock_status
          /\ ctrl_status' = (ctrl_status /\ code - \h80 \notin Ctrls)
          /\ shift_status' = (shift_status /\ code - \h80 \notin Shifts)
          /\ alt_status' = (alt_status /\ code - \h80 \notin Alts)
      BY <1>1, <1>2, <1>6, <2>3 DEF intr_keyboard_handler, scancode, break_code
    <3>2. /\ caps_lock_status' <=> caps_lock_status
          /\ ctrl_status' <=> (ctrl_status /\ code - \h80 \notin Ctrls)
          /\ shift_status' <=> (shift_status /\ code - \h80 \notin Shifts)
          /\ alt_status' <=> (alt_status /\ code - \h80 \notin Alts)
      BY <3>1, Zenon
    <3> QED
      BY <1>1, <1>4, <2>1, <2>2, <2>3, <3>2, NowIs, EffectIs, FlagsEqual
  <2>4. CASE ~IsBreak(code) /\ Known(code) /\ Low(code) \in Invisible
    <3>1. /\ caps_lock_status' = (caps_lock_status # (Low(code) = caps_lock_make))
          /\ ctrl_status' = (ctrl_status \/ Low(code) \in Ctrls)
          /\ shift_status' = (shift_status \/ Low(code) \in Shifts)
          /\ alt_status' = (alt_status \/ Low(code) \in Alts)
      BY <1>1, <1>2, <1>6, <2>4 DEF intr_keyboard_handler, scancode, make_modifier, Known
    <3>2. /\ ctrl_status' <=> (ctrl_status \/ Low(code) \in Ctrls)
          /\ shift_status' <=> (shift_status \/ Low(code) \in Shifts)
          /\ alt_status' <=> (alt_status \/ Low(code) \in Alts)
      BY <3>1, Zenon
    <3>3. caps_lock_status' <=> ~(caps_lock_status <=> Low(code) = caps_lock_make)
      <4>1. CASE caps_lock_status = TRUE
        BY <3>1, <4>1, Zenon
      <4>2. CASE caps_lock_status = FALSE
        BY <3>1, <4>2, Zenon
      <4> QED
        BY <4>1, <4>2, Zenon DEF KeyboardTypeOK
    <3> QED
      BY <1>1, <1>4, <2>1, <2>2, <2>4, <3>2, <3>3, NowIs, EffectIs, FlagsEqual
  <2>5. CASE ~IsBreak(code) /\ ~(Known(code) /\ Low(code) \in Invisible)
    <3>1. UNCHANGED <<ctrl_status, shift_status, alt_status, caps_lock_status>>
      BY <1>1, <1>2, <1>6, <2>5 DEF intr_keyboard_handler, scancode, make_visible, Known
    <3> QED
      BY <1>1, <1>4, <2>1, <2>2, <2>5, <3>1, NowIs, EffectIs, FlagsEqual DEF Flags
  <2> QED
    BY <2>3, <2>4, <2>5
<1> QED
  BY <1>5, <1>6

(* What it types is what Fine compares. *)
LEMMA HandlerTypes ==
  ASSUME KeyboardTypeOK, wire # <<>>, intr_keyboard_handler, Fine(Now, Head(wire))
  PROVE  KeyboardTypeOK'
<1>1. PICK x : x = Head(wire) /\ x \in Bytes
  <2>1. Head(wire) \in Bytes
    BY DEF KeyboardTypeOK
  <2> QED
    BY <2>1
<1>w. wire' = Tail(wire) /\ Tail(wire) \in Seq(Bytes)
  BY DEF KeyboardTypeOK, intr_keyboard_handler
<1>2. PICK code : code = IF ext_scancode THEN \he000 + x.byte ELSE x.byte
  OBVIOUS
<1>3. Code(Now, x.byte) = code
  BY <1>2, NowIs DEF Code
<1>4. wire' \in Seq(Bytes) /\ UNCHANGED <<pressed, caps>>
  BY <1>w DEF intr_keyboard_handler
<1>5. CASE x.byte = \he0
  BY <1>1, <1>4, <1>5 DEF intr_keyboard_handler, KeyboardTypeOK
<1>6. CASE x.byte # \he0 /\ IsBreak(code)
  <2>1. /\ UNCHANGED <<caps_lock_status, kbd_buf>>
        /\ shift_status' = (shift_status /\ code - \h80 \notin Shifts)
    BY <1>1, <1>2, <1>6 DEF intr_keyboard_handler, scancode, break_code
  <2>2. shift_status' \in BOOLEAN
    BY <2>1, Zenon
  <2> QED
    BY <1>4, <2>1, <2>2 DEF KeyboardTypeOK
<1>7. CASE x.byte # \he0 /\ ~IsBreak(code) /\ Known(code) /\ Low(code) \in Invisible
  <2>1. /\ caps_lock_status' = (caps_lock_status # (Low(code) = caps_lock_make))
        /\ shift_status' = (shift_status \/ Low(code) \in Shifts)
        /\ UNCHANGED kbd_buf
    BY <1>1, <1>2, <1>7 DEF intr_keyboard_handler, scancode, make_modifier, Known
  <2>2. shift_status' \in BOOLEAN /\ caps_lock_status' \in BOOLEAN
    BY <2>1, Zenon
  <2> QED
    BY <1>4, <2>1, <2>2 DEF KeyboardTypeOK
<1>8. CASE x.byte # \he0 /\ ~IsBreak(code) /\ Known(code) /\ Low(code) \notin Invisible
  <2>1. UNCHANGED <<shift_status, caps_lock_status>>
    BY <1>1, <1>2, <1>8 DEF intr_keyboard_handler, scancode, make_visible, Known
  <2>2. PICK s : s = shift(code)
    OBVIOUS
  <2>3. \/ kbd_buf' = kbd_buf
        \/ kbd_buf' = Append(kbd_buf, [char |-> keymap(Low(code), s), want |-> x.want])
    <3> HIDE DEF shift, keymap, Low
    <3> QED
      BY <1>1, <1>2, <1>8, <2>2 DEF intr_keyboard_handler, scancode, make_visible, Known
  <2>4. s = Shifted(Now, code)
    <3>1. "shift" \in Now <=> shift_status
      BY NowIs
    <3>2. "caps" \in Now <=> caps_lock_status
      BY NowIs
    <3>3. CASE ShiftOnly(code)
      BY <2>2, <3>1, <3>3, Zenon DEF shift, Shifted, KeyboardTypeOK
    <3>4. CASE ~ShiftOnly(code)
      <4>1. s = (shift_status # caps_lock_status)
        BY <2>2, <3>4, Zenon DEF shift
      <4>2. Shifted(Now, code) = ~("shift" \in Now <=> "caps" \in Now)
        BY <3>4, Zenon DEF Shifted
      <4>3. shift_status = TRUE \/ shift_status = FALSE
        BY Zenon DEF KeyboardTypeOK
      <4>4. caps_lock_status = TRUE \/ caps_lock_status = FALSE
        BY Zenon DEF KeyboardTypeOK
      <4> QED
        BY <3>1, <3>2, <4>1, <4>2, <4>3, <4>4, Zenon
    <3> QED
      BY <3>3, <3>4, Zenon
  <2>5. ASSUME NoMisprint PROVE keymap(Low(code), s) = x.want
    <3>1. Visible(code) /\ Types(Now, code, x.want)
      BY <1>1, <1>3, <1>8, <2>5, Zenon DEF Fine, Visible
    <3> QED
      BY <2>4, <3>1, Zenon DEF Types
  <2>6. [char |-> x.want, want |-> x.want] \in Right
    BY <1>1 DEF Right, Bytes
  <2>7. ASSUME NoMisprint PROVE kbd_buf' \in Seq(Right)
    <3>1. \/ kbd_buf' = kbd_buf
          \/ kbd_buf' = Append(kbd_buf, [char |-> x.want, want |-> x.want])
      BY <2>3, <2>5, <2>7, Zenon
    <3>2. PICK r : r = [char |-> x.want, want |-> x.want]
      OBVIOUS
    <3>3. r \in Right /\ (kbd_buf' = kbd_buf \/ kbd_buf' = Append(kbd_buf, r)) /\ kbd_buf \in Seq(Right)
      BY <2>6, <2>7, <3>1, <3>2, Zenon DEF KeyboardTypeOK
    <3> HIDE DEF Right
    <3> QED
      BY <3>3
  <2> QED
    BY <1>4, <2>1, <2>7 DEF KeyboardTypeOK
<1>9. CASE x.byte # \he0 /\ ~IsBreak(code) /\ ~Known(code)
  <2>1. UNCHANGED <<shift_status, caps_lock_status, kbd_buf>>
    BY <1>1, <1>2, <1>9 DEF intr_keyboard_handler, scancode, Known
  <2> QED
    BY <1>4, <2>1 DEF KeyboardTypeOK
<1> QED
  BY <1>5, <1>6, <1>7, <1>8, <1>9

(* The byte the handler has seen leaves the wire. *)
LEMMA HandlerSound == KeyboardInv /\ intr_keyboard_handler => KeyboardInv'
<1> SUFFICES ASSUME KeyboardInv, intr_keyboard_handler PROVE KeyboardInv'
  OBVIOUS
<1>1. PICK h : Follows(h)
  BY DEF KeyboardInv
<1>2. KeyboardTypeOK /\ wire # <<>> /\ wire' = Tail(wire) /\ UNCHANGED <<pressed, caps>>
  BY DEF KeyboardInv, intr_keyboard_handler
<1>3. h[1] = Now /\ Head(wire) = wire[1] /\ 1 \in 1 .. Len(wire)
  BY <1>1, <1>2 DEF Follows, Along, KeyboardTypeOK
<1>4. KeyboardTypeOK'
  BY <1>1, <1>2, <1>3, HandlerTypes DEF Follows, Along
<1>5. Now' = h[2]
  BY <1>1, <1>2, <1>3, HandlerTurns DEF Follows, Along
<1>6. HeldNow' = HeldNow
  BY <1>2 DEF HeldNow
<1>7. PICK g : g = Tail(h)
  OBVIOUS
<1>8. PICK n \in Nat : n = Len(wire) - 1 /\ Len(wire) = n + 1 /\ Len(wire') = n
                       /\ \A i \in 1 .. n : wire'[i] = wire[i + 1]
  BY <1>2 DEF KeyboardTypeOK
<1>9. /\ g \in Seq(SUBSET Flags) /\ Len(g) = n + 1 /\ Len(h) = n + 2
      /\ \A i \in 1 .. n + 1 : g[i] = h[i + 1]
  BY <1>1, <1>7, <1>8 DEF Follows, Along
<1>10. \A i \in 1 .. n : g[i + 1] = After(g[i], wire'[i].byte) /\ Fine(g[i], wire'[i])
  <2> SUFFICES ASSUME NEW i \in 1 .. n
               PROVE  g[i + 1] = After(g[i], wire'[i].byte) /\ Fine(g[i], wire'[i])
    OBVIOUS
  <2>1. i + 1 \in 1 .. Len(wire) /\ i \in 1 .. n + 1 /\ i + 1 \in 1 .. n + 1
    BY <1>8
  <2>2. g[i] = h[i + 1] /\ g[i + 1] = h[(i + 1) + 1]
    BY <1>9, <2>1
  <2>3. wire'[i] = wire[i + 1]
    BY <1>8
  <2> QED
    BY <1>1, <2>1, <2>2, <2>3 DEF Follows, Along
<1>11. g[1] = Now' /\ g[Len(g)] = HeldNow'
  BY <1>1, <1>5, <1>6, <1>9 DEF Follows, Along
<1>12. Follows(g)'
  BY <1>8, <1>9, <1>10, <1>11 DEF Follows, Along
<1> QED
  BY <1>4, <1>12 DEF KeyboardInv

(* A character leaves kbd_buf. *)
LEMMA GetcharSound == KeyboardInv /\ ioq_getchar => KeyboardInv'
<1> SUFFICES ASSUME KeyboardInv, ioq_getchar PROVE KeyboardInv'
  OBVIOUS
<1>1. ASSUME NoMisprint PROVE kbd_buf' \in Seq(Right)
  <2>1. kbd_buf \in Seq(Right) /\ kbd_buf # <<>> /\ kbd_buf' = Tail(kbd_buf)
    BY <1>1 DEF KeyboardInv, KeyboardTypeOK, ioq_getchar
  <2> HIDE DEF Right
  <2> QED
    BY <2>1
<1>2. KeyboardTypeOK'
  <2>1. UNCHANGED <<shift_status, caps_lock_status, caps, pressed, wire>>
    BY DEF ioq_getchar, hvars
  <2> QED
    BY <1>1, <2>1 DEF KeyboardInv, KeyboardTypeOK, NoMisprint
<1>3. Now' = Now /\ HeldNow' = HeldNow /\ wire' = wire
  BY DEF ioq_getchar, hvars, Now, HeldNow
<1>4. PICK h : Follows(h)
  BY DEF KeyboardInv
<1>5. Follows(h)'
  BY <1>3, <1>4 DEF Follows
<1> QED
  BY <1>2, <1>5 DEF KeyboardInv

-----------------------------------------------------------------------------

(* The codes of a key. *)
LEMMA KeyFacts ==
  ASSUME NEW k \in KeyCodes
  PROVE  /\ k \in Nat /\ Low(k) \in 1 .. \h7f /\ Low(k) # \h60 /\ Low(k + \h80) = Low(k) + \h80
         /\ k < \he000 => k = Low(k)
         /\ k >= \he000 => k = \he000 + Low(k)
         /\ ~IsBreak(k) /\ IsBreak(k + \h80)
         /\ k >= \he000 <=> k + \h80 >= \he000
<1>1. CASE k \in 1 .. \h7f /\ k # \h60
  BY <1>1 DEF Low, IsBreak
<1>2. CASE k \in \he001 .. \he07f /\ k # \he060
  BY <1>2 DEF Low, IsBreak
<1> QED
  BY <1>1, <1>2 DEF KeyCodes

(* A modifier is recognised without its prefix, and no other key is taken for one. *)
LEMMA ModifierFacts ==
  ASSUME NEW k \in KeyCodes
  PROVE  /\ Known(k) /\ Low(k) \in Invisible =>
              /\ k \in Ctrls <=> Low(k) \in Ctrls
              /\ k \in Shifts <=> Low(k) \in Shifts
              /\ k \in Alts <=> Low(k) \in Alts
              /\ k = caps_lock_make <=> Low(k) = caps_lock_make
         /\ ~(Known(k) /\ Low(k) \in Invisible) =>
              k \notin Ctrls /\ k \notin Shifts /\ k \notin Alts /\ k # caps_lock_make
<1>1. Invisible = {\h2a, \h36, \h38, \h1d, \h3a}
  BY DEF Invisible, Low, Shifts, Alts, Ctrls, shift_l_make, shift_r_make, alt_l_make, alt_r_make,
         ctrl_l_make, ctrl_r_make, caps_lock_make
<1> USE DEF Known, Shifts, Alts, Ctrls, shift_l_make, shift_r_make, alt_l_make, alt_r_make,
            ctrl_l_make, ctrl_r_make, caps_lock_make
<1>2. CASE k < \he000
  BY <1>1, <1>2, KeyFacts
<1>3. CASE k >= \he000
  BY <1>1, <1>3, KeyFacts
<1> QED
  BY <1>2, <1>3, KeyFacts

(* What a press of k types while the flags say what the keys say. *)
LEMMA CharFacts ==
  ASSUME NEW k \in KeyCodes, k # \h2f, KeyboardTypeOK
  PROVE  Types(HeldNow, k, Meant(k))
<1> SUFFICES ASSUME Visible(k)
             PROVE  keymap(Low(k), Shifted(HeldNow, k)) = Meant(k)
  BY DEF Types
<1>1. Invisible = {\h2a, \h36, \h38, \h1d, \h3a}
  BY DEF Invisible, Low, Shifts, Alts, Ctrls, shift_l_make, shift_r_make, alt_l_make, alt_r_make,
         ctrl_l_make, ctrl_r_make, caps_lock_make
<1>2. k \in 1 .. \h39 /\ k \notin Invisible /\ Low(k) = k
  BY <1>1, KeyFacts DEF Visible, Known, alt_r_make, ctrl_r_make
<1>3. keymap(k, Shifted(HeldNow, k)) =
        IF k \in SameInBoth THEN <<k, FALSE>> ELSE <<k, Shifted(HeldNow, k)>>
  BY <1>2 DEF keymap
<1>4. CASE k \in SameInBoth
  <2>1. k \notin Letters
    BY <1>4 DEF SameInBoth, Letters
  <2> QED
    BY <1>2, <1>3, <1>4, <2>1 DEF Meant
<1>5. CASE k \in Letters
  <2>1. k \notin SameInBoth /\ ~ShiftOnly(k)
    BY <1>5 DEF SameInBoth, Letters, ShiftOnly
  <2>2. Shifted(HeldNow, k) = ((pressed \cap Shifts # {}) # caps)
    <3>1. Shifted(HeldNow, k) = ~("shift" \in HeldNow <=> "caps" \in HeldNow)
      BY <2>1, Zenon DEF Shifted
    <3>2. "shift" \in HeldNow <=> pressed \cap Shifts # {}
      BY HeldIs
    <3>3. "caps" \in HeldNow <=> caps
      BY HeldIs
    <3>4. caps = TRUE \/ caps = FALSE
      BY Zenon DEF KeyboardTypeOK
    <3>5. (pressed \cap Shifts # {}) = TRUE \/ (pressed \cap Shifts # {}) = FALSE
      BY Zenon
    <3> QED
      BY <3>1, <3>2, <3>3, <3>4, <3>5, Zenon
  <2>3. Meant(k) = <<k, (pressed \cap Shifts # {}) # caps>>
    BY <1>5, Zenon DEF Meant
  <2> QED
    BY <1>2, <1>3, <2>1, <2>2, <2>3, Zenon
<1>6. CASE k \notin SameInBoth /\ k \notin Letters
  <2>1. ShiftOnly(k)
    BY <1>1, <1>2, <1>6 DEF SameInBoth, Letters, ShiftOnly
  <2>2. Shifted(HeldNow, k) = (k \notin SameInBoth /\ pressed \cap Shifts # {})
    <3>1. Shifted(HeldNow, k) = ("shift" \in HeldNow)
      BY <2>1, Zenon DEF Shifted
    <3>2. "shift" \in HeldNow <=> pressed \cap Shifts # {}
      BY HeldIs
    <3>3. ("shift" \in HeldNow) = (pressed \cap Shifts # {})
      BY <3>2
    <3>4. (k \notin SameInBoth /\ pressed \cap Shifts # {}) = (pressed \cap Shifts # {})
      BY <1>6
    <3> QED
      BY <3>1, <3>3, <3>4, Zenon
  <2>3. Meant(k) = <<k, k \notin SameInBoth /\ pressed \cap Shifts # {}>>
    BY <1>6, Zenon DEF Meant
  <2> QED
    BY <1>2, <1>3, <1>6, <2>2, <2>3, Zenon
<1> QED
  BY <1>4, <1>5, <1>6

-----------------------------------------------------------------------------

(* A sequence with one element more. *)
LEMMA AppendIs ==
  ASSUME NEW S, NEW s \in Seq(S), NEW x \in S, NEW n \in Nat, Len(s) = n
  PROVE  /\ Append(s, x) \in Seq(S) /\ Len(Append(s, x)) = n + 1
         /\ Append(s, x)[n + 1] = x /\ \A i \in 1 .. n : Append(s, x)[i] = s[i]
         /\ s \o <<x>> = Append(s, x) /\ (s \o <<>>) \o <<x>> = Append(s, x)
<1>1. s \o <<>> = s
  OBVIOUS
<1>2. s \o <<x>> = Append(s, x)
  OBVIOUS
<1> QED
  BY <1>1, <1>2

(* One byte more on the wire. *)
LEMMA AlongAppend ==
  ASSUME NEW h, NEW w \in Seq(Bytes), Along(h, w),
         NEW b \in Bytes, Fine(h[Len(h)], b)
  PROVE  \E g : Along(g, Append(w, b)) /\ g[1] = h[1] /\ g[Len(g)] = After(h[Len(h)], b.byte)
<1>1. PICK a : a = After(h[Len(h)], b.byte)
  OBVIOUS
<1>2. a \in SUBSET Flags
  <2>1. h[Len(h)] \in SUBSET Flags
    BY DEF Along
  <2>2. After(h[Len(h)], b.byte) \in SUBSET Flags
    BY <2>1, EffectIs DEF After, Flags
  <2> QED
    BY <1>1, <2>2
<1>3. PICK n \in Nat : Len(w) = n /\ Len(h) = n + 1 /\ n + 1 \in Nat
  BY DEF Along
<1>4. PICK v : v = Append(w, b)
  OBVIOUS
<1>v. Len(v) = n + 1 /\ v[n + 1] = b /\ \A i \in 1 .. n : v[i] = w[i]
  BY <1>3, <1>4, AppendIs
<1>5. PICK g : g = Append(h, a)
  OBVIOUS
<1>g. g \in Seq(SUBSET Flags) /\ Len(g) = n + 2 /\ g[n + 2] = a /\ \A i \in 1 .. n + 1 : g[i] = h[i]
  <2>1. h \in Seq(SUBSET Flags) /\ (n + 1) + 1 = n + 2
    BY DEF Along
  <2>2. /\ Append(h, a) \in Seq(SUBSET Flags) /\ Len(Append(h, a)) = (n + 1) + 1
        /\ Append(h, a)[(n + 1) + 1] = a /\ \A i \in 1 .. n + 1 : Append(h, a)[i] = h[i]
    BY <1>2, <1>3, <2>1, AppendIs
  <2> QED
    BY <1>5, <2>1, <2>2
<1>6. \A i \in 1 .. n + 1 : g[i + 1] = After(g[i], v[i].byte) /\ Fine(g[i], v[i])
  <2> SUFFICES ASSUME NEW i \in 1 .. n + 1
               PROVE  g[i + 1] = After(g[i], v[i].byte) /\ Fine(g[i], v[i])
    OBVIOUS
  <2>1. CASE i \in 1 .. n
    <3>1. i + 1 \in 1 .. n + 1
      BY <2>1
    <3>2. g[i + 1] = h[i + 1] /\ g[i] = h[i] /\ v[i] = w[i]
      BY <1>v, <1>g, <2>1, <3>1
    <3> QED
      BY <1>3, <2>1, <3>2 DEF Along
  <2>2. CASE i = n + 1
    <3>1. g[i + 1] = a /\ g[i] = h[Len(h)] /\ v[i] = b
      BY <1>3, <1>v, <1>g, <2>2
    <3> QED
      BY <1>1, <3>1
  <2> QED
    BY <2>1, <2>2
<1>7. Along(g, v)
  BY <1>v, <1>g, <1>6 DEF Along
<1>8. g[1] = h[1] /\ g[Len(g)] = After(h[Len(h)], b.byte)
  BY <1>1, <1>g
<1> QED
  BY <1>4, <1>7, <1>8

(* The code of an event goes on the wire, with its prefix or without one. *)
LEMMA WireExtends ==
  ASSUME KeyboardInv, NEW k \in KeyCodes, NEW code \in {k, k + \h80}, NEW want \in Wanted,
         Send(code, want), UNCHANGED hvars, HeldNow' = Effect(HeldNow, code),
         NoMisprint => Types(HeldNow, code, want)
  PROVE  wire' \in Seq(Bytes) /\ (\E h : Follows(h))'
<1>1. PICK h : Along(h, wire) /\ h[1] = Now /\ h[Len(h)] = HeldNow
  BY DEF KeyboardInv, Follows
<1>3. wire \in Seq(Bytes) /\ Len(wire) \in Nat
  BY DEF KeyboardInv, KeyboardTypeOK
<1>4. code \in Nat /\ Low(code) \in Nat /\ Low(code) # \he0
      /\ (code < \he000 => code = Low(code)) /\ (code >= \he000 => code = \he000 + Low(code))
  <2>1. Low(k) \in 1 .. \h7f /\ Low(k) # \h60 /\ k \in Nat
    BY KeyFacts
  <2>2. CASE code = k
    BY <2>1, <2>2, KeyFacts
  <2>3. CASE code = k + \h80
    <3>1. k < \he000 \/ k >= \he000
      BY <2>1
    <3>2. CASE k < \he000
      <4>1. k = Low(k) /\ Low(k + \h80) = Low(k) + \h80
        BY <3>2, KeyFacts
      <4> QED
        BY <2>1, <2>3, <4>1
    <3>3. CASE k >= \he000
      <4>1. k = \he000 + Low(k) /\ Low(k + \h80) = Low(k) + \h80
        BY <3>3, KeyFacts
      <4> QED
        BY <2>1, <2>3, <4>1
    <3> QED
      BY <3>1, <3>2, <3>3
  <2> QED
    BY <2>2, <2>3
<1>5. PICK e : e = [byte |-> \he0, want |-> want]
  OBVIOUS
<1>6. PICK b : b = [byte |-> Low(code), want |-> want]
  OBVIOUS
<1>7. e \in Bytes /\ b \in Bytes /\ e.byte = \he0 /\ b.byte = Low(code) /\ b.want = want
  BY <1>4, <1>5, <1>6 DEF Bytes
<1>8. Now' = Now
  BY DEF hvars, Now
<1>9. CASE code < \he000
  <2>1. wire' = (wire \o <<>>) \o <<b>>
    <3>1. ~(code >= \he000)
      BY <1>4, <1>9
    <3> QED
      BY <1>6, <3>1 DEF Send
  <2>2. wire' = Append(wire, b) /\ wire' \in Seq(Bytes)
    BY <1>3, <1>7, <2>1, AppendIs
  <2>3. Code(HeldNow, b.byte) = code
    BY <1>4, <1>7, <1>9, HeldIs DEF Code
  <2>4. Fine(HeldNow, b)
    BY <1>7, <2>3 DEF Fine
  <2>5. After(HeldNow, b.byte) = HeldNow'
    BY <1>4, <1>7, <2>3 DEF After
  <2>7. PICK g : Along(g, wire') /\ g[1] = Now' /\ g[Len(g)] = HeldNow'
    BY <1>1, <1>3, <1>7, <1>8, <2>2, <2>4, <2>5, AlongAppend
  <2>8. Follows(g)'
    BY <2>7 DEF Follows, Along, Fine, NoMisprint, Types, Visible, Known
  <2> QED
    BY <2>2, <2>8
<1>10. CASE code >= \he000
  <2>1. wire' = (wire \o <<e>>) \o <<b>>
    BY <1>5, <1>6, <1>10 DEF Send
  <2>2. Append(wire, e) \in Seq(Bytes) /\ wire \o <<e>> = Append(wire, e) /\ Len(Append(wire, e)) \in Nat
    BY <1>3, <1>7, AppendIs
  <2>w. PICK w : w = Append(wire, e)
    OBVIOUS
  <2>3. wire' = Append(w, b) /\ wire' \in Seq(Bytes)
    BY <1>7, <2>1, <2>2, <2>w, AppendIs
  <2>4. PICK p : p = HeldNow \cup {"ext"}
    OBVIOUS
  <2>5. Fine(HeldNow, e) /\ After(HeldNow, e.byte) = p
    BY <1>7, <2>4 DEF Fine, After
  <2>7. PICK f : Along(f, w) /\ f[1] = Now /\ f[Len(f)] = p
    BY <1>1, <1>3, <1>7, <2>w, <2>5, AlongAppend
  <2>8. Code(p, b.byte) = code
    BY <1>4, <1>7, <1>10, <2>4 DEF Code
  <2>9. Types(p, code, want) <=> Types(HeldNow, code, want)
    <3>1. Shifted(p, code) = Shifted(HeldNow, code)
      BY <2>4 DEF Shifted
    <3> QED
      BY <3>1 DEF Types
  <2>10. Effect(p, code) = Effect(HeldNow, code)
    BY <2>4 DEF Effect
  <2>11. Fine(p, b)
    BY <1>7, <2>8, <2>9 DEF Fine
  <2>12. After(p, b.byte) = HeldNow'
    BY <1>4, <1>7, <2>8, <2>10 DEF After
  <2>13. /\ w \in Seq(Bytes) /\ b \in Bytes /\ Fine(f[Len(f)], b)
         /\ After(f[Len(f)], b.byte) = HeldNow' /\ f[1] = Now' /\ wire' = Append(w, b)
    BY <1>7, <1>8, <2>2, <2>w, <2>3, <2>7, <2>11, <2>12
  <2>14. PICK g : Along(g, wire') /\ g[1] = Now' /\ g[Len(g)] = HeldNow'
    BY <2>7, <2>13, AlongAppend
  <2>15. Follows(g)'
    BY <2>14 DEF Follows, Along, Fine, NoMisprint, Types, Visible, Known
  <2> QED
    BY <2>3, <2>15
<1> QED
  BY <1>4, <1>9, <1>10

(* A press changes what is held as its make code changes the flags. *)
LEMMA PressHeld ==
  ASSUME KeyboardTypeOK, NEW k \in KeyCodes,
         pressed' = pressed \cup {k}, caps' = (caps # (k = caps_lock_make))
  PROVE  HeldNow' = Effect(HeldNow, k) /\ caps' \in BOOLEAN
<1>1. /\ HeldNow' \in SUBSET Flags
      /\ "ctrl" \in HeldNow' <=> pressed' \cap Ctrls # {}
      /\ "shift" \in HeldNow' <=> pressed' \cap Shifts # {}
      /\ "alt" \in HeldNow' <=> pressed' \cap Alts # {}
      /\ "caps" \in HeldNow' <=> caps'
      /\ "ext" \notin HeldNow'
  BY DEF HeldNow, Flags
<1>2. /\ pressed' \cap Ctrls # {} <=> pressed \cap Ctrls # {} \/ k \in Ctrls
      /\ pressed' \cap Shifts # {} <=> pressed \cap Shifts # {} \/ k \in Shifts
      /\ pressed' \cap Alts # {} <=> pressed \cap Alts # {} \/ k \in Alts
  OBVIOUS
<1>3. caps' \in BOOLEAN /\ (caps' <=> ~(caps <=> k = caps_lock_make))
  <2>1. CASE caps = TRUE
    BY <2>1, Zenon
  <2>2. CASE caps = FALSE
    BY <2>2, Zenon
  <2> QED
    BY <2>1, <2>2, Zenon DEF KeyboardTypeOK
<1>4. ~IsBreak(k)
  BY KeyFacts
<1>5. PICK g : g = Effect(HeldNow, k)
  OBVIOUS
<1>6. g \in SUBSET Flags /\ "ext" \notin g
  BY <1>5, EffectIs
<1>7. CASE Known(k) /\ Low(k) \in Invisible
  <2>1. /\ "ctrl" \in g <=> "ctrl" \in HeldNow \/ Low(k) \in Ctrls
        /\ "shift" \in g <=> "shift" \in HeldNow \/ Low(k) \in Shifts
        /\ "alt" \in g <=> "alt" \in HeldNow \/ Low(k) \in Alts
        /\ "caps" \in g <=> ~("caps" \in HeldNow <=> Low(k) = caps_lock_make)
    BY <1>4, <1>5, <1>7, EffectIs
  <2>2. HeldNow' = g
    BY <1>1, <1>2, <1>3, <1>6, <1>7, <2>1, HeldIs, ModifierFacts, FlagsEqual
  <2> QED
    BY <1>3, <1>5, <2>2
<1>8. CASE ~(Known(k) /\ Low(k) \in Invisible)
  <2>1. \A f \in Flags \ {"ext"} : f \in g <=> f \in HeldNow
    BY <1>4, <1>5, <1>8, EffectIs
  <2>2. HeldNow' = g
    BY <1>1, <1>2, <1>3, <1>6, <1>8, <2>1, HeldIs, ModifierFacts, FlagsEqual DEF Flags
  <2> QED
    BY <1>3, <1>5, <2>2
<1> QED
  BY <1>7, <1>8

(* A repeated make code changes nothing that is held. *)
LEMMA HoldHeld ==
  ASSUME KeyboardTypeOK, NEW k \in KeyCodes \cap pressed, k # caps_lock_make
  PROVE  HeldNow = Effect(HeldNow, k)
<1>1. ~IsBreak(k)
  BY KeyFacts
<1>2. PICK g : g = Effect(HeldNow, k)
  OBVIOUS
<1>3. g \in SUBSET Flags /\ "ext" \notin g
  BY <1>2, EffectIs
<1>4. CASE Known(k) /\ Low(k) \in Invisible
  <2>1. /\ "ctrl" \in g <=> "ctrl" \in HeldNow \/ Low(k) \in Ctrls
        /\ "shift" \in g <=> "shift" \in HeldNow \/ Low(k) \in Shifts
        /\ "alt" \in g <=> "alt" \in HeldNow \/ Low(k) \in Alts
        /\ "caps" \in g <=> ~("caps" \in HeldNow <=> Low(k) = caps_lock_make)
    BY <1>1, <1>2, <1>4, EffectIs
  <2>2. /\ Low(k) \in Ctrls => "ctrl" \in HeldNow
        /\ Low(k) \in Shifts => "shift" \in HeldNow
        /\ Low(k) \in Alts => "alt" \in HeldNow
        /\ Low(k) # caps_lock_make
    BY <1>4, HeldIs, ModifierFacts
  <2>3. HeldNow = g
    BY <1>3, <2>1, <2>2, HeldIs, FlagsEqual
  <2> QED
    BY <1>2, <2>3
<1>5. CASE ~(Known(k) /\ Low(k) \in Invisible)
  <2>1. \A f \in Flags \ {"ext"} : f \in g <=> f \in HeldNow
    BY <1>1, <1>2, <1>5, EffectIs
  <2>2. HeldNow = g
    BY <1>3, <2>1, HeldIs, FlagsEqual DEF Flags
  <2> QED
    BY <1>2, <2>2
<1> QED
  BY <1>4, <1>5

(* A break clears what its key alone holds. *)
LEMMA LetGoHeld ==
  ASSUME KeyboardTypeOK, OneOfEach, NEW k \in KeyCodes \cap pressed,
         pressed' = pressed \ {k}, caps' = caps
  PROVE  HeldNow' = Effect(HeldNow, k + \h80)
<1>1. /\ HeldNow' \in SUBSET Flags
      /\ "ctrl" \in HeldNow' <=> pressed' \cap Ctrls # {}
      /\ "shift" \in HeldNow' <=> pressed' \cap Shifts # {}
      /\ "alt" \in HeldNow' <=> pressed' \cap Alts # {}
      /\ "caps" \in HeldNow' <=> caps'
      /\ "ext" \notin HeldNow'
  BY DEF HeldNow, Flags
<1>2. ASSUME NEW m \in {Shifts, Ctrls, Alts}
      PROVE  pressed' \cap m # {} <=> pressed \cap m # {} /\ k \notin m
  <2>1. \A j \in pressed \cap m : k \in m => j = k
    BY DEF OneOfEach
  <2> QED
    BY <2>1
<1>3. /\ pressed' \cap Ctrls # {} <=> pressed \cap Ctrls # {} /\ k \notin Ctrls
      /\ pressed' \cap Shifts # {} <=> pressed \cap Shifts # {} /\ k \notin Shifts
      /\ pressed' \cap Alts # {} <=> pressed \cap Alts # {} /\ k \notin Alts
  BY <1>2
<1>4. IsBreak(k + \h80) /\ (k + \h80) - \h80 = k
  BY KeyFacts
<1>5. PICK g : g = Effect(HeldNow, k + \h80)
  OBVIOUS
<1>6. /\ g \in SUBSET Flags /\ "ext" \notin g
      /\ "ctrl" \in g <=> "ctrl" \in HeldNow /\ k \notin Ctrls
      /\ "shift" \in g <=> "shift" \in HeldNow /\ k \notin Shifts
      /\ "alt" \in g <=> "alt" \in HeldNow /\ k \notin Alts
      /\ "caps" \in g <=> "caps" \in HeldNow
  BY <1>4, <1>5, EffectIs
<1>7. HeldNow' = g
  BY <1>1, <1>3, <1>6, HeldIs, FlagsEqual
<1> QED
  BY <1>5, <1>7

(* The type of what a press is meant to type. *)
LEMMA MeantWanted ==
  ASSUME NEW k \in KeyCodes, caps \in BOOLEAN
  PROVE  Meant(k) \in Wanted
<1>1. /\ ((pressed \cap Shifts # {}) # caps) \in BOOLEAN
      /\ (k \notin SameInBoth /\ pressed \cap Shifts # {}) \in BOOLEAN
  BY Zenon
<1>2. PICK c \in BOOLEAN : Meant(k) = <<k, c>>
  BY <1>1, Zenon DEF Meant
<1> QED
  BY <1>2 DEF Wanted

-----------------------------------------------------------------------------

(* The keys' events leave a wire the handler's flags can be followed along. *)
LEMMA PressSound == KeyboardInv /\ Press => KeyboardInv'
<1> SUFFICES ASSUME KeyboardInv, Press PROVE KeyboardInv'
  OBVIOUS
<1>1. PICK k \in Keys \ pressed :
        Send(k, Meant(k)) /\ pressed' = pressed \cup {k} /\ caps' = (caps # (k = caps_lock_make))
  BY DEF Press
<1>2. UNCHANGED <<hvars, kbd_buf>> /\ KeyboardTypeOK /\ k \in KeyCodes /\ caps \in BOOLEAN
  BY KeyboardAssumption DEF Press, KeyboardInv, KeyboardTypeOK
<1>3. HeldNow' = Effect(HeldNow, k) /\ caps' \in BOOLEAN
  BY <1>1, <1>2, PressHeld
<1>4. NoMisprint => Types(HeldNow, k, Meant(k))
  BY <1>1, <1>2, CharFacts DEF NoMisprint
<1>5. wire' \in Seq(Bytes) /\ (\E h : Follows(h))'
  BY <1>1, <1>2, <1>3, <1>4, MeantWanted, WireExtends
<1>6. KeyboardTypeOK'
  <2>1. UNCHANGED <<shift_status, caps_lock_status, kbd_buf>> /\ pressed' \subseteq Keys
    BY <1>1, <1>2 DEF hvars, KeyboardTypeOK
  <2> QED
    BY <1>2, <1>3, <1>5, <2>1 DEF KeyboardTypeOK, NoMisprint
<1> QED
  BY <1>5, <1>6 DEF KeyboardInv

LEMMA HoldSound == CapsOnce /\ KeyboardInv /\ Hold => KeyboardInv'
<1> SUFFICES ASSUME CapsOnce, KeyboardInv, Hold PROVE KeyboardInv'
  OBVIOUS
<1>1. PICK k \in Repeats \cap pressed : Send(k, Meant(k))
  BY DEF Hold
<1>2. /\ UNCHANGED <<hvars, kbd_buf, pressed, caps>> /\ KeyboardTypeOK /\ k \in KeyCodes \cap pressed
      /\ caps \in BOOLEAN /\ k \in Keys /\ k # caps_lock_make
  BY KeyboardAssumption DEF Hold, KeyboardInv, KeyboardTypeOK, CapsOnce
<1>3. HeldNow' = Effect(HeldNow, k)
  <2>1. HeldNow' = HeldNow
    BY <1>2 DEF HeldNow
  <2> QED
    BY <1>2, <2>1, HoldHeld
<1>4. NoMisprint => Types(HeldNow, k, Meant(k))
  BY <1>2, CharFacts DEF NoMisprint
<1>5. wire' \in Seq(Bytes) /\ (\E h : Follows(h))'
  BY <1>1, <1>2, <1>3, <1>4, MeantWanted, WireExtends
<1>6. KeyboardTypeOK'
  <2>1. UNCHANGED <<shift_status, caps_lock_status, kbd_buf, pressed, caps>>
    BY <1>2 DEF hvars
  <2> QED
    BY <1>2, <1>5, <2>1 DEF KeyboardTypeOK, NoMisprint
<1> QED
  BY <1>5, <1>6 DEF KeyboardInv

LEMMA LetGoSound == OneOfEach /\ KeyboardInv /\ LetGo => KeyboardInv'
<1> SUFFICES ASSUME OneOfEach, KeyboardInv, LetGo PROVE KeyboardInv'
  OBVIOUS
<1>1. PICK k \in pressed : Send(k + \h80, Meant(k)) /\ pressed' = pressed \ {k}
  BY DEF LetGo
<1>2. UNCHANGED <<hvars, kbd_buf, caps>> /\ KeyboardTypeOK /\ k \in KeyCodes \cap pressed /\ caps \in BOOLEAN
  BY KeyboardAssumption DEF LetGo, KeyboardInv, KeyboardTypeOK
<1>3. HeldNow' = Effect(HeldNow, k + \h80)
  BY <1>1, <1>2, LetGoHeld
<1>4. Types(HeldNow, k + \h80, Meant(k))
  BY <1>2, KeyFacts DEF Types, Visible
<1>5. wire' \in Seq(Bytes) /\ (\E h : Follows(h))'
  BY <1>1, <1>2, <1>3, <1>4, MeantWanted, WireExtends
<1>6. KeyboardTypeOK'
  <2>1. UNCHANGED <<shift_status, caps_lock_status, kbd_buf, caps>> /\ pressed' \subseteq Keys
    BY <1>1, <1>2 DEF hvars, KeyboardTypeOK
  <2> QED
    BY <1>2, <1>5, <2>1 DEF KeyboardTypeOK, NoMisprint
<1> QED
  BY <1>5, <1>6 DEF KeyboardInv

(* keyboard.c starts with nothing held and nothing on the wire. *)
LEMMA KeyboardInitSound == KeyboardInit => KeyboardInv
<1> SUFFICES ASSUME KeyboardInit PROVE KeyboardInv
  OBVIOUS
<1>1. KeyboardTypeOK
  <2>1. /\ kbd_buf = <<>> /\ wire = <<>> /\ pressed = {} /\ caps = FALSE
        /\ shift_status = FALSE /\ caps_lock_status = FALSE
    BY DEF KeyboardInit
  <2>2. <<>> \in Seq(Right) /\ <<>> \in Seq(Bytes)
    OBVIOUS
  <2>3. /\ shift_status \in BOOLEAN /\ caps_lock_status \in BOOLEAN /\ caps \in BOOLEAN
        /\ pressed \subseteq Keys
    BY <2>1
  <2> QED
    BY <2>1, <2>2, <2>3 DEF KeyboardTypeOK
<1>2. Now = {} /\ HeldNow = {}
  BY DEF KeyboardInit, Now, HeldNow
<1>3. PICK h : h = <<{}>>
  OBVIOUS
<1>4. h \in Seq(SUBSET Flags) /\ Len(h) = 1 /\ h[1] = {}
  BY <1>3
<1>5. wire = <<>> /\ Len(wire) = 0
  BY DEF KeyboardInit
<1>6. Follows(h)
  BY <1>2, <1>4, <1>5 DEF Follows, Along
<1> QED
  BY <1>1, <1>6 DEF KeyboardInv

LEMMA StutterSound == KeyboardInv /\ UNCHANGED kvars => KeyboardInv'
<1> SUFFICES ASSUME KeyboardInv, UNCHANGED kvars PROVE KeyboardInv'
  OBVIOUS
<1>1. KeyboardTypeOK'
  BY DEF KeyboardInv, KeyboardTypeOK, kvars, hvars, NoMisprint
<1>2. Now' = Now /\ HeldNow' = HeldNow /\ wire' = wire
  BY DEF kvars, hvars, Now, HeldNow
<1>3. PICK h : Follows(h)
  BY DEF KeyboardInv
<1>4. Follows(h)'
  BY <1>2, <1>3 DEF Follows
<1> QED
  BY <1>1, <1>4 DEF KeyboardInv

LEMMA StepSound == CapsOnce /\ OneOfEach /\ KeyboardInv /\ [KeyboardNext]_kvars => KeyboardInv'
BY HandlerSound, GetcharSound, PressSound, HoldSound, LetGoSound, StutterSound DEF KeyboardNext

(* The inductive invariant holds as long as no two keys of a kind are held. *)
LEMMA KeyboardInvHolds ==
  ASSUME CapsOnce
  PROVE  KeyboardSpec /\ []OneOfEach => []KeyboardInv
<1>1. OneOfEach /\ KeyboardInv /\ [KeyboardNext]_kvars => KeyboardInv'
  BY StepSound
<1> QED
  BY <1>1, KeyboardInitSound, PTL DEF KeyboardSpec

(* intr_keyboard_handler's five variables say which keys are held as soon  *)
(* as it has seen every byte, for any keyboard, any order of presses and   *)
(* releases and any delay of its interrupts, as long as the person does    *)
(* not hold two keys of one kind at once and caps lock does not repeat.    *)
THEOREM HandlerFollowsTheKeys ==
  ASSUME CapsOnce
  PROVE  KeyboardSpec /\ []OneOfEach => []ModifiersFollow
<1>1. KeyboardInv => ModifiersFollow
  <2> SUFFICES ASSUME KeyboardInv, wire = <<>>
               PROVE  /\ shift_status <=> pressed \cap Shifts # {}
                      /\ ctrl_status <=> pressed \cap Ctrls # {}
                      /\ alt_status <=> pressed \cap Alts # {}
                      /\ caps_lock_status = caps
    BY DEF ModifiersFollow
  <2>1. Now = HeldNow
    BY DEF KeyboardInv, Follows, Along
  <2>2. caps_lock_status <=> caps
    BY <2>1, NowIs, HeldIs
  <2>3. caps_lock_status = caps
    BY <2>2, Zenon DEF KeyboardInv, KeyboardTypeOK
  <2> QED
    BY <2>1, <2>3, NowIs, HeldIs
<1> QED
  BY <1>1, KeyboardInvHolds, PTL

(* Every character in kbd_buf is the one its key press was meant to type,  *)
(* however late the handler ran and whatever prefixes and modifiers came   *)
(* between: on a keyboard without v, whose row of keymap has a misprint.   *)
THEOREM TypesWhatWasMeant ==
  ASSUME CapsOnce, NoMisprint
  PROVE  KeyboardSpec /\ []OneOfEach => []TypedAsMeant
<1>1. KeyboardInv => TypedAsMeant
  <2> SUFFICES ASSUME KeyboardInv, NEW i \in DOMAIN kbd_buf
               PROVE  kbd_buf[i].char = kbd_buf[i].want
    BY DEF TypedAsMeant
  <2>1. kbd_buf[i] \in Right
    <3>1. kbd_buf \in Seq(Right)
      BY DEF KeyboardInv, KeyboardTypeOK
    <3> HIDE DEF Right
    <3> QED
      BY <3>1
  <2> QED
    BY <2>1 DEF Right
<1> QED
  BY <1>1, KeyboardInvHolds, PTL
=============================================================================
