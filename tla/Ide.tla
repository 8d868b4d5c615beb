-------------------------------- MODULE Ide --------------------------------
(***************************************************************************)
(* ide_read, ide_write and intr_hd_handler of device/ide.c on one channel  *)
(* with its disks: channel->lock, expecting_intr, the semaphore disk_done, *)
(* the task-file registers and the drive behind them.                      *)
(*                                                                         *)
(*   read:  lock select sector expect command down wait poll transfer      *)
(*   write: lock select sector expect command poll transfer down wait      *)
(*                                                                         *)
(* and then the release of the lock.  sec_cnt is one byte, so the loop of  *)
(* either function has one turn.  The drive (external) is the one of the   *)
(* emulator the kernel is built for: a write wants its data first and      *)
(* interrupts afterwards, a read interrupts when the first sector is there *)
(* and again while the others are fetched, and writing the command         *)
(* register or reading the status register takes a pending request back.   *)
(***************************************************************************)
EXTENDS Sync

CONSTANTS
  CLock,     \* channel->lock
  Disks,     \* the dev_no of the channel's disks
  MaxLba,    \* bound: the last sector of a disk
  Contents,  \* what a sector can hold
  Blank,     \* what the sectors hold at the start
  None,
  Callers,   \* the threads that use the disks
  Requests,  \* what they ask for
  Booting,   \* those that do so with interrupts off too, as main in init_all
  Slow       \* TRUE: the drive may be busy before it takes a write's data

Lbas    == 0 .. MaxLba
Sectors == Disks \X Lbas
Span(r) == {s \in Sectors : s[1] = r.dev /\ s[2] >= r.lba /\ s[2] < r.lba + r.cnt}
IsWrite(r) == r.data # None

(* None is neither a call nor data: the value of a variable that has none. *)
ASSUME IdeAssumption ==
  /\ Locks = {CLock}
  /\ Callers \subseteq Threads \ {Idle} /\ Booting \subseteq Callers
  /\ MaxLba \in Nat /\ Slow \in BOOLEAN /\ None \notin Contents /\ Blank \in Contents
  /\ None \notin [secs : SUBSET Sectors, data : Contents \cup {None}]
  /\ \A secs \in SUBSET Sectors : None \notin [secs -> Contents]
  /\ \A r \in Requests :
       /\ r \in [dev : Disks, lba : Lbas, cnt : Nat \ {0}, data : Contents \cup {None}]
       /\ r.lba + r.cnt <= MaxLba + 1

VARIABLES
  stage,      \* how far a thread is in its call
  req,        \* the arguments of the call
  buf,        \* what the call has moved from or to the caller's buffer
  expecting,  \* channel->expecting_intr
  done,       \* channel->disk_done.value
  dwaiters,   \* channel->disk_done.waiters
  reg,        \* the drive and sector registers
  drive,      \* what the selected drive is doing: its status and its command
  irq,        \* the interrupt request the PIC holds for the channel
  disk        \* the contents of the sectors

ivars == <<stage, req, buf, expecting, done, dwaiters, reg, drive, irq, disk>>
vars  == <<tvars, pc, svars, ivars>>

(* ide_init has initialised the channel. *)
Init ==
  /\ SystemUp
  /\ stage = [t \in Threads |-> "free"]
  /\ req = [t \in Threads |-> None] /\ buf = [t \in Threads |-> None]
  /\ expecting = FALSE /\ done = 0 /\ dwaiters = <<>>
  /\ \E d \in Disks : reg = [dev |-> d, lba |-> 0, cnt |-> 1]
  /\ drive = [st |-> "idle", op |-> "read", cmd |-> reg]
  /\ irq = FALSE
  /\ disk = [s \in Sectors |-> Blank]

(* The processor takes a pending request before the next instruction. *)
From(s, next) ==
  /\ At("out") /\ ~(intr /\ irq) /\ cur \in Callers
  /\ stage[cur] = s /\ stage' = [stage EXCEPT ![cur] = next]

(* Between two calls a caller may have interrupts off for a while, as main *)
(* has them while it is in init_all.                                        *)
InitAll(flag) ==
  /\ From("free", "free") /\ cur \in Booting
  /\ IF flag THEN intr_enable ELSE intr_disable
  /\ UNCHANGED <<pc, svars, req, buf, expecting, done, dwaiters, reg, drive, irq, disk>>

(* ide_read, ide_write up to lock_acquire. *)
Call ==
  /\ From("free", "select")
  /\ \E r \in Requests : req' = [req EXCEPT ![cur] = r]
  /\ lock_acquire(CLock)
  /\ UNCHANGED <<buf, expecting, done, dwaiters, reg, drive, irq, disk>>

select_disk ==
  /\ From("select", "sector")
  /\ reg' = [reg EXCEPT !.dev = req[cur].dev]
  /\ UNCHANGED <<tvars, pc, svars, req, buf, expecting, done, dwaiters, drive, irq, disk>>

select_sector_Master ==  \* mutant: the last register is written without BIT_DEV_DEV
  /\ From("sector", "expect")
  /\ reg' = [dev |-> 0, lba |-> req[cur].lba, cnt |-> req[cur].cnt]
  /\ UNCHANGED <<tvars, pc, svars, req, buf, expecting, done, dwaiters, drive, irq, disk>>
select_sector ==
  /\ From("sector", "expect")
  /\ reg' = [dev |-> req[cur].dev, lba |-> req[cur].lba, cnt |-> req[cur].cnt]
  /\ UNCHANGED <<tvars, pc, svars, req, buf, expecting, done, dwaiters, drive, irq, disk>>

(* cmd_out: expecting_intr, then the command register. *)
expect_Late ==  \* mutant: expecting_intr is left as it is
  /\ From("expect", "command")
  /\ UNCHANGED <<tvars, pc, svars, req, buf, expecting, done, dwaiters, reg, drive, irq, disk>>
expect ==
  /\ From("expect", "command")
  /\ expecting' = TRUE
  /\ UNCHANGED <<tvars, pc, svars, req, buf, done, dwaiters, reg, drive, irq, disk>>

cmd_out ==
  LET w == IsWrite(req[cur]) IN
  /\ From("command", IF w THEN "poll" ELSE "down")
  /\ drive' = [st  |-> IF w /\ ~Slow THEN "drq" ELSE "busy",
               op  |-> IF w THEN "write" ELSE "read", cmd |-> reg]
  /\ irq' = FALSE
  /\ UNCHANGED <<tvars, pc, svars, req, buf, expecting, done, dwaiters, reg, disk>>

(* The drive has found the sector, or is ready for the data. *)
Ready ==
  /\ ~panicked /\ drive.st = "busy"
  /\ drive' = [drive EXCEPT !.st = "drq"]
  /\ irq' = (drive.op = "read")
  /\ UNCHANGED <<tvars, pc, svars, stage, req, buf, expecting, done, dwaiters, reg, disk>>

(* sema_down(&disk_done): intr_disable, then the loop. *)
down ==
  /\ From("down", "wait")
  /\ old' = [old EXCEPT ![cur] = intr] /\ intr_disable
  /\ UNCHANGED <<pc, value, waiters, holder, repeat, lk,
                 req, buf, expecting, done, dwaiters, reg, drive, irq, disk>>

wait ==
  /\ \/ /\ done = 0 /\ From("wait", "wait")
        /\ thread_block("BLOCKED", elem_find(dwaiters, cur))
        /\ dwaiters' = Append(dwaiters, cur)
        /\ UNCHANGED done
     \/ /\ done # 0 /\ From("wait", IF IsWrite(req[cur]) THEN "release" ELSE "poll")
        /\ done' = done - 1 /\ panicked' = (done # 1)
        /\ intr' = old[cur]
        /\ UNCHANGED <<cur, status, ready, slice, saved, dwaiters>>
  /\ UNCHANGED <<pc, svars, req, buf, expecting, reg, drive, irq, disk>>

(* busy_wait reads the status register: BSY, DRQ, or neither, when the     *)
(* caller PANICs.  While BSY is set mtime_sleep yields, unless the clock    *)
(* ticks before it has compared; the drive answers within the 30000 turns. *)
busy_wait ==
  /\ \/ /\ drive.st = "busy" /\ From("poll", "poll")
        /\ thread_yield \/ (intr /\ UNCHANGED tvars)
     \/ /\ drive.st # "busy" /\ From("poll", "transfer")
        /\ panicked' = (drive.st # "drq")
        /\ UNCHANGED <<cur, status, ready, slice, intr, saved>>
  /\ irq' = FALSE
  /\ UNCHANGED <<pc, svars, req, buf, expecting, done, dwaiters, reg, drive, disk>>

(* read_from_sector and write_to_sector move what the drive was asked for. *)
transfer ==
  LET w == IsWrite(req[cur]) IN
  /\ From("transfer", IF w THEN "down" ELSE "release")
  /\ disk' = [s \in Sectors |-> IF drive.op = "write" /\ w /\ s \in Span(drive.cmd)
                                THEN req[cur].data ELSE disk[s]]
  /\ buf' = [buf EXCEPT ![cur] = [s \in Span(drive.cmd) |-> disk'[s]]]
  /\ drive' = [drive EXCEPT !.st = "idle"]
  /\ irq' = (irq \/ w \/ drive.cmd.cnt > 1)
  /\ UNCHANGED <<tvars, pc, svars, req, expecting, done, dwaiters, reg>>

Return ==
  /\ From("release", "free") /\ lock_release(CLock)
  /\ req' = [req EXCEPT ![cur] = None] /\ buf' = [buf EXCEPT ![cur] = None]
  /\ UNCHANGED <<expecting, done, dwaiters, reg, drive, irq, disk>>

intr_hd_handler_Always ==  \* mutant: expecting_intr is not looked at
  /\ ~panicked /\ intr /\ irq /\ irq' = FALSE
  /\ IF dwaiters = <<>>
     THEN /\ panicked' = (done # 0)
          /\ UNCHANGED <<cur, status, ready, slice, intr, saved, dwaiters>>
     ELSE thread_unblock(Head(dwaiters), done # 0) /\ dwaiters' = Tail(dwaiters)
  /\ done' = done + 1
  /\ LeaveHlt
  /\ UNCHANGED <<svars, stage, req, buf, expecting, reg, drive, disk>>
intr_hd_handler_Waited ==  \* mutant: no sema_up when nobody waits yet
  /\ ~panicked /\ intr /\ irq /\ irq' = FALSE
  /\ expecting' = FALSE
  /\ IF ~expecting \/ dwaiters = <<>> THEN UNCHANGED <<tvars, done, dwaiters>>
     ELSE /\ thread_unblock(Head(dwaiters), done # 0) /\ dwaiters' = Tail(dwaiters)
          /\ done' = done + 1
  /\ LeaveHlt
  /\ UNCHANGED <<svars, stage, req, buf, reg, drive, disk>>
intr_hd_handler ==
  /\ ~panicked /\ intr /\ irq /\ irq' = FALSE
  /\ expecting' = FALSE
  /\ IF ~expecting THEN UNCHANGED <<tvars, done, dwaiters>>
     ELSE /\ IF dwaiters = <<>>
             THEN /\ panicked' = (done # 0)
                  /\ UNCHANGED <<cur, status, ready, slice, intr, saved, dwaiters>>
             ELSE thread_unblock(Head(dwaiters), done # 0) /\ dwaiters' = Tail(dwaiters)
          /\ done' = done + 1
  /\ LeaveHlt
  /\ UNCHANGED <<svars, stage, req, buf, reg, drive, disk>>

Operate   == LockStep /\ UNCHANGED ivars
Interrupt == TimerTick /\ UNCHANGED <<svars, ivars>>
idle      == IdleStep /\ UNCHANGED <<svars, ivars>>

InCall ==
  \/ select_disk \/ select_sector \/ expect \/ cmd_out \/ down \/ wait
  \/ busy_wait \/ transfer \/ Return \/ Operate

Next == InitAll(FALSE) \/ InitAll(TRUE) \/ Call \/ InCall \/ Ready \/ intr_hd_handler \/ Interrupt \/ idle

Spec == Init /\ [][Next]_vars

(* Callers run their code, the drive answers, requests are delivered, the  *)
(* clock ticks, and interrupts do not stay off for ever outside a call.    *)
FairSpec ==
  /\ Spec
  /\ WF_vars(idle) /\ WF_vars(Ready) /\ SF_vars(intr_hd_handler) /\ SF_vars(Interrupt)
  /\ \A t \in Callers : SF_vars(cur = t /\ (InCall \/ InitAll(TRUE)))

-----------------------------------------------------------------------------

(* A call has taken effect once its data has been transferred.             *)
Took(t) == \/ stage[t] \in {"free", "release"}
           \/ IsWrite(req[t]) /\ stage[t] \in {"down", "wait"}
D == INSTANCE Disk WITH
       Threads <- Callers,
       call <- [t \in Callers |-> IF Took(t) THEN None
                                  ELSE [secs |-> Span(req[t]), data |-> req[t].data]],
       got  <- [t \in Callers |-> buf[t]]

(* ide_read and ide_write on one channel are atomic reads and writes of    *)
(* the sectors they were asked for, whichever disks and sectors the calls  *)
(* of other threads name and whichever interrupts are left over.           *)
ImplementsDisk == D!Spec

(* expecting_intr is set before the command and disk_done is counted, so a *)
(* thread asleep in sema_down has its interrupt still to come.             *)
CompletionNotLost ==
  \A t \in Callers : stage[t] = "wait" /\ status[t] = "BLOCKED" =>
    expecting /\ (irq \/ (drive.st = "busy" /\ drive.op = "read"))

(* A call that has the channel gives it back, unless it met a busy drive:  *)
(* it slept in busy_wait and the scheduler lost it.  (A call that waits for *)
(* the channel can be overtaken for ever by callers that always come back.) *)
SleptOnBusy(t) == stage[t] = "poll" /\ status[t] = "READY" /\ ~elem_find(ready, t)
ChannelReleased ==
  \A t \in Callers : holder[CLock] = t ~> holder[CLock] # t \/ SleptOnBusy(t)
=============================================================================
