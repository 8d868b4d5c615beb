------------------------------- MODULE Thread -------------------------------
(***************************************************************************)
(* The thread primitives of thread/thread.c and the clock handler of       *)
(* device/timer.c, as action operators on the state they share: the        *)
(* running thread, the PCB fields status and ticks, thread_ready_list and  *)
(* the interrupt flag.  The machine has one processor, so every operator   *)
(* acts for the running thread cur.  The body of a primitive runs between  *)
(* intr_disable and intr_set_status and is one step.                       *)
(*                                                                         *)
(* A failed ASSERT calls panic_spin, which stops the machine: panicked     *)
(* becomes TRUE and no action is enabled any more.                         *)
(***************************************************************************)
EXTENDS Naturals, Sequences, SequencesExt

CONSTANTS
  Threads,   \* the task_structs there can be
  Idle,      \* idle_thread
  Main,      \* main_thread
  Prio       \* the priority each is created with: its time slice in ticks

ASSUME ThreadAssumption ==
  /\ Idle \in Threads /\ Main \in Threads /\ Idle # Main
  /\ Prio \in [Threads -> Nat]

VARIABLES
  cur,       \* running_thread()
  status,    \* pcb->status; "NONE" before init_thread
  ready,     \* thread_ready_list
  slice,     \* pcb->ticks
  intr,      \* the IF flag of the processor
  saved,     \* the IF flag a thread will have when switch_to returns to it
  panicked,  \* an ASSERT failed
  pc         \* where each thread's code is between two atomic steps

tvars == <<cur, status, ready, slice, intr, saved, panicked>>

Blocked == {"BLOCKED", "WAITING", "HANGING"}
Status  == Blocked \cup {"NONE", "READY", "RUNNING"}

ThreadTypeOK ==
  /\ cur \in Threads
  /\ status \in [Threads -> Status]
  /\ ready \in Seq(Threads)
  /\ slice \in [Threads -> Nat]
  /\ intr \in BOOLEAN
  /\ saved \in [Threads -> BOOLEAN]
  /\ panicked \in BOOLEAN

(* thread_init: main runs with interrupts off, idle waits for its turn. *)
(* A new thread starts in kernel_thread, which enables interrupts.      *)
ThreadInit ==
  /\ cur = Main
  /\ status = [t \in Threads |-> CASE t = Main -> "RUNNING"
                                   [] t = Idle -> "READY"
                                   [] OTHER -> "NONE"]
  /\ ready = <<Idle>>
  /\ slice = Prio
  /\ intr = FALSE
  /\ saved = [t \in Threads |-> TRUE]
  /\ panicked = FALSE

elem_find(list, t) == t \in ToSet(list)

(* schedule(): a thread that is still RUNNING was preempted.  It goes to   *)
(* the tail of the ready list and gets a new slice.                        *)
ReadyAfter_Always(st) == Append(ready, cur)          \* mutant: no status test
ReadyAfter(st) == IF st[cur] = "RUNNING" THEN Append(ready, cur) ELSE ready

SliceAfter_Always(st) == [slice EXCEPT ![cur] = Prio[cur]]  \* mutant: no status test
SliceAfter(st) == IF st[cur] = "RUNNING" THEN [slice EXCEPT ![cur] = Prio[cur]] ELSE slice

(* schedule(), called when the status map is st and the flags to restore   *)
(* are sv.  failed: an ASSERT of the caller did not hold.  With an empty   *)
(* ready list idle_thread is unblocked, which puts it there.               *)
schedule(st, sv, failed) ==
  LET st1  == IF st[cur] = "RUNNING" THEN [st EXCEPT ![cur] = "READY"] ELSE st
      rd   == IF ReadyAfter(st) = <<>> THEN <<Idle>> ELSE ReadyAfter(st)
      next == Head(rd)
  IN  /\ panicked' = \/ failed
                     \/ st[cur] = "RUNNING" /\ elem_find(ready, cur)
                     \/ ReadyAfter(st) = <<>> /\ st1[Idle] \notin Blocked
      /\ slice'  = SliceAfter(st)
      /\ ready'  = Tail(rd)
      /\ status' = [st1 EXCEPT ![next] = "RUNNING"]
      /\ cur'    = next
      /\ saved'  = sv
      /\ intr'   = sv[next]

(* thread_block(stat): the flag found on entry is restored on return. *)
thread_block_Enables(stat, failed) ==  \* mutant: intr_enable instead of intr_set_status
  schedule([status EXCEPT ![cur] = stat], [saved EXCEPT ![cur] = TRUE],
           failed \/ stat \notin Blocked)
thread_block(stat, failed) ==
  schedule([status EXCEPT ![cur] = stat], [saved EXCEPT ![cur] = intr],
           failed \/ stat \notin Blocked)

(* thread_unblock(u): the thread goes to the FRONT of the ready list. *)
thread_unblock_NoStatus(u, failed) ==  \* mutant: the status is not set
  /\ panicked' = (failed \/ status[u] \notin Blocked \/ elem_find(ready, u))
  /\ ready' = <<u>> \o ready
  /\ UNCHANGED <<cur, status, slice, intr, saved>>
thread_unblock_NoPush(u, failed) ==    \* mutant: no list_push
  /\ panicked' = (failed \/ status[u] \notin Blocked \/ elem_find(ready, u))
  /\ status' = [status EXCEPT ![u] = "READY"]
  /\ UNCHANGED <<cur, ready, slice, intr, saved>>
thread_unblock_Enables(u, failed) ==   \* mutant: intr_enable instead of intr_set_status
  /\ panicked' = (failed \/ status[u] \notin Blocked \/ elem_find(ready, u))
  /\ ready' = <<u>> \o ready
  /\ status' = [status EXCEPT ![u] = "READY"]
  /\ intr' = TRUE
  /\ UNCHANGED <<cur, slice, saved>>
thread_unblock(u, failed) ==
  /\ panicked' = \/ failed
                 \/ status[u] \notin Blocked
                 \/ elem_find(ready, u)
  /\ ready'  = <<u>> \o ready
  /\ status' = [status EXCEPT ![u] = "READY"]
  /\ UNCHANGED <<cur, slice, intr, saved>>

(* thread_yield(): READY, but nothing puts the thread on the ready list. *)
thread_yield ==
  schedule([status EXCEPT ![cur] = "READY"], [saved EXCEPT ![cur] = intr],
           elem_find(ready, cur))

(* intr_timer_handler: taken only with interrupts on, which iret restores. *)
intr_timer_handler_NoTest ==  \* mutant: the slice is charged without the test for 0
  /\ intr
  /\ slice' = [slice EXCEPT ![cur] = @ - 1]
  /\ UNCHANGED <<cur, status, ready, intr, saved, panicked>>
intr_timer_handler ==
  /\ intr
  /\ IF slice[cur] = 0
     THEN schedule(status, [saved EXCEPT ![cur] = TRUE], FALSE)
     ELSE /\ slice' = [slice EXCEPT ![cur] = @ - 1]
          /\ UNCHANGED <<cur, status, ready, intr, saved, panicked>>

intr_disable == intr' = FALSE /\ UNCHANGED <<cur, status, ready, slice, saved, panicked>>
intr_enable  == intr' = TRUE  /\ UNCHANGED <<cur, status, ready, slice, saved, panicked>>

At(l)   == ~panicked /\ pc[cur] = l
Goto(l) == pc' = [pc EXCEPT ![cur] = l]

(* idle(): thread_block, then sti and hlt, for ever. *)
idle_block == At("loop") /\ thread_block("BLOCKED", FALSE) /\ Goto("wake")
idle_hlt   == At("wake") /\ intr_enable /\ Goto("hlt")
IdleStep   == idle_block \/ idle_hlt
IdlePC     == {"loop", "wake", "hlt"}

(* An interrupt ends a hlt. *)
LeaveHlt == IF pc[cur] = "hlt" THEN Goto("loop") ELSE UNCHANGED pc

TimerTick == ~panicked /\ intr_timer_handler /\ LeaveHlt

-----------------------------------------------------------------------------

(* No ASSERT of thread.c or sync.c fails: list nodes are never inserted    *)
(* twice, only blocked threads are woken, semaphores stay binary.          *)
NoPanic == ~panicked

(* thread.c's ready list: no thread twice, every thread on it READY, the   *)
(* running thread not on it, and one thread RUNNING, the one on the CPU.   *)
RunQueueSound ==
  /\ \A i, j \in DOMAIN ready : ready[i] = ready[j] => i = j
  /\ \A t \in Threads : elem_find(ready, t) => status[t] = "READY"
  /\ \A t \in Threads : status[t] = "RUNNING" <=> t = cur
=============================================================================
