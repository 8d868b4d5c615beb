----------------------------- MODULE Scheduler -----------------------------
(***************************************************************************)
(* The kernel's threads under the scheduler of thread/thread.c, driven by  *)
(* a most general client: a thread may at any point switch interrupts off  *)
(* and on, block itself, wake a blocked thread, create a thread or a       *)
(* process, or sleep.  Clock and device interrupts arrive between any two  *)
(* steps while interrupts are on.                                          *)
(***************************************************************************)
EXTENDS Thread

CONSTANTS
  BlockStats,  \* the status values clients pass to thread_block
  Sleepers,    \* the threads that may call mtime_sleep
  SleepTicks,  \* how long they sleep
  TickMod      \* the width of the tick counter, 2^32 in the code

ASSUME SchedulerAssumption ==
  /\ BlockStats \subseteq Blocked
  /\ Sleepers \subseteq Threads \ {Idle}
  /\ SleepTicks \in Nat /\ TickMod \in Nat /\ 0 < SleepTicks /\ SleepTicks < TickMod

VARIABLES
  all,    \* thread_all_list
  ticks,  \* the clock of timer.c
  off,    \* off[t]: t is between its intr_disable and its intr_enable
  child,  \* the thread t is creating
  start   \* start_tick of ticks_to_sleep

cvars == <<all, ticks, off, child, start>>
vars  == <<tvars, pc, cvars>>

PC == {"run", "made", "listed", "sleep"} \cup IdlePC

TypeOK ==
  /\ ThreadTypeOK
  /\ all \in Seq(Threads)
  /\ ticks \in 0 .. TickMod - 1
  /\ pc \in [Threads -> PC]
  /\ off \in [Threads -> BOOLEAN]
  /\ child \in [Threads -> Threads]
  /\ start \in [Threads -> 0 .. TickMod - 1]

Init ==
  /\ ThreadInit
  /\ all = <<Main, Idle>>
  /\ ticks = 0
  /\ pc = [t \in Threads |-> IF t = Idle THEN "loop" ELSE "run"]
  /\ off = [t \in Threads |-> t = Main]
  /\ child = [t \in Threads |-> t]
  /\ start = [t \in Threads |-> 0]

IntrOff ==
  /\ At("run") /\ ~off[cur]
  /\ off' = [off EXCEPT ![cur] = TRUE]
  /\ intr_disable
  /\ UNCHANGED <<all, ticks, pc, child, start>>

IntrOn ==
  /\ At("run") /\ off[cur]
  /\ off' = [off EXCEPT ![cur] = FALSE]
  /\ intr_enable
  /\ UNCHANGED <<all, ticks, pc, child, start>>

Block ==
  /\ At("run")
  /\ \E stat \in BlockStats : thread_block(stat, FALSE)
  /\ UNCHANGED <<pc, cvars>>

(* Only schedule() wakes idle_thread. *)
Unblock ==
  /\ At("run")
  /\ \E u \in Threads \ {Idle} : status[u] \in Blocked /\ thread_unblock(u, FALSE)
  /\ UNCHANGED <<pc, cvars>>

(* init_thread: the new PCB is READY before it is on any list. *)
init_thread ==
  /\ At("run")
  /\ \E c \in Threads :
       /\ status[c] = "NONE"
       /\ status' = [status EXCEPT ![c] = "READY"]
       /\ slice' = [slice EXCEPT ![c] = Prio[c]]
       /\ child' = [child EXCEPT ![cur] = c]
  /\ Goto("made")
  /\ UNCHANGED <<cur, ready, intr, saved, panicked, all, ticks, off, start>>

(* thread_start, first list_append: from here on the child may run. *)
thread_start ==
  /\ At("made")
  /\ panicked' = elem_find(ready, child[cur])
  /\ ready' = Append(ready, child[cur])
  /\ Goto("listed")
  /\ UNCHANGED <<cur, status, slice, intr, saved, all, ticks, off, child, start>>

(* thread_start, second list_append. *)
thread_started ==
  /\ At("listed")
  /\ panicked' = elem_find(all, child[cur])
  /\ all' = Append(all, child[cur])
  /\ Goto("run")
  /\ UNCHANGED <<cur, status, ready, slice, intr, saved, ticks, off, child, start>>

(* process_execute appends to both lists with interrupts off. *)
process_execute_OneList ==  \* mutant: thread_all_list is forgotten
  /\ At("made")
  /\ panicked' = elem_find(ready, child[cur])
  /\ ready' = Append(ready, child[cur])
  /\ Goto("run")
  /\ UNCHANGED <<cur, status, slice, intr, saved, all, ticks, off, child, start>>
process_execute ==
  /\ At("made")
  /\ panicked' = (elem_find(ready, child[cur]) \/ elem_find(all, child[cur]))
  /\ ready' = Append(ready, child[cur])
  /\ all' = Append(all, child[cur])
  /\ Goto("run")
  /\ UNCHANGED <<cur, status, slice, intr, saved, ticks, off, child, start>>

mtime_sleep ==
  /\ At("run") /\ cur \in Sleepers
  /\ start' = [start EXCEPT ![cur] = ticks]
  /\ Goto("sleep")
  /\ UNCHANGED <<tvars, all, ticks, off, child>>

(* One turn of the loop of ticks_to_sleep. *)
ticks_to_sleep ==
  /\ At("sleep")
  /\ IF (ticks + TickMod - start[cur]) % TickMod < SleepTicks
     THEN thread_yield /\ UNCHANGED pc
     ELSE Goto("run") /\ UNCHANGED tvars
  /\ UNCHANGED <<all, ticks, off, child, start>>

idle == IdleStep /\ UNCHANGED cvars

TimerInterrupt ==
  /\ TimerTick
  /\ ticks' = (ticks + 1) % TickMod
  /\ UNCHANGED <<all, off, child, start>>

(* A device handler wakes the thread that waits for the device, if any. *)
DeviceInterrupt ==
  /\ ~panicked /\ intr
  /\ \/ \E u \in Threads \ {Idle} : status[u] \in Blocked /\ thread_unblock(u, FALSE)
     \/ pc[cur] = "hlt" /\ UNCHANGED tvars
  /\ LeaveHlt
  /\ UNCHANGED <<all, ticks, off, child, start>>

CreateStep == init_thread \/ thread_start \/ thread_started \/ process_execute
SleepStep  == mtime_sleep \/ ticks_to_sleep

Next ==
  \/ IntrOff \/ IntrOn \/ Block \/ Unblock
  \/ CreateStep \/ SleepStep \/ idle
  \/ TimerInterrupt \/ DeviceInterrupt

(* The processor executes a started kernel function to its end, every      *)
(* interrupts-off region ends, and the clock goes on ticking.              *)
Fairness ==
  /\ WF_vars(thread_start \/ thread_started \/ process_execute)
  /\ WF_vars(ticks_to_sleep)
  /\ WF_vars(idle)
  /\ SF_vars(IntrOn)
  /\ SF_vars(TimerInterrupt)

Spec     == Init /\ [][Next]_vars
FairSpec == Spec /\ Fairness

-----------------------------------------------------------------------------

(* thread_start, process_execute, thread_yield: a READY thread is on the   *)
(* ready list, unless its creator has not reached list_append yet, or it   *)
(* called thread_yield (see SleepReturns).                                 *)
Created(t) == \E p \in Threads : pc[p] = "made" /\ child[p] = t
NoThreadLost ==
  \A t \in Threads : status[t] = "READY" =>
    elem_find(ready, t) \/ Created(t) \/ pc[t] = "sleep"

(* intr_disable/intr_set_status, thread_block, switch_to, iret: whichever  *)
(* way a thread lost the processor, it finds the interrupt flag as its own *)
(* last intr_disable or intr_enable left it.                               *)
InterruptFlagRestored == intr = ~off[cur]

(* thread_all_list holds every initialised thread once, except the child   *)
(* of a creator that is still inside thread_start or process_execute.      *)
AllListComplete ==
  /\ \A i, j \in DOMAIN all : all[i] = all[j] => i = j
  /\ \A t \in Threads :
       elem_find(all, t) <=>
         /\ status[t] # "NONE"
         /\ ~ \E p \in Threads : pc[p] \in {"made", "listed"} /\ child[p] = t

(* schedule, intr_timer_handler: a thread that switched interrupts off     *)
(* loses the processor only by blocking or yielding itself.                *)
CriticalRegionNotPreempted ==
  [][cur' # cur /\ off[cur] => status'[cur] # "READY" \/ pc[cur] = "sleep"]_vars

(* thread_unblock pushes to the front and schedule resets a slice only on  *)
(* preemption; still every thread on the ready list gets the processor.    *)
ReadyRuns == \A t \in Threads : elem_find(ready, t) ~> cur = t

(* timer.c:61 "让当前线程休眠sleep_ticks次中断", then the loop decides       *)
(* "是继续休眠还是结束休眠": a sleep ends.                                    *)
SleepReturns == \A t \in Threads : pc[t] = "sleep" ~> pc[t] = "run"
=============================================================================
