------------------------------ MODULE Process ------------------------------
(***************************************************************************)
(* The scheduler with the address spaces of userprog/process.c: the page   *)
(* directory in a process's PCB, the directory the processor uses (cr3)    *)
(* and the kernel stack its interrupts from user mode switch to            *)
(* (tss.esp0).  process_activate changes both in every schedule().         *)
(***************************************************************************)
EXTENDS Scheduler

CONSTANTS
  Processes,  \* the threads that process_execute creates, thread_start the others
  KernelDir   \* the page directory at 0x100000, that of every kernel thread

ASSUME ProcessAssumption ==
  Processes \subseteq Threads \ {Main, Idle} /\ KernelDir \notin Threads

VARIABLES
  pgdir,  \* pgdir[t]: pcb->pgdir is not NULL, t has a directory of its own
  cr3,    \* whose directory is loaded
  esp0    \* whose kernel stack tss.esp0 points to

space == <<pgdir, cr3, esp0>>
pvars == <<vars, space>>

SpaceOK ==
  /\ pgdir \in [Threads -> BOOLEAN]
  /\ cr3 \in Threads \cup {KernelDir}
  /\ esp0 \in Threads \cup {KernelDir}

(* tss_init leaves esp0 0: no process has run yet. *)
ProcessInit ==
  /\ Init
  /\ pgdir = [t \in Threads |-> FALSE]
  /\ cr3 = KernelDir
  /\ esp0 = KernelDir

(* process_activate(t), with page_dir_activate and update_tss_esp: a       *)
(* kernel thread never enters the kernel from user mode and keeps esp0.    *)
process_activate_Lazy(t) ==  \* mutant: a kernel thread runs on in the last process's directory
  /\ cr3' = IF pgdir[t] THEN t ELSE cr3
  /\ esp0' = IF pgdir[t] THEN t ELSE esp0
  /\ UNCHANGED pgdir
process_activate(t) ==
  /\ cr3' = IF pgdir[t] THEN t ELSE KernelDir
  /\ esp0' = IF pgdir[t] THEN t ELSE esp0
  /\ UNCHANGED pgdir

(* Between init_thread and the list_appends process_execute gives the new  *)
(* PCB its directory; thread_start does not.                               *)
create_page_dir_Running ==  \* mutant: the directory goes to the running thread's PCB
  /\ At("made") /\ child[cur] \in Processes /\ ~pgdir[child[cur]]
  /\ pgdir' = [pgdir EXCEPT ![cur] = TRUE]
  /\ UNCHANGED <<vars, cr3, esp0>>
create_page_dir ==
  /\ At("made") /\ child[cur] \in Processes /\ ~pgdir[child[cur]]
  /\ pgdir' = [pgdir EXCEPT ![child[cur]] = TRUE]
  /\ UNCHANGED <<vars, cr3, esp0>>
list_process == process_execute /\ pgdir[child[cur]] /\ UNCHANGED space
list_thread  == thread_start /\ child[cur] \notin Processes /\ UNCHANGED space

(* The calls of schedule(). *)
block_switch == Block /\ process_activate(cur')
sleep_switch == ticks_to_sleep /\ pc' = pc /\ process_activate(cur')
idle_switch  == At("loop") /\ idle /\ process_activate(cur')
timer_switch == slice[cur] = 0 /\ TimerInterrupt /\ process_activate(cur')
SwitchStep   == block_switch \/ sleep_switch \/ idle_switch \/ timer_switch

(* The steps of the scheduler that do not call schedule(). *)
KeepStep ==
  /\ \/ IntrOff \/ IntrOn \/ Unblock \/ DeviceInterrupt
     \/ init_thread \/ thread_started \/ mtime_sleep
     \/ ticks_to_sleep /\ pc' # pc
     \/ At("wake") /\ idle
     \/ slice[cur] # 0 /\ TimerInterrupt
  /\ UNCHANGED space

ProcessNext == KeepStep \/ SwitchStep \/ create_page_dir \/ list_process \/ list_thread

(* As in Scheduler: a creator does not stop halfway. *)
ProcessSpec == ProcessInit /\ [][ProcessNext]_pvars
FairProcessSpec == ProcessSpec /\ Fairness

-----------------------------------------------------------------------------

(* schedule, process_activate, process_execute: whichever thread took the  *)
(* processor from which, it runs in its own address space, and a process   *)
(* finds the kernel stack of its own PCB when it is interrupted.           *)
SpaceFollows ==
  /\ cr3 = IF pgdir[cur] THEN cur ELSE KernelDir
  /\ pgdir[cur] => esp0 = cur

(* process.c:108, thread.c:104: the directory of a thread is settled when  *)
(* the thread can be scheduled, so that no later switch finds another one. *)
SpaceSettled ==
  [][\A t \in Threads : pgdir'[t] # pgdir[t] =>
       t # cur /\ ~elem_find(ready, t) /\ ~elem_find(all, t)]_pvars
=============================================================================
