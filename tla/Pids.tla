-------------------------------- MODULE Pids --------------------------------
(***************************************************************************)
(* allocate_pid of thread/thread.c among the other users of the locks:     *)
(* next_pid++ is a load and a store under pid_lock, and the value a call   *)
(* returns is read again after lock_release.                               *)
(***************************************************************************)
EXTENDS Locking

CONSTANTS
  PidLock,  \* pid_lock
  Callers,  \* the threads that create threads
  Users     \* the threads that use the locks for something else

ASSUME PidsAssumption ==
  PidLock \in Locks /\ Callers \subseteq Threads \ {Idle} /\ Users \subseteq Threads \ {Idle}

VARIABLES
  next_pid,  \* the static of allocate_pid
  step,      \* where a thread is in allocate_pid, "none" outside of it
  reg,       \* the value of next_pid a thread has loaded
  given,     \* every pid returned so far
  before     \* before[t]: the pids that had been returned when t's call began

kvars == <<next_pid, step, reg, given, before>>
avars == <<vars, kvars>>

PidsInit ==
  /\ Init
  /\ lk = [t \in Threads |-> PidLock]
  /\ next_pid = 0
  /\ step = [t \in Threads |-> "none"]
  /\ reg = [t \in Threads |-> 0]
  /\ given = {}
  /\ before = [t \in Threads |-> {}]

(* The thread is inside allocate_pid and not inside lock_acquire or        *)
(* lock_release.                                                           *)
InCall(s) == At("out") /\ step[cur] = s
StepTo(s) == step' = [step EXCEPT ![cur] = s]

call_Early ==  \* mutant: next_pid is loaded before pid_lock is taken
  /\ InCall("none") /\ cur \in Callers /\ Held = {}
  /\ rounds[cur] > 0 /\ rounds' = [rounds EXCEPT ![cur] = @ - 1]
  /\ lock_acquire(PidLock)
  /\ reg' = [reg EXCEPT ![cur] = next_pid]
  /\ StepTo("store")
  /\ before' = [before EXCEPT ![cur] = given]
  /\ UNCHANGED <<next_pid, given>>
call ==
  /\ InCall("none") /\ cur \in Callers /\ Held = {}
  /\ rounds[cur] > 0 /\ rounds' = [rounds EXCEPT ![cur] = @ - 1]
  /\ lock_acquire(PidLock)
  /\ StepTo("load")
  /\ before' = [before EXCEPT ![cur] = given]
  /\ UNCHANGED <<next_pid, reg, given>>

load ==
  /\ InCall("load")
  /\ reg' = [reg EXCEPT ![cur] = next_pid]
  /\ StepTo("store")
  /\ UNCHANGED <<vars, next_pid, given, before>>

store ==
  /\ InCall("store")
  /\ next_pid' = reg[cur] + 1
  /\ reg' = [reg EXCEPT ![cur] = 0]
  /\ StepTo("unlock")
  /\ UNCHANGED <<vars, given, before>>

unlock ==
  /\ InCall("unlock")
  /\ lock_release(PidLock)
  /\ StepTo("return")
  /\ UNCHANGED <<rounds, next_pid, reg, given, before>>

return ==
  /\ InCall("return")
  /\ given' = given \cup {next_pid}
  /\ before' = [before EXCEPT ![cur] = {}]
  /\ StepTo("none")
  /\ UNCHANGED <<vars, next_pid, reg>>

allocate_pid == call \/ load \/ store \/ unlock \/ return

(* The other users of the locks, outside allocate_pid. *)
OtherUse ==
  cur \in Users /\ step[cur] = "none" /\ (Acquire \/ Release) /\ UNCHANGED kvars

Machine == (Operate \/ Interrupt \/ idle) /\ UNCHANGED kvars

PidsNext == allocate_pid \/ OtherUse \/ Machine

PidsSpec == PidsInit /\ [][PidsNext]_avars

(* A thread that gets the processor again and again makes progress, the    *)
(* owner of a lock releases it in the end, and the clock goes on ticking.  *)
Progress ==
  \/ allocate_pid
  \/ Operate /\ UNCHANGED kvars
  \/ cur \in Users /\ step[cur] = "none" /\ (Release \/ Start) /\ UNCHANGED kvars
FairPidsSpec ==
  /\ PidsSpec
  /\ WF_avars(idle /\ UNCHANGED kvars) /\ SF_avars(Interrupt /\ UNCHANGED kvars)
  /\ \A t \in Threads \ {Idle} : SF_avars(cur = t /\ Progress)

-----------------------------------------------------------------------------

(* allocate_pid: a pid that had been returned before a call began is not   *)
(* returned by that call.  (Two calls that overlap may return the same     *)
(* pid: each reads next_pid after it has released pid_lock.)               *)
PidIsNew == [][return => next_pid \notin before[cur]]_avars
=============================================================================
