-------------------------------- MODULE Disk --------------------------------
(***************************************************************************)
(* What ide_read and ide_write of device/ide.c promise: each call takes    *)
(* effect on the sectors it names at one moment between its start and its  *)
(* return.                                                                 *)
(***************************************************************************)
EXTENDS Naturals

CONSTANTS
  Threads,
  Sectors,   \* the disks' sectors
  Contents,  \* what can be written to a sector
  None

VARIABLES
  disk,  \* the contents of the sectors
  call,  \* the call a thread has made and that has not taken effect yet
  got    \* what a call that has taken effect read, or wrote

(* A call: the sectors in question and, for a write, their new contents. *)
Calls == [secs : SUBSET Sectors, data : Contents \cup {None}]

Init ==
  /\ disk \in [Sectors -> Contents]
  /\ call = [t \in Threads |-> None]
  /\ got = [t \in Threads |-> None]

Start(t) ==
  /\ call[t] = None /\ got[t] = None
  /\ \E c \in Calls : call' = [call EXCEPT ![t] = c]
  /\ UNCHANGED <<disk, got>>

TakeEffect(t) ==
  /\ call[t] # None
  /\ disk' = [s \in Sectors |-> IF s \in call[t].secs /\ call[t].data # None
                                THEN call[t].data ELSE disk[s]]
  /\ got' = [got EXCEPT ![t] = [s \in call[t].secs |-> disk'[s]]]
  /\ call' = [call EXCEPT ![t] = None]

Return(t) ==
  /\ got[t] # None
  /\ got' = [got EXCEPT ![t] = None]
  /\ UNCHANGED <<disk, call>>

Next == \E t \in Threads : Start(t) \/ TakeEffect(t) \/ Return(t)

Spec == Init /\ [][Next]_<<disk, call, got>>
=============================================================================
