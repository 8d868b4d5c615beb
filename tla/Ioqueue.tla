------------------------------ MODULE Ioqueue ------------------------------
(***************************************************************************)
(* The ring buffer of device/ioqueue.c between threads that read, threads  *)
(* that write, and the keyboard handler, which writes from interrupt       *)
(* context and drops the character when the buffer is full.                *)
(*                                                                         *)
(* A caller switches interrupts off first, as ioq_empty and ioq_full       *)
(* ASSERT.  The lock and the two thread_blocks are where it can lose the   *)
(* processor:  "free" -> loop -> (wait -> unlock -> loop)* -> got -> "free" *)
(***************************************************************************)
EXTENDS Sync

CONSTANTS
  QLock,      \* ioq->lock
  bufsize,
  Chars,
  Consumers,  \* the threads that call ioq_getchar
  Producers,  \* the threads that call ioq_putchar
  Keyboard,   \* the keyboard handler
  Uses        \* which of these use the buffer together

ASSUME IoqueueAssumption ==
  /\ Locks = {QLock}
  /\ bufsize \in Nat /\ bufsize > 1
  /\ Chars # {}
  /\ Consumers \cup Producers \subseteq Threads \ {Idle}
  /\ Consumers \cap Producers = {}
  /\ Keyboard \notin Threads
  /\ Uses \subseteq SUBSET (Consumers \cup Producers \cup {Keyboard})

VARIABLES
  buf,       \* ioq->buf
  head,      \* where the next character is written
  tail,      \* where the next character is read
  producer,  \* the thread asleep until there is room, or Null
  consumer,  \* the thread asleep until there is a character, or Null
  users,     \* who uses the buffer; it does not change
  stage,     \* how far a thread is in its call
  byte       \* the character a thread writes, or the last one it read

qvars == <<buf, head, tail, producer, consumer, stage, byte, users>>
vars  == <<tvars, pc, svars, qvars>>

Pos == 0 .. bufsize - 1

Zero == CHOOSE c \in Chars : TRUE  \* what memory holds at first

Init ==
  /\ SystemUp
  /\ head = 0 /\ tail = 0
  /\ producer = Null /\ consumer = Null
  /\ stage = [t \in Threads |-> "free"]
  /\ buf = [p \in Pos |-> Zero]
  /\ byte = [t \in Threads |-> Zero]
  /\ users \in Uses

next_pos(pos) == (pos + 1) % bufsize
ioq_full_Off == head = tail + bufsize - 1  \* mutant: tail is taken to be before head
ioq_full  == next_pos(head) = tail
ioq_empty == head = tail

From(s, next) ==
  /\ At("out") /\ stage[cur] = s /\ stage' = [stage EXCEPT ![cur] = next]
  /\ UNCHANGED users

(* The caller: intr_disable, and later intr_enable. *)
Call ==
  /\ From("free", "loop") /\ cur \in users
  /\ IF cur \in Producers THEN \E c \in Chars : byte' = [byte EXCEPT ![cur] = c]
                          ELSE UNCHANGED byte
  /\ intr_disable
  /\ UNCHANGED <<pc, svars, buf, head, tail, producer, consumer>>

Return ==
  /\ From("got", "free") /\ intr_enable
  /\ UNCHANGED <<pc, svars, buf, head, tail, producer, consumer, byte>>

(* wake_up(&ioq->producer) and wake_up(&ioq->consumer), if there is one. *)
wake_producer ==
  /\ IF producer # Null THEN thread_unblock(producer, FALSE) ELSE UNCHANGED tvars
  /\ producer' = Null
wake_consumer_Never ==  \* mutant: the consumer is forgotten
  UNCHANGED <<tvars, consumer>>
wake_consumer_KeepsField ==  \* mutant: *waiter = NULL is missing
  /\ IF consumer # Null THEN thread_unblock(consumer, FALSE) ELSE UNCHANGED tvars
  /\ UNCHANGED consumer
wake_consumer ==
  /\ IF consumer # Null THEN thread_unblock(consumer, FALSE) ELSE UNCHANGED tvars
  /\ consumer' = Null

(* ioq_getchar: one turn of the loop, or the read. *)
ioq_getchar ==
  /\ cur \in Consumers
  /\ \/ ioq_empty /\ From("loop", "wait") /\ lock_acquire(QLock)
        /\ UNCHANGED <<buf, head, tail, producer, consumer, byte>>
     \/ ~ioq_empty /\ From("loop", "got")
        /\ byte' = [byte EXCEPT ![cur] = buf[tail]]
        /\ tail' = next_pos(tail)
        /\ wake_producer
        /\ UNCHANGED <<pc, svars, buf, head, consumer>>

(* ioq_putchar past its loop. *)
put(c) ==
  /\ buf' = [buf EXCEPT ![head] = c]
  /\ head' = next_pos(head)
  /\ wake_consumer
  /\ UNCHANGED <<tail, producer, byte>>

ioq_putchar ==
  /\ cur \in Producers
  /\ \/ ioq_full /\ From("loop", "wait") /\ lock_acquire(QLock)
        /\ UNCHANGED <<buf, head, tail, producer, consumer, byte>>
     \/ ~ioq_full /\ From("loop", "got") /\ put(byte[cur])
        /\ UNCHANGED <<pc, svars>>

(* ioq_wait: the thread goes to sleep with ioq->lock held. *)
ioq_wait ==
  /\ From("wait", "unlock")
  /\ IF cur \in Consumers
     THEN /\ thread_block("BLOCKED", consumer # Null)
          /\ consumer' = cur /\ UNCHANGED producer
     ELSE /\ thread_block("BLOCKED", producer # Null)
          /\ producer' = cur /\ UNCHANGED consumer
  /\ UNCHANGED <<pc, svars, buf, head, tail, byte>>

ioq_unlock ==
  /\ From("unlock", "loop") /\ lock_release(QLock)
  /\ UNCHANGED <<buf, head, tail, producer, consumer, byte>>

(* intr_keyboard_handler with a visible character. *)
intr_keyboard_handler ==
  /\ Keyboard \in users /\ ~panicked /\ intr
  /\ IF ioq_full THEN UNCHANGED <<tvars, buf, head, tail, producer, consumer, byte>>
                 ELSE \E c \in Chars : put(c)
  /\ LeaveHlt
  /\ UNCHANGED <<svars, stage, users>>

Operate   == LockStep /\ UNCHANGED qvars
Interrupt == TimerTick /\ UNCHANGED <<svars, qvars>>
idle      == IdleStep /\ UNCHANGED <<svars, qvars>>

InCall == ioq_getchar \/ ioq_putchar \/ ioq_wait \/ ioq_unlock \/ Operate

Next ==
  \/ Call \/ Return \/ InCall
  \/ intr_keyboard_handler \/ Interrupt \/ idle

Spec == Init /\ [][Next]_vars

(* The use kbd_buf is made for: the keyboard handler and one reader.       *)
Solo == {t \in Consumers : {t, Keyboard} \in Uses}
Sole == \E t \in Solo : users = {t, Keyboard}

(* A sole reader runs its code, reads again, and the clock ticks. *)
FairSpec ==
  /\ Spec
  /\ WF_vars(idle) /\ SF_vars(Interrupt)
  /\ \A t \in Solo :
       SF_vars(cur = t /\ Sole /\ InCall) /\ SF_vars(cur = t /\ Sole /\ (Return \/ Call))

-----------------------------------------------------------------------------

(* The ring buffer, read from tail to head. *)
queue == [i \in 1 .. (head + bufsize - tail) % bufsize |-> buf[(tail + i - 1) % bufsize]]
F == INSTANCE Fifo WITH got <- [t \in Consumers |-> byte[t]], Readers <- Consumers,
                        Capacity <- bufsize - 1

(* ioq_getchar, ioq_putchar and the handler implement a FIFO queue.        *)
ImplementsFifo == F!Spec

(* ioq_wait, wake_up: with one reader and the handler, and with no other   *)
(* users, the reader sleeps on the buffer only while there is nothing to   *)
(* read, and nobody waits for room.                                        *)
SleepsWithReason ==
  Sole => (consumer # Null => ioq_empty) /\ producer = Null

(* Readers and writers do not all end up asleep.                           *)
SomebodyAwake == \E t \in Consumers \cup Producers : status[t] # "BLOCKED"

(* ioq_getchar, ioq_putchar: with one reader and the handler the reader    *)
(* does not wait for ever while there is something to read.                *)
ReaderServed ==
  \A t \in Solo : Sole /\ stage[t] # "free" /\ ~ioq_empty ~> stage[t] = "free"
=============================================================================
