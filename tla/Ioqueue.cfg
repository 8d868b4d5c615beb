SPECIFICATION FairSpec
CONSTANTS
  kmain = kmain
  kidle = kidle
  t1 = t1
  t2 = t2
  qlock = qlock
  kbd = kbd
  a = a
  b = b
  Threads = {kmain, kidle, t1, t2}
  Main = kmain
  Idle = kidle
  Prio <- MCPrio
  Locks = {qlock}
  QLock = qlock
  Null = Null
  Started <- MCStarted2
  bufsize = 3
  Chars = {a, b}
  Consumers = {kmain, t2}
  Producers = {t1}
  Uses <- MCUses
  Keyboard = kbd
INVARIANTS NoPanic SleepsWithReason
PROPERTIES ImplementsFifo ReaderServed
