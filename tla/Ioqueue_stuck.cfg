SPECIFICATION Spec
CONSTANTS
  kmain = kmain
  kidle = kidle
  t1 = t1
  t2 = t2
  qlock = qlock
  kbd = kbd
  a = a
  b = b
  Threads = {kmain, kidle, t1}
  Main = kmain
  Idle = kidle
  Prio <- MCPrio
  Locks = {qlock}
  QLock = qlock
  Null = Null
  Started <- MCStarted1
  bufsize = 3
  Chars = {a}
  Consumers = {kmain}
  Producers = {t1}
  Uses <- MCUsesBoth
  Keyboard = kbd
INVARIANTS SomebodyAwake
