SPECIFICATION FairSpec
CONSTANTS
  kmain = kmain
  kidle = kidle
  t1 = t1
  clock = clock
  a = a
  b = b
  Threads = {kmain, kidle, t1}
  Main = kmain
  Idle = kidle
  Prio <- MCPrio
  Locks = {clock}
  CLock = clock
  Null = Null
  None = None
  Started <- MCStarted
  Disks = {0, 1}
  MaxLba = 1
  Contents = {a, b}
  Blank = a
  Callers = {kmain, t1}
  Booting = {kmain}
  Requests <- MCRequests
  Slow = TRUE
INVARIANTS NoPanic CompletionNotLost
PROPERTIES ImplementsDisk ChannelReleased
