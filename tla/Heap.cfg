SPECIFICATION Spec
CONSTANTS
  kmain = kmain
  t1 = t1
  d16 = d16
  d32 = d32
  Threads = {kmain, t1}
  Main = kmain
  None = None
  ByteBits = 2
  VLen = 4
  PLen = 4
  Descs = {d16, d32}
  PerArena <- MCPerArena
  PageLimit = 4
  PoolPages = 4
  MaxPages = 6
  MaxKept = 1
  PageCallers = {}
INVARIANTS FramesExclusive NoPageLost BlocksAccounted LockKeptByLarge OnlyTooLargePanics
CHECK_DEADLOCK FALSE
