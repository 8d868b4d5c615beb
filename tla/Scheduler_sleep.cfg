SPECIFICATION FairSpec
CONSTANTS
  kmain = kmain
  kidle = kidle
  t1 = t1
  t2 = t2
  Threads = {kmain, kidle, t1}
  Main = kmain
  Idle = kidle
  Prio <- MCPrio
  BlockStats = {"BLOCKED"}
  Sleepers = {t1}
  SleepTicks = 1
  TickMod = 4
PROPERTIES SleepReturns
CHECK_DEADLOCK TRUE
