SPECIFICATION FairProcessSpec
CONSTANTS
  kmain = kmain
  kidle = kidle
  t1 = t1
  t2 = t2
  Threads = {kmain, kidle, t1, t2}
  Main = kmain
  Idle = kidle
  Prio <- MCPrio
  BlockStats = {"BLOCKED"}
  Sleepers = {t1}
  SleepTicks = 1
  TickMod = 2
  Processes = {t2}
  KernelDir = KernelDir
INVARIANTS NoPanic RunQueueSound NoThreadLost InterruptFlagRestored AllListComplete SpaceFollows
PROPERTIES CriticalRegionNotPreempted ReadyRuns SpaceSettled
