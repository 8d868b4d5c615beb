SPECIFICATION FairPidsSpec
CONSTANTS
  kmain = kmain
  kidle = kidle
  t1 = t1
  t2 = t2
  Threads = {kmain, kidle, t1, t2}
  Main = kmain
  Idle = kidle
  Prio <- MCPrio0
  Locks = {1, 2}
  Null = Null
  Started <- MCStarted2
  MaxDepth = 2
  PidLock = 1
  Callers = {kmain, t1}
  Users = {kmain, t2}
  Rounds <- MCRounds
INVARIANTS NoPanic MutualExclusion LockFieldsAgree NoLostWakeup OneListPerTag
PROPERTIES PidIsNew ImplementsMutex EveryoneServed
