SPECIFICATION Spec
CONSTANTS
  CPU = {c0, c1}
  BootCpu = c0
  NoCpu = NoCpu
  NPROC = 3
  TickMod = 3
  SleepTimes = {1}
  OtherPoints = {}
  MaxPid = 3
INVARIANTS
  TypeOK
  NoLostTick
  RunsOnOneCpu
  SchedLocks
  StackSafe
  NoLostExit
  ParentAlive
  PidUnique
PROPERTY
  ZombieReaped
