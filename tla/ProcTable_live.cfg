SPECIFICATION FairSpec
CONSTANTS
  CPU = {c0}
  BootCpu = c0
  NoCpu = NoCpu
  NPROC = 3
  TickMod = 2
  SleepTimes = {1}
  OtherPoints = {}
  MaxPid = 3
PROPERTIES
  OrphanReaped
  KilledDies
  RunnableRuns
