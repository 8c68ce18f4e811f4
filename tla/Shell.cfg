SPECIFICATION Spec
CONSTANTS
  x1 = x1  x2 = x2
  init = 1  sh = 2
  Proc = {1, 2, 3, 4, 5}
  NOFILE = 5  NFILE = 5
  Page = {x1, x2}
  Byte = {1, 2}
  PIPESIZE = 2  CounterMod = 4  MAXARGS = 10
  Lines <- CommandLines
  Program <- Programs
  MaxKill = 1
INVARIANTS References PipeEnds SleepJustified
CHECK_DEADLOCK FALSE
PROPERTIES CommandEnds IsByteStream
