SPECIFICATION Spec
CONSTANTS
  Task = {1, 2}
  FirstTask = 1
  Page = {1, 2, 3, 4, 5, 6, 7, 8, 9, 10, 11, 12, 13, 14}
  PGSIZE = 8
  KERNBASE = 48
  NPTE = 2
  KernTables = 1
  SbrkArgs <- Increments
  Images <- Programs
  Ino = {1, 2, 3}
  Fd = {1, 2, 3}
  InoOf <- Inos
  DataBlock = {1, 2, 3, 4, 5, 6, 7}
  BSIZE = 2
  NDIRECT = 2
  MAXOPBLOCKS = 8
  WriteSizes = {3, 5}
  RootIno = 1
  FirstIno = 2
  FirstSize = 5
  MaxRemoved = 1
  Reader = {1, 2}
  Char = {"a"}
  NewLine = "nl"
  Eof = "eof"
  INPUT_BUF = 3
  IndexMod = 6
  COLS = 2
  ROWS = 2
  ReadSize = 2
  HeapEnd = 13
  MinCore = 4
  Requests = {1, 2, 4}
  Brother = {b1, b2}
  Sister = {s1, s2}
  Nobody = none
  MaxMean = 2
  LockCpu = {11, 12}
  Thread = {1, 2}
  BootCpu = 11
  NoThread = 0
  NoCpu = 0
  Samples <- Inputs
  DIRSIZ = 2
  BufSize = 3
  IntMod = 256
  MAXARGS = 3
VIEW View
INVARIANTS MemorySound FilesSound ConsoleSound HeapSound  LocksSound 
PROPERTY IsLineInput
CHECK_DEADLOCK FALSE
