SPECIFICATION FairSpec
CONSTANTS
  p1 = p1
  p2 = p2
  a = a
  b = b
  c = c
  Proc <- Two
  Block <- Blocks3
  Value = {0, 1}
  Zero = 0
  MAXOPBLOCKS = 1
  LOGSIZE = 3
  nlog = 4
INVARIANT CommitSafe
PROPERTIES IsAtomic SleeperWakes
