SPECIFICATION Spec
CONSTANTS
  Proc = {1, 2}
  Inum = {1, 2, 3, 4, 5, 6}
  Name = {"a", "b"}
  Call <- Calls
  Boot <- Tree
  MaxCalls = 2
INVARIANTS CacheBalanced SameFile TreeSound
CHECK_DEADLOCK FALSE
