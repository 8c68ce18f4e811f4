SPECIFICATION Spec
CONSTANTS
  p1 = p1
  p2 = p2
  nobody = nobody
  Proc <- Callers
  NoProc <- nobody
  NCONTAINER = 3
  NPROC_CONTAINER = 2
  Overlap = FALSE
INVARIANT TableSound
PROPERTIES CreatedFresh MemberKept
