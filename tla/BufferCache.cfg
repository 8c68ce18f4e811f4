SPECIFICATION Spec
CONSTANTS
  p1 = p1  p2 = p2  k1 = k1  k2 = k2  k3 = k3  k4 = k4  d0 = d0  d1 = d1
  Proc = {p1, p2}
  Block = {k1, k2, k3, k4}
  Data = {d0, d1}
  Zero = d0
  None = None
  Written = {k1}
  NBUF = 3
  MaxPinned = 1
INVARIANT BuffersSound
PROPERTIES IsBlockStore RequestsComplete
