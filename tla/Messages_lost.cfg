SPECIFICATION MsgSpec
CONSTANTS
  m1 = m1
  m2 = m2
  Msg <- Texts
  Sender = {2}
  Receiver = {1}
  NoHolder = 0
  Zero = Zero
  Junk = Junk
  MSGBUFFSIZE = 2
SYMMETRY Symmetry
CHECK_DEADLOCK FALSE
INVARIANT NoLostMessage
