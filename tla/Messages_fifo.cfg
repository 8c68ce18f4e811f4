SPECIFICATION MsgSpec
CONSTANTS
  m1 = m1
  m2 = m2
  Msg <- Texts
  Sender = {1, 2, 3}
  Receiver = {1}
  NoHolder = 0
  Zero = Zero
  Junk = Junk
  MSGBUFFSIZE = 3
SYMMETRY Symmetry
CHECK_DEADLOCK FALSE
INVARIANT MsgTypeOK
PROPERTIES IsFifo DeliveredInOrder
