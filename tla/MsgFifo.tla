------------------------------ MODULE MsgFifo ------------------------------
(***************************************************************************)
(* What the message queues of proc.c promise: one bounded FIFO of messages *)
(* per receiving process.                                                  *)
(***************************************************************************)
EXTENDS Sequences, Integers

CONSTANTS Receiver, Msg, MSGBUFFSIZE

VARIABLE pending   \* the messages sent to each receiver and not yet received

Init == pending = [r \in Receiver |-> <<>>]

Put(r, x) ==
  /\ Len(pending[r]) < MSGBUFFSIZE
  /\ pending' = [pending EXCEPT ![r] = Append(@, x)]

Get(r) ==
  /\ pending[r] # <<>>
  /\ pending' = [pending EXCEPT ![r] = Tail(@)]

Next == \E r \in Receiver : Get(r) \/ \E x \in Msg : Put(r, x)

Spec == Init /\ [][Next]_pending

=============================================================================
