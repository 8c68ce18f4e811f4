----------------------------- MODULE ByteStream -----------------------------
(***************************************************************************)
(* What pipes promise: the bytes written to a pipe come out of it once and *)
(* in order, and a read comes back empty only when the pipe is drained and *)
(* nobody can write to it any more.                                        *)
(***************************************************************************)
EXTENDS Sequences, Integers

CONSTANTS Pipe, Byte, Reader, PIPESIZE

VARIABLES queue,          \* the bytes in each pipe
          ropen, wopen,   \* its ends
          got             \* what the last read of each reader returned

Nothing == [pipe |-> 0, bytes |-> <<>>]

Init ==
  /\ queue = [x \in Pipe |-> <<>>]
  /\ ropen = {} /\ wopen = {}
  /\ got = [r \in Reader |-> Nothing]

Open(x) ==
  /\ x \notin ropen \cup wopen
  /\ ropen' = ropen \cup {x} /\ wopen' = wopen \cup {x}
  /\ UNCHANGED <<queue, got>>

Write(x) ==
  \E n \in 1..PIPESIZE : \E s \in [1..n -> Byte] :
    /\ x \in wopen /\ Len(queue[x]) + n <= PIPESIZE
    /\ queue' = [queue EXCEPT ![x] = @ \o s]
    /\ UNCHANGED <<ropen, wopen, got>>

Read(x) ==
  \E r \in Reader, n \in 0..Len(queue[x]) :
    /\ x \in ropen
    /\ n = 0 => (x \notin wopen /\ queue[x] = <<>>)
    /\ got' = [got EXCEPT ![r] = [pipe |-> x, bytes |-> SubSeq(queue[x], 1, n)]]
    /\ queue' = [queue EXCEPT ![x] = SubSeq(@, n + 1, Len(@))]
    /\ UNCHANGED <<ropen, wopen>>

\* What is left in a pipe is lost when both its ends are closed.
Close(x) ==
  /\ \/ x \in ropen /\ ropen' = ropen \ {x} /\ UNCHANGED wopen
     \/ x \in wopen /\ wopen' = wopen \ {x} /\ UNCHANGED ropen
  /\ queue' = IF x \in ropen' \cup wopen' THEN queue ELSE [queue EXCEPT ![x] = <<>>]
  /\ UNCHANGED got

\* A reader goes on to something else.
Forget == \E r \in Reader : got' = [got EXCEPT ![r] = Nothing] /\ UNCHANGED <<queue, ropen, wopen>>

Next == Forget \/ \E x \in Pipe : Open(x) \/ Write(x) \/ Read(x) \/ Close(x)
Spec == Init /\ [][Next]_<<queue, ropen, wopen, got>>

=============================================================================
