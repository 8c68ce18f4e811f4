----------------------------- MODULE AtomicDisk -----------------------------
(***************************************************************************)
(* What the log of log.c promises to the file system: a disk on which the  *)
(* writes of whole groups of finished operations become durable at once.   *)
(***************************************************************************)
CONSTANTS Proc, Block, Value, Zero

VARIABLES disk,    \* what a reboot finds
          view,    \* what operations read
          active   \* processes between begin_op() and end_op()

vars == <<disk, view, active>>

Init ==
  /\ disk = [b \in Block |-> Zero]
  /\ view = disk
  /\ active = {}

Begin(p) ==
  /\ p \notin active
  /\ active' = active \cup {p}
  /\ UNCHANGED <<disk, view>>

Write(p, b, v) ==
  /\ p \in active
  /\ view' = [view EXCEPT ![b] = v]
  /\ UNCHANGED <<disk, active>>

End(p) ==
  /\ p \in active
  /\ active' = active \ {p}
  /\ UNCHANGED <<disk, view>>

\* No operation is half done in what becomes durable.
Commit ==
  /\ active = {}
  /\ disk' = view
  /\ UNCHANGED <<view, active>>

Crash ==
  /\ view' = disk
  /\ active' = {}
  /\ UNCHANGED disk

Next ==
  \/ \E p \in Proc : Begin(p) \/ End(p) \/ \E b \in Block, v \in Value : Write(p, b, v)
  \/ Commit \/ Crash

Spec == Init /\ [][Next]_vars

=============================================================================
