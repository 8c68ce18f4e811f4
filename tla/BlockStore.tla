----------------------------- MODULE BlockStore -----------------------------
(***************************************************************************)
(* What bread(), bwrite(), log_write() and brelse() promise: a process has *)
(* a block to itself from bread() to brelse(), sees what was last stored   *)
(* in it, and only it can change it.                                       *)
(***************************************************************************)
CONSTANTS Proc, Block, Data, None, Zero

VARIABLES val,      \* the contents of each block
          holding,  \* the block each process has
          sees      \* what it finds in it
vars == <<val, holding, sees>>

Init ==
  /\ val = [k \in Block |-> Zero]
  /\ holding = [p \in Proc |-> None]
  /\ sees = [p \in Proc |-> None]

Bread(p, k) ==
  /\ holding[p] = None /\ \A q \in Proc : holding[q] # k
  /\ holding' = [holding EXCEPT ![p] = k]
  /\ sees' = [sees EXCEPT ![p] = val[k]]
  /\ UNCHANGED val

Store(p, v) ==
  /\ holding[p] # None
  /\ val' = [val EXCEPT ![holding[p]] = v]
  /\ sees' = [sees EXCEPT ![p] = v]
  /\ UNCHANGED holding

Brelse(p) ==
  /\ holding[p] # None
  /\ holding' = [holding EXCEPT ![p] = None]
  /\ sees' = [sees EXCEPT ![p] = None]
  /\ UNCHANGED val

Next ==
  \E p \in Proc : Brelse(p) \/ (\E k \in Block : Bread(p, k)) \/ (\E v \in Data : Store(p, v))

Spec == Init /\ [][Next]_vars

=============================================================================
