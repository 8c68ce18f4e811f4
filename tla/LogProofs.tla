----------------------------- MODULE LogProofs -----------------------------
(***************************************************************************)
(* Log implements AtomicDisk for any processes, blocks and sizes, as long  *)
(* as the disk has room for LOGSIZE logged blocks and an operation fits in *)
(* the log.                                                                *)
(***************************************************************************)
EXTENDS Log, FiniteSetTheorems, TLAPS

LogRoom == MAXOPBLOCKS <= LOGSIZE /\ LOGSIZE < nlog

Blocks(s) == {s[i] : i \in 1..Len(s)}
Distinct(s) == \A i, j \in 1..Len(s) : s[i] = s[j] => i = j
Ops == {p \in Proc : pc[p] = "op"}
Recovering == phase \in {"boot", "reinstall", "reclear"}

Types ==
  /\ lh \in Seq(Block) /\ outstanding \in Nat /\ committing \in BOOLEAN
  /\ pc \in [Proc -> {"idle", "begin", "asleep", "op", "commit"}]
  /\ buf \in [Proc -> Block \cup {None}]
  /\ wrote \in [Proc -> SUBSET Block]
  /\ cache \in [Block -> Value] /\ dirty \subseteq Block
  /\ phase \in Phases /\ tail \in 1..nlog
  /\ home \in [Block -> Value] /\ logged \in [1..(nlog - 1) -> Value]
  /\ head \in Seq(Block) /\ panicked \in BOOLEAN

\* outstanding counts the operations, a locked buffer belongs to one, and none is in
\* progress during a commit or a recovery.
OpInv ==
  /\ IsFiniteSet(Ops) /\ outstanding = Cardinality(Ops)
  /\ \A p \in Proc : buf[p] # None => pc[p] = "op" /\ buf[p] \in wrote[p]
  /\ \A p \in Proc : pc[p] # "op" => wrote[p] = {}
  /\ committing = (phase \notin {"run", "boot", "reinstall", "reclear"})
  /\ phase # "run" => Ops = {}
  /\ phase = "run" /\ Ops = {} => lh = <<>>
  /\ Recovering => ~panicked /\ \A p \in Proc : pc[p] = "idle"
  /\ (\E p \in Proc : pc[p] = "asleep") => outstanding > 0 \/ committing

\* The blocks of operations that have ended, and the reservations of the others, fit.
Finished == {b \in Blocks(lh) : \A p \in Proc : b \notin wrote[p]}
SpaceInv ==
  /\ \A p \in Proc : IsFiniteSet(wrote[p]) /\ Cardinality(wrote[p]) <= MAXOPBLOCKS
  /\ IsFiniteSet(Finished)
  /\ Cardinality(Finished) + outstanding * MAXOPBLOCKS <= LOGSIZE

\* What the header on the disk and the one in memory say in each phase.
HeadInv ==
  /\ Distinct(lh) /\ Distinct(head) /\ Len(head) <= LOGSIZE
  /\ phase \in {"run", "write_log", "write_head", "finish"} => head = <<>>
  /\ phase \in {"install", "clear", "reinstall", "reclear"} => head = lh
  /\ phase \in {"finish", "boot"} => lh = <<>>
  /\ phase # "run" => Len(lh) <= LOGSIZE
  /\ phase \in {"write_log", "install", "reinstall"} => tail \in 1..Len(lh)
  /\ phase \in {"write_head", "boot"} => tail = 1
  /\ phase = "write_head" => lh # <<>>

\* How far commit() or the recovery has come.
CopyInv ==
  /\ phase = "write_log" => \A i \in 1..(tail - 1) : logged[i] = cache[lh[i]]
  /\ phase \in {"write_head", "install"} => \A i \in 1..Len(lh) : logged[i] = cache[lh[i]]
  /\ phase \in {"install", "reinstall"} => \A i \in 1..(tail - 1) : home[lh[i]] = logged[i]
  /\ phase \in {"clear", "reclear"} => \A i \in 1..Len(lh) : home[lh[i]] = logged[i]

\* The logged blocks are pinned until they are installed, and what is neither pinned nor
\* in use is the same in memory and at home.
CacheInv ==
  /\ phase \in {"run", "write_log", "write_head", "finish"} => dirty = Blocks(lh)
  /\ phase = "install" => dirty = {lh[i] : i \in tail..Len(lh)}
  /\ phase \in {"clear", "boot", "reinstall", "reclear"} => dirty = {}
  /\ \A b \in Block : b \notin dirty /\ (\A q \in Proc : buf[q] # b) => cache[b] = home[b]

IInv == Types /\ OpInv /\ SpaceInv /\ HeadInv /\ CopyInv /\ CacheInv

-----------------------------------------------------------------------------
(* Arithmetic, sets and sequences *)

\* One reservation more.
LEMMA OneMore ==
  ASSUME NEW m \in Nat, NEW n \in Nat
  PROVE  (n + 1) * m = n * m + m /\ n * m \in Nat
  OBVIOUS

\* Less needs no more room.
LEMMA StillFits ==
  ASSUME NEW a \in Nat, NEW b \in Nat, NEW r \in Nat, NEW n \in Nat, a <= b, b + r <= n
  PROVE  a + r <= n
  OBVIOUS

\* The size of a union.
LEMMA UnionCount ==
  ASSUME NEW S, NEW T, IsFiniteSet(S), IsFiniteSet(T)
  PROVE  /\ IsFiniteSet(S \cup T)
         /\ Cardinality(S \cup T) <= Cardinality(S) + Cardinality(T)
  <1>1. IsFiniteSet(S \cap T)
    BY FS_Intersection, Zenon
  <1>2. /\ Cardinality(S) \in Nat /\ Cardinality(T) \in Nat /\ Cardinality(S \cap T) \in Nat
    BY <1>1, FS_CardinalityType, Zenon
  <1>3. /\ IsFiniteSet(S \cup T)
        /\ Cardinality(S \cup T) = Cardinality(S) + Cardinality(T) - Cardinality(S \cap T)
    BY FS_Union, Zenon
  <1> QED
    BY <1>2, <1>3

\* A sequence without repetitions has as many elements as its length.
LEMMA DistinctCount ==
  ASSUME NEW s \in Seq(Block), Distinct(s)
  PROVE  IsFiniteSet(Blocks(s)) /\ Cardinality(Blocks(s)) = Len(s)
  <1>1. s \in Bijection(1..Len(s), Blocks(s))
    BY DEF Bijection, Injection, Surjection, IsInjective, Distinct, Blocks
  <1>2. ExistsBijection(1..Len(s), Blocks(s)) /\ Len(s) \in Nat
    BY <1>1 DEF ExistsBijection
  <1> QED
    BY <1>2, FS_CountingElements, FS_NatBijection, Zenon

\* Append() to a log.
LEMMA AppendBlock ==
  ASSUME NEW s \in Seq(Block), Distinct(s), NEW b \in Block
  PROVE  /\ Append(s, b) \in Seq(Block)
         /\ Blocks(Append(s, b)) = Blocks(s) \cup {b}
         /\ b \notin Blocks(s) => Distinct(Append(s, b))
  <1>1. /\ Len(Append(s, b)) = Len(s) + 1 /\ Append(s, b) \in Seq(Block) /\ Len(s) \in Nat
        /\ \A i \in 1..Len(s) : Append(s, b)[i] = s[i]
        /\ Append(s, b)[Len(s) + 1] = b
    OBVIOUS
  <1>2. Blocks(Append(s, b)) = Blocks(s) \cup {b}
    BY <1>1 DEF Blocks
  <1>3. ASSUME b \notin Blocks(s) PROVE Distinct(Append(s, b))
    BY <1>1, <1>3 DEF Blocks, Distinct
  <1> QED
    BY <1>1, <1>2, <1>3, Zenon

\* The index of a loop over the log stays in the log's area.
LEMMA TailFirst == 1 \in 1..nlog
  BY LogAssumption

\* So it does when the loop goes on.
LEMMA TailNext ==
  ASSUME IInv, LogRoom, phase # "run", tail \in 1..Len(lh),
         tail' = 1 \/ (tail < Len(lh) /\ tail' = tail + 1)
  PROVE  tail' \in 1..nlog
  BY LogAssumption DEF IInv, Types, HeadInv, LogRoom

\* What has ended is part of the log.
LEMMA FinishedCount ==
  ASSUME Types, HeadInv
  PROVE  /\ IsFiniteSet(Blocks(lh)) /\ Cardinality(Blocks(lh)) = Len(lh)
         /\ IsFiniteSet(Finished) /\ Cardinality(Finished) \in Nat
         /\ Cardinality(Finished) <= Len(lh)
  <1>1. IsFiniteSet(Blocks(lh)) /\ Cardinality(Blocks(lh)) = Len(lh)
    BY DistinctCount, Zenon DEF Types, HeadInv
  <1>2. Finished \in SUBSET Blocks(lh)
    BY Zenon DEF Finished
  <1> QED
    BY <1>1, <1>2, FS_Subset, FS_CardinalityType, Zenon

-----------------------------------------------------------------------------
(* Operations *)

\* begin_op() that returns reserves MAXOPBLOCKS blocks.
LEMMA BeginOpStep ==
  ASSUME IInv, NEW p \in Proc, BeginOp(p)
  PROVE  IInv'
  <1>a. /\ phase = "run" /\ pc[p] \in {"idle", "begin"} /\ Space
        /\ Types /\ OpInv /\ SpaceInv /\ HeadInv /\ CopyInv /\ CacheInv
    BY Zenon DEF BeginOp, IInv, OpInv, Up, Types, Phases
  <1>b. /\ outstanding' = outstanding + 1 /\ pc' = [pc EXCEPT ![p] = "op"]
        /\ UNCHANGED <<lh, committing, buf, wrote, cache, dirty, phase, tail, home, logged, head,
                       panicked>>
    BY Zenon DEF BeginOp, mem, disk
  <1>c. Ops' = Ops \cup {p} /\ p \notin Ops
    BY <1>a, <1>b, Zenon DEF Ops, Types
  <1>1. Types'
    BY <1>a, <1>b DEF Types
  <1>2. OpInv'
    <2>1. IsFiniteSet(Ops') /\ outstanding' = Cardinality(Ops')
      BY <1>a, <1>b, <1>c, FS_AddElement, Zenon DEF OpInv
    <2> QED
      BY <1>a, <1>b, <1>c, <2>1 DEF OpInv, Types, Recovering
  <1>3. SpaceInv'
    <2>1. UNCHANGED Finished
      BY <1>b, Zenon DEF Finished, Blocks
    <2>2. Cardinality(Finished) + (outstanding + 1) * MAXOPBLOCKS <= LOGSIZE
      BY <1>a, FinishedCount, OneMore, LogAssumption DEF Space, Types
    <2> QED
      BY <1>a, <1>b, <2>1, <2>2, Zenon DEF SpaceInv
  <1>4. HeadInv' /\ CopyInv' /\ CacheInv'
    BY <1>a, <1>b DEF HeadInv, CopyInv, CacheInv, Distinct, Blocks
  <1> QED
    BY <1>1, <1>2, <1>3, <1>4, Zenon DEF IInv

\* begin_op() that sleeps has an operation or a commit to wait for.
LEMMA BeginSleepStep ==
  ASSUME IInv, LogRoom, NEW p \in Proc, BeginSleep(p)
  PROVE  IInv'
  <1>a. /\ ~Recovering /\ pc[p] \in {"idle", "begin"} /\ (committing \/ ~Space)
        /\ Types /\ OpInv /\ SpaceInv /\ HeadInv /\ CopyInv /\ CacheInv
    BY Zenon DEF BeginSleep, IInv, Up, Recovering
  <1>b. /\ pc' = [pc EXCEPT ![p] = "asleep"]
        /\ UNCHANGED <<lh, outstanding, committing, buf, wrote, cache, dirty, phase, tail, home,
                       logged, head, panicked>>
    BY Zenon DEF BeginSleep, mem, disk
  <1>c. Ops' = Ops
    BY <1>a, <1>b, Zenon DEF Ops, Types
  <1>1. Types'
    BY <1>a, <1>b, Zenon DEF Types
  <1>2. OpInv'
    <2>1. outstanding > 0 \/ committing
      <3>1. SUFFICES ASSUME ~committing, outstanding = 0 PROVE FALSE
        BY <1>a DEF Types
      <3>2. Ops = {} /\ phase = "run"
        BY <1>a, <3>1, FS_EmptySet, Zenon DEF OpInv, Recovering, Types, Phases
      <3>3. Len(lh) = 0
        BY <1>a, <3>2 DEF OpInv
      <3> QED
        BY <1>a, <3>1, <3>3, LogAssumption DEF Space, LogRoom
    <2> QED
      BY <1>a, <1>b, <1>c, <2>1, Zenon DEF OpInv, Types, Recovering
  <1>3. SpaceInv' /\ HeadInv' /\ CopyInv' /\ CacheInv'
    BY <1>a, <1>b DEF SpaceInv, Finished, HeadInv, CopyInv, CacheInv, Distinct, Blocks
  <1> QED
    BY <1>1, <1>2, <1>3, Zenon DEF IInv

\* A modified block is one of its operation's.
LEMMA ModifyStep ==
  ASSUME IInv, NEW p \in Proc, NEW b \in Block, NEW v \in Value, Modify(p, b, v)
  PROVE  IInv'
  <1>a. /\ phase = "run" /\ pc[p] = "op" /\ buf[p] = None /\ p \in Ops
        /\ Cardinality(wrote[p] \cup {b}) <= MAXOPBLOCKS
        /\ Types /\ OpInv /\ SpaceInv /\ HeadInv /\ CopyInv /\ CacheInv
    BY Zenon DEF Modify, IInv, OpInv, Ops
  <1>b. /\ buf' = [buf EXCEPT ![p] = b] /\ wrote' = [wrote EXCEPT ![p] = @ \cup {b}]
        /\ cache' = [cache EXCEPT ![b] = v] /\ panicked' \in BOOLEAN
        /\ UNCHANGED <<lh, outstanding, committing, pc, dirty, phase, tail, home, logged, head>>
    BY Zenon DEF Modify, disk
  <1>c. Ops' = Ops
    BY <1>b, Zenon DEF Ops
  <1>1. Types'
    BY <1>a, <1>b, Zenon DEF Types
  <1>2. OpInv'
    BY <1>a, <1>b, <1>c, Zenon DEF OpInv, Types, Recovering
  <1>3. SpaceInv'
    <2>1. \A q \in Proc : IsFiniteSet(wrote'[q]) /\ Cardinality(wrote'[q]) <= MAXOPBLOCKS
      BY <1>a, <1>b, FS_AddElement, Zenon DEF SpaceInv, Types
    <2>2. Finished' \in SUBSET Finished
      BY <1>a, <1>b, Zenon DEF Finished, Blocks, Types
    <2>3. IsFiniteSet(Finished') /\ Cardinality(Finished') <= Cardinality(Finished)
          /\ Cardinality(Finished') \in Nat /\ Cardinality(Finished) \in Nat
      BY <1>a, <2>2, FS_Subset, FS_CardinalityType, Zenon DEF SpaceInv
    <2>4. outstanding * MAXOPBLOCKS \in Nat
      BY <1>a, OneMore, LogAssumption, Zenon DEF Types
    <2> QED
      BY <1>a, <1>b, <2>1, <2>3, <2>4, LogAssumption, StillFits, Zenon DEF SpaceInv
  <1>4. HeadInv' /\ CopyInv'
    BY <1>a, <1>b DEF HeadInv, CopyInv, Distinct
  <1>5. CacheInv'
    <2>1. ASSUME NEW c \in Block, c \notin dirty, \A q \in Proc : buf'[q] # c
          PROVE  cache'[c] = home[c]
      <3>1. c # b /\ \A q \in Proc : buf[q] # c
        BY <1>a, <1>b, <2>1, BlockAssumption, Zenon DEF Types
      <3> QED
        BY <1>a, <1>b, <2>1, <3>1, Zenon DEF CacheInv, Types
    <2> QED
      BY <1>a, <1>b, <2>1, Zenon DEF CacheInv, Blocks
  <1> QED
    BY <1>1, <1>2, <1>3, <1>4, <1>5, Zenon DEF IInv

\* The end of log_write() pins a block of its operation and logs it once.
LEMMA LogWriteStep ==
  ASSUME IInv, NEW p \in Proc, LogWrite(p)
  PROVE  IInv'
  <1>a. /\ phase = "run" /\ buf[p] # None /\ pc[p] = "op" /\ buf[p] \in wrote[p] /\ p \in Ops
        /\ buf[p] \in Block
        /\ Types /\ OpInv /\ SpaceInv /\ HeadInv /\ CopyInv /\ CacheInv
    BY Zenon DEF LogWrite, IInv, OpInv, Ops, Types
  <1>b. /\ lh' = IF Logged(buf[p]) THEN lh ELSE Append(lh, buf[p])
        /\ dirty' = dirty \cup {buf[p]} /\ buf' = [buf EXCEPT ![p] = None]
        /\ UNCHANGED <<outstanding, committing, pc, wrote, cache, phase, tail, home, logged, head,
                       panicked>>
    BY Zenon DEF LogWrite, disk
  <1>c. Ops' = Ops
    BY <1>b, Zenon DEF Ops
  <1>d. lh' \in Seq(Block) /\ Distinct(lh') /\ Blocks(lh') = Blocks(lh) \cup {buf[p]}
    <2>1. CASE Logged(buf[p])
      <3>1. buf[p] \in Blocks(lh) /\ lh' = lh
        BY <1>b, <2>1, Zenon DEF Logged, Blocks
      <3> QED
        BY <1>a, <3>1, Zenon DEF Types, HeadInv
    <2>2. CASE ~Logged(buf[p])
      <3>1. buf[p] \notin Blocks(lh) /\ lh' = Append(lh, buf[p])
        BY <1>b, <2>2, Zenon DEF Logged, Blocks
      <3> QED
        BY <1>a, <3>1, AppendBlock, Zenon DEF Types, HeadInv
    <2> QED
      BY <2>1, <2>2, Zenon
  <1>1. Types'
    BY <1>a, <1>b, <1>d, Zenon DEF Types
  <1>2. OpInv'
    BY <1>a, <1>b, <1>c, Zenon DEF OpInv, Types, Recovering
  <1>3. SpaceInv'
    <2>1. Finished' = Finished
      BY <1>a, <1>b, <1>d, Zenon DEF Finished
    <2> QED
      BY <1>a, <1>b, <2>1, Zenon DEF SpaceInv
  <1>4. HeadInv' /\ CopyInv'
    BY <1>a, <1>b, <1>d, Zenon DEF HeadInv, CopyInv
  <1>5. CacheInv'
    BY <1>a, <1>b, <1>d, Zenon DEF CacheInv, Types
  <1> QED
    BY <1>1, <1>2, <1>3, <1>4, <1>5, Zenon DEF IInv

\* bget() recycles a buffer that is the same as the block at home.
LEMMA EvictUnchanged ==
  ASSUME IInv, NEW b \in Block, Evict(b)
  PROVE  UNCHANGED vars
  <1>1. cache[b] = home[b] /\ cache \in [Block -> Value]
    BY Zenon DEF Evict, IInv, CacheInv, Types
  <1>2. cache' = cache
    BY <1>1, Zenon DEF Evict
  <1> QED
    BY <1>2, Zenon DEF Evict, vars, ops, mem, disk

\* The space that an operation leaves when it ends: its blocks stay in the log.
LEMMA EndSpace ==
  ASSUME IInv, NEW p \in Proc, p \in Ops, lh' = lh, wrote' = [wrote EXCEPT ![p] = {}],
         outstanding' = outstanding - 1
  PROVE  SpaceInv'
  <1>a. /\ Types /\ OpInv /\ SpaceInv /\ HeadInv
        /\ MAXOPBLOCKS \in Nat /\ LOGSIZE \in Nat
    BY LogAssumption, Zenon DEF IInv
  <1>1. outstanding' \in Nat /\ outstanding = outstanding' + 1
    BY <1>a, FS_EmptySet DEF OpInv, Types
  <1>2. outstanding * MAXOPBLOCKS = outstanding' * MAXOPBLOCKS + MAXOPBLOCKS
        /\ outstanding' * MAXOPBLOCKS \in Nat
    BY <1>a, <1>1, OneMore, Zenon
  <1>3. Finished' \in SUBSET (Finished \cup wrote[p])
    BY <1>a, Zenon DEF Finished, Types
  <1>4. /\ IsFiniteSet(Finished \cup wrote[p])
        /\ Cardinality(Finished \cup wrote[p]) <= Cardinality(Finished) + Cardinality(wrote[p])
    BY <1>a, UnionCount, Zenon DEF SpaceInv
  <1>5. /\ IsFiniteSet(Finished') /\ Cardinality(Finished') <= Cardinality(Finished \cup wrote[p])
        /\ Cardinality(Finished') \in Nat /\ Cardinality(Finished) \in Nat
        /\ Cardinality(wrote[p]) \in Nat /\ Cardinality(Finished \cup wrote[p]) \in Nat
    BY <1>a, <1>3, <1>4, FS_Subset, FS_CardinalityType, Zenon DEF SpaceInv
  <1>6. \A q \in Proc : IsFiniteSet(wrote'[q]) /\ Cardinality(wrote'[q]) <= MAXOPBLOCKS
    BY <1>a, FS_EmptySet DEF SpaceInv, Types
  <1> QED
    BY <1>a, <1>2, <1>4, <1>5, <1>6 DEF SpaceInv

\* end_op() of an operation that leaves others.
LEMMA EndOpStep ==
  ASSUME IInv, NEW p \in Proc, EndOp(p)
  PROVE  IInv'
  <1>a. /\ phase = "run" /\ ~committing /\ pc[p] = "op" /\ buf[p] = None /\ p \in Ops
        /\ outstanding # 1
        /\ Types /\ OpInv /\ SpaceInv /\ HeadInv /\ CopyInv /\ CacheInv
    BY Zenon DEF EndOp, IInv, OpInv, Ops
  <1>b. /\ outstanding' = outstanding - 1 /\ panicked' = committing
        /\ pc' = [WakeAll EXCEPT ![p] = "idle"] /\ wrote' = [wrote EXCEPT ![p] = {}]
        /\ UNCHANGED <<lh, committing, buf, cache, dirty, phase, tail, home, logged, head>>
    BY Zenon DEF EndOp, mem, disk
  <1>c. Ops' = Ops \ {p} /\ \A q \in Proc : pc'[q] # "asleep"
    BY <1>a, <1>b, Zenon DEF Ops, Types, WakeAll
  <1>d. /\ IsFiniteSet(Ops') /\ outstanding' = Cardinality(Ops') /\ outstanding' \in Nat
        /\ Ops' # {}
    <2>1. IsFiniteSet(Ops') /\ outstanding' = Cardinality(Ops')
      BY <1>a, <1>b, <1>c, FS_RemoveElement, Zenon DEF OpInv
    <2>2. outstanding' # 0 /\ outstanding' \in Nat
      BY <1>a, <1>b, <2>1, FS_CardinalityType DEF Types
    <2> QED
      BY <2>1, <2>2, FS_EmptySet, Zenon
  <1>1. Types'
    BY <1>a, <1>b, <1>d, Zenon DEF Types, WakeAll
  <1>2. OpInv'
    BY <1>a, <1>b, <1>c, <1>d, Zenon DEF OpInv, Types, Recovering, WakeAll
  <1>3. SpaceInv'
    BY <1>a, <1>b, EndSpace, Zenon
  <1>4. HeadInv' /\ CopyInv' /\ CacheInv'
    BY <1>a, <1>b DEF HeadInv, CopyInv, CacheInv, Distinct, Blocks
  <1> QED
    BY <1>1, <1>2, <1>3, <1>4, Zenon DEF IInv

\* end_op() of the last operation starts a commit of what is in the log, which fits.
LEMMA EndLastStep ==
  ASSUME IInv, NEW p \in Proc, EndLast(p)
  PROVE  IInv'
  <1>a. /\ phase = "run" /\ ~committing /\ pc[p] = "op" /\ buf[p] = None /\ p \in Ops
        /\ outstanding = 1
        /\ Types /\ OpInv /\ SpaceInv /\ HeadInv /\ CopyInv /\ CacheInv
    BY Zenon DEF EndLast, IInv, OpInv, Ops
  <1>b. /\ outstanding' = outstanding - 1 /\ panicked' = FALSE /\ committing' = TRUE
        /\ phase' = (IF lh = <<>> THEN "finish" ELSE "write_log") /\ tail' = 1
        /\ pc' = [pc EXCEPT ![p] = "commit"] /\ wrote' = [wrote EXCEPT ![p] = {}]
        /\ UNCHANGED <<lh, buf, cache, dirty, home, logged, head>>
    BY <1>a DEF EndLast, mem, disk
  <1>c. Ops' = {} /\ IsFiniteSet(Ops') /\ outstanding' = Cardinality(Ops') /\ outstanding' = 0
    <2>1. Ops' = Ops \ {p}
      BY <1>a, <1>b, Zenon DEF Ops, Types
    <2>2. IsFiniteSet(Ops') /\ Cardinality(Ops') = 0
      BY <1>a, <2>1, FS_RemoveElement DEF OpInv
    <2> QED
      BY <1>a, <1>b, <2>2, FS_EmptySet
  <1>1. Types'
    <2>1. phase' \in Phases /\ committing' \in BOOLEAN /\ panicked' \in BOOLEAN
      BY <1>b, Zenon DEF Phases
    <2>2. wrote' \in [Proc -> SUBSET Block]
          /\ pc' \in [Proc -> {"idle", "begin", "asleep", "op", "commit"}]
      BY <1>a, <1>b, Zenon DEF Types
    <2> QED
      BY <1>a, <1>b, <1>c, <2>1, <2>2, TailFirst DEF Types
  <1>2. OpInv'
    BY <1>a, <1>b, <1>c, Zenon DEF OpInv, Types, Recovering
  <1>3. SpaceInv'
    BY <1>a, <1>b, EndSpace, Zenon
  <1>4. Len(lh) <= LOGSIZE
    <2>1. Finished' = Blocks(lh)
      <3>1. \A q \in Proc : wrote'[q] = {}
        BY <1>b, <1>c, <1>2, Zenon DEF OpInv, Ops
      <3> QED
        BY <1>b, <3>1, Zenon DEF Finished
    <2> QED
      BY <1>a, <1>c, <1>3, <2>1, FinishedCount, LogAssumption DEF SpaceInv, Types
  <1>5. HeadInv'
    <2>1. lh # <<>> => 1 \in 1..Len(lh)
      BY <1>a DEF Types
    <2> QED
      BY <1>a, <1>b, <1>4, <2>1 DEF HeadInv, Distinct
  <1>6. CopyInv' /\ CacheInv'
    BY <1>a, <1>b DEF CopyInv, CacheInv, Blocks
  <1> QED
    BY <1>1, <1>2, <1>3, <1>5, <1>6, Zenon DEF IInv

-----------------------------------------------------------------------------
(* The commit *)

\* What the steps of commit() and of the recovery leave alone.
LEMMA NoOps ==
  ASSUME IInv, UNCHANGED <<outstanding, pc, buf, wrote>>
  PROVE  /\ UNCHANGED Ops
         /\ lh' = lh => SpaceInv'
         /\ Types /\ OpInv /\ SpaceInv /\ HeadInv /\ CopyInv /\ CacheInv
  <1>1. UNCHANGED Ops
    BY Zenon DEF Ops
  <1>2. ASSUME lh' = lh PROVE SpaceInv'
    BY <1>2, Zenon DEF IInv, SpaceInv, Finished
  <1> QED
    BY <1>1, <1>2, Zenon DEF IInv

\* write_log() copies one block.
LEMMA WriteLogStep ==
  ASSUME IInv, LogRoom, WriteLog
  PROVE  IInv'
  <1>b. /\ phase = "write_log" /\ ~panicked
        /\ logged' = [logged EXCEPT ![tail] = cache[lh[tail]]]
        /\ Advance("write_log", "write_head")
        /\ UNCHANGED <<lh, outstanding, committing, pc, buf, wrote, cache, dirty, home, head,
                       panicked>>
    BY Zenon DEF WriteLog, Committing, Up, ops, mem
  <1>a. /\ UNCHANGED Ops /\ SpaceInv'
        /\ Types /\ OpInv /\ SpaceInv /\ HeadInv /\ CopyInv /\ CacheInv
    BY <1>b, NoOps, Zenon
  <1>c. /\ tail \in 1..Len(lh) /\ tail \in 1..(nlog - 1) /\ Len(lh) \in Nat /\ lh[tail] \in Block
        /\ nlog - 1 \in Nat
    BY <1>a, <1>b, LogAssumption DEF HeadInv, Types, LogRoom
  <1>d. \/ tail < Len(lh) /\ tail' = tail + 1 /\ phase' = "write_log"
        \/ tail = Len(lh) /\ tail' = 1 /\ phase' = "write_head"
    BY <1>b, <1>c DEF Advance
  <1>1. Types'
    BY <1>a, <1>b, <1>c, <1>d, TailNext, Zenon DEF Types, Phases
  <1>2. OpInv'
    BY <1>a, <1>b, <1>d, Zenon DEF OpInv, Recovering
  <1>3. HeadInv'
    BY <1>a, <1>b, <1>c, <1>d DEF HeadInv, Distinct
  <1>4. CopyInv'
    <2>1. \A i \in 1..tail : logged'[i] = cache[lh[i]]
      BY <1>a, <1>b, <1>c DEF CopyInv, Types
    <2> QED
      BY <1>b, <1>c, <1>d, <2>1 DEF CopyInv
  <1>5. CacheInv'
    BY <1>a, <1>b, <1>d, Zenon DEF CacheInv, Blocks
  <1> QED
    BY <1>1, <1>a, <1>2, <1>3, <1>4, <1>5, Zenon DEF IInv

\* write_head() makes the log count.
LEMMA WriteHeadStep ==
  ASSUME IInv, WriteHead
  PROVE  IInv'
  <1>b. /\ phase = "write_head" /\ ~panicked /\ head' = lh /\ phase' = "install"
        /\ UNCHANGED <<lh, outstanding, committing, pc, buf, wrote, cache, dirty, tail, home, logged,
                       panicked>>
    BY Zenon DEF WriteHead, Committing, Up, ops, mem
  <1>a. /\ UNCHANGED Ops /\ SpaceInv'
        /\ Types /\ OpInv /\ SpaceInv /\ HeadInv /\ CopyInv /\ CacheInv
    BY <1>b, NoOps, Zenon
  <1>c. tail = 1 /\ tail \in 1..Len(lh) /\ Len(lh) \in Nat
    BY <1>a, <1>b DEF HeadInv, Types
  <1>1. Types'
    BY <1>a, <1>b, Zenon DEF Types, Phases
  <1>2. OpInv'
    BY <1>a, <1>b, Zenon DEF OpInv, Recovering
  <1>3. HeadInv'
    BY <1>a, <1>b, <1>c, Zenon DEF HeadInv, Distinct
  <1>4. CopyInv'
    BY <1>a, <1>b, <1>c DEF CopyInv
  <1>5. CacheInv'
    BY <1>a, <1>b, <1>c, Zenon DEF CacheInv, Blocks
  <1> QED
    BY <1>1, <1>a, <1>2, <1>3, <1>4, <1>5, Zenon DEF IInv

\* A turn of install_trans(): the block at home and in memory is the logged one.
LEMMA Installed ==
  ASSUME IInv, LogRoom, Install, phase \in {"install", "reinstall"}
  PROVE  /\ tail \in 1..Len(lh) /\ Len(lh) \in Nat /\ lh[tail] \in Block /\ logged[tail] \in Value
         /\ home' \in [Block -> Value] /\ cache' \in [Block -> Value]
         /\ \A i \in 1..tail : home'[lh[i]] = logged[i]
         /\ \A b \in Block : b # lh[tail] => home'[b] = home[b]
         /\ \A b \in Block : b # lh[tail] => cache'[b] = cache[b]
         /\ cache'[lh[tail]] = logged[tail] /\ home'[lh[tail]] = logged[tail]
  <1>1. /\ tail \in 1..Len(lh) /\ Len(lh) \in Nat /\ Len(lh) <= nlog - 1 /\ lh \in Seq(Block)
        /\ home \in [Block -> Value] /\ cache \in [Block -> Value]
        /\ logged \in [1..(nlog - 1) -> Value]
    BY LogAssumption DEF IInv, Types, HeadInv, LogRoom
  <1>2. lh[tail] \in Block /\ logged[tail] \in Value /\ \A i \in 1..tail : lh[i] \in Block
    BY <1>1, LogAssumption
  <1>3. \A i \in 1..(tail - 1) : home[lh[i]] = logged[i] /\ lh[i] # lh[tail]
    BY <1>1 DEF IInv, CopyInv, HeadInv, Distinct
  <1> QED
    BY <1>1, <1>2, <1>3 DEF Install

\* install_trans() in a commit changes nothing that operations read.
LEMMA InstallUnread ==
  ASSUME IInv, LogRoom, InstallTrans
  PROVE  cache' = cache
  <1>1. Install /\ phase = "install"
    BY Zenon DEF InstallTrans, Committing
  <1>2. logged[tail] = cache[lh[tail]]
    BY <1>1, Installed, Zenon DEF IInv, CopyInv
  <1> QED
    BY <1>1, <1>2, Installed DEF IInv, Types

\* install_trans() in a commit.
LEMMA InstallTransStep ==
  ASSUME IInv, LogRoom, InstallTrans
  PROVE  IInv'
  <1>b. /\ phase = "install" /\ ~panicked /\ Install /\ Advance("install", "clear")
        /\ dirty' = dirty \ {lh[tail]}
        /\ UNCHANGED <<lh, outstanding, committing, pc, buf, wrote, cache, logged, head, panicked>>
    BY InstallUnread, Zenon DEF InstallTrans, Install, Committing, Up, ops
  <1>a. /\ UNCHANGED Ops /\ SpaceInv'
        /\ Types /\ OpInv /\ SpaceInv /\ HeadInv /\ CopyInv /\ CacheInv
    BY <1>b, NoOps, Zenon
  <1>c. /\ tail \in 1..Len(lh) /\ Len(lh) \in Nat /\ lh[tail] \in Block
        /\ home' \in [Block -> Value]
        /\ \A i \in 1..tail : home'[lh[i]] = logged[i]
        /\ \A b \in Block : b # lh[tail] => home'[b] = home[b]
        /\ cache'[lh[tail]] = home'[lh[tail]]
    BY <1>b, Installed, Zenon
  <1>d. \/ tail < Len(lh) /\ tail' = tail + 1 /\ phase' = "install"
        \/ tail = Len(lh) /\ tail' = 1 /\ phase' = "clear"
    BY <1>b, <1>c DEF Advance
  <1>1. Types'
    BY <1>a, <1>b, <1>c, <1>d, TailNext, Zenon DEF Types, Phases
  <1>2. OpInv'
    BY <1>a, <1>b, <1>d, Zenon DEF OpInv, Recovering
  <1>3. HeadInv'
    BY <1>a, <1>b, <1>c, <1>d DEF HeadInv, Distinct
  <1>4. CopyInv'
    BY <1>a, <1>b, <1>c, <1>d DEF CopyInv
  <1>5. CacheInv'
    <2>1. dirty' = {lh[i] : i \in (tail + 1)..Len(lh)}
      BY <1>a, <1>b, <1>c DEF CacheInv, HeadInv, Distinct
    <2>2. \A b \in Block : b \notin dirty' /\ (\A q \in Proc : buf[q] # b) => cache[b] = home'[b]
      BY <1>a, <1>b, <1>c, Zenon DEF CacheInv
    <2> QED
      BY <1>b, <1>c, <1>d, <2>1, <2>2 DEF CacheInv
  <1> QED
    BY <1>1, <1>a, <1>2, <1>3, <1>4, <1>5, Zenon DEF IInv

\* The empty log has no blocks.
LEMMA EmptyLog ==
  ASSUME IInv, lh' = <<>>, UNCHANGED <<outstanding, wrote>>, Ops = {}
  PROVE  SpaceInv' /\ Blocks(<<>>) = {} /\ Distinct(<<>>) /\ <<>> \in Seq(Block) /\ Len(<<>>) = 0
  <1>1. Blocks(<<>>) = {} /\ Distinct(<<>>) /\ <<>> \in Seq(Block) /\ Len(<<>>) = 0
    BY DEF Blocks, Distinct
  <1>2. Finished' = {}
    BY <1>1, Zenon DEF Finished
  <1>3. outstanding' = 0
    BY FS_EmptySet, Zenon DEF IInv, OpInv
  <1>4. IsFiniteSet(Finished') /\ Cardinality(Finished') = 0
    BY <1>2, FS_EmptySet, Zenon
  <1> QED
    BY <1>1, <1>3, <1>4, LogAssumption DEF IInv, SpaceInv

\* The commit ends with the log cleared.
LEMMA ClearHeadStep ==
  ASSUME IInv, ClearHead
  PROVE  IInv'
  <1>b. /\ phase = "clear" /\ ~panicked /\ lh' = <<>> /\ head' = <<>> /\ phase' = "finish"
        /\ UNCHANGED <<outstanding, committing, pc, buf, wrote, cache, dirty, tail, home, logged,
                       panicked>>
    BY Zenon DEF ClearHead, Committing, Up, ops, mem
  <1>a. /\ UNCHANGED Ops
        /\ Types /\ OpInv /\ SpaceInv /\ HeadInv /\ CopyInv /\ CacheInv
    BY <1>b, NoOps, Zenon
  <1>c. Ops = {}
    BY <1>a, <1>b, Zenon DEF OpInv
  <1>d. SpaceInv' /\ Blocks(<<>>) = {} /\ Distinct(<<>>) /\ <<>> \in Seq(Block) /\ Len(<<>>) = 0
    BY <1>b, <1>c, EmptyLog, Zenon
  <1>1. Types'
    BY <1>a, <1>b, <1>d, Zenon DEF Types, Phases
  <1>2. OpInv'
    BY <1>a, <1>b, Zenon DEF OpInv, Recovering
  <1>3. HeadInv' /\ CopyInv'
    BY <1>a, <1>b, <1>d, LogAssumption DEF HeadInv, CopyInv
  <1>4. CacheInv'
    BY <1>a, <1>b, <1>d, Zenon DEF CacheInv
  <1> QED
    BY <1>1, <1>d, <1>2, <1>3, <1>4, Zenon DEF IInv

\* The committer wakes the sleepers and is done.
LEMMA EndCommitStep ==
  ASSUME IInv, NEW p \in Proc, EndCommit(p)
  PROVE  IInv'
  <1>b. /\ phase = "finish" /\ ~panicked /\ pc[p] = "commit" /\ committing' = FALSE
        /\ phase' = "run" /\ pc' = [WakeAll EXCEPT ![p] = "idle"]
        /\ UNCHANGED <<lh, outstanding, buf, wrote, cache, dirty, tail, home, logged, head, panicked>>
    BY Zenon DEF EndCommit, Committing, Up, mem, disk
  <1>a. Types /\ OpInv /\ SpaceInv /\ HeadInv /\ CopyInv /\ CacheInv
    BY Zenon DEF IInv
  <1>c. Ops' = Ops /\ Ops = {} /\ \A q \in Proc : pc'[q] # "asleep"
    BY <1>a, <1>b, Zenon DEF Ops, OpInv, Types, WakeAll
  <1>1. Types'
    BY <1>a, <1>b, Zenon DEF Types, Phases, WakeAll
  <1>2. OpInv'
    BY <1>a, <1>b, <1>c, Zenon DEF OpInv, Recovering, HeadInv, Ops
  <1>3. SpaceInv' /\ HeadInv' /\ CopyInv'
    BY <1>a, <1>b DEF SpaceInv, Finished, HeadInv, CopyInv, Distinct
  <1>4. CacheInv'
    BY <1>a, <1>b, Zenon DEF CacheInv
  <1> QED
    BY <1>1, <1>2, <1>3, <1>4, Zenon DEF IInv

-----------------------------------------------------------------------------
(* Crash and recovery *)

\* A crash loses what is in memory.
LEMMA CrashStep ==
  ASSUME IInv, Crash
  PROVE  IInv'
  <1>a. Types /\ OpInv /\ SpaceInv /\ HeadInv
    BY Zenon DEF IInv
  <1>b. /\ phase' = "boot" /\ tail' = 1 /\ lh' = <<>> /\ outstanding' = 0 /\ committing' = FALSE
        /\ pc' = [p \in Proc |-> "idle"] /\ buf' = [p \in Proc |-> None]
        /\ wrote' = [p \in Proc |-> {}] /\ cache' = home /\ dirty' = {} /\ panicked' = FALSE
        /\ UNCHANGED <<home, logged, head>>
    BY Zenon DEF Crash, disk
  <1>c. Ops' = {} /\ Finished' = {}
    BY <1>b DEF Ops, Finished, Blocks
  <1>d. IsFiniteSet({}) /\ Cardinality({}) = 0
    BY FS_EmptySet, Zenon
  <1>1. Types'
    <2>1. lh' \in Seq(Block)
      <3>1. <<>> \in Seq(Block)
        OBVIOUS
      <3> QED
        BY <1>b, <3>1, Zenon
    <2>3. phase' \in Phases /\ committing' \in BOOLEAN /\ panicked' \in BOOLEAN
      BY <1>b, Zenon DEF Phases
    <2>2. /\ pc' \in [Proc -> {"idle", "begin", "asleep", "op", "commit"}]
          /\ buf' \in [Proc -> Block \cup {None}] /\ wrote' \in [Proc -> SUBSET Block]
      BY <1>b, Zenon
    <2> QED
      BY <1>a, <1>b, <2>1, <2>2, <2>3, TailFirst, Zenon DEF Types
  <1>2. OpInv'
    BY <1>b, <1>c, <1>d, Zenon DEF OpInv, Recovering
  <1>3. SpaceInv'
    BY <1>b, <1>c, <1>d, LogAssumption DEF SpaceInv
  <1>4. HeadInv' /\ CopyInv' /\ CacheInv'
    BY <1>a, <1>b, LogAssumption DEF HeadInv, CopyInv, CacheInv, Distinct
  <1> QED
    BY <1>1, <1>2, <1>3, <1>4, Zenon DEF IInv

\* recover_from_log() finds the blocks of a commit that was made, or none.
LEMMA ReadHeadStep ==
  ASSUME IInv, ReadHead
  PROVE  IInv'
  <1>b. /\ phase = "boot" /\ lh' = head
        /\ phase' = (IF head = <<>> THEN "reclear" ELSE "reinstall")
        /\ UNCHANGED <<outstanding, committing, pc, buf, wrote, cache, dirty, tail, home, logged, head,
                       panicked>>
    BY Zenon DEF ReadHead, ops, mem, disk
  <1>a. /\ UNCHANGED Ops
        /\ Types /\ OpInv /\ SpaceInv /\ HeadInv /\ CopyInv /\ CacheInv
    BY <1>b, NoOps, Zenon
  <1>c. head # <<>> => 1 \in 1..Len(head)
    BY <1>a DEF Types
  <1>1. Types'
    BY <1>a, <1>b, Zenon DEF Types, Phases
  <1>2. OpInv'
    BY <1>a, <1>b, Zenon DEF OpInv, Recovering
  <1>3. SpaceInv'
    <2>1. Finished' \in SUBSET Blocks(head)
      BY <1>b, Zenon DEF Finished
    <2>2. IsFiniteSet(Blocks(head)) /\ Cardinality(Blocks(head)) <= LOGSIZE
          /\ Cardinality(Blocks(head)) \in Nat
      BY <1>a, DistinctCount DEF HeadInv, Types
    <2>3. IsFiniteSet(Finished') /\ Cardinality(Finished') <= LOGSIZE /\ Cardinality(Finished') \in Nat
      BY <2>1, <2>2, FS_Subset, FS_CardinalityType, LogAssumption
    <2>4. outstanding' = 0
      BY <1>a, <1>b, FS_EmptySet, Zenon DEF OpInv
    <2> QED
      BY <1>a, <1>b, <2>3, <2>4, LogAssumption DEF SpaceInv
  <1>4. HeadInv'
    BY <1>a, <1>b, <1>c, Zenon DEF HeadInv
  <1>5. CopyInv' /\ CacheInv'
    BY <1>a, <1>b, <1>c DEF CopyInv, CacheInv, HeadInv
  <1> QED
    BY <1>1, <1>2, <1>3, <1>4, <1>5, Zenon DEF IInv

\* Before the system is up, memory holds the blocks as they are at home.
LEMMA RecoveryReads ==
  ASSUME IInv, phase \in {"boot", "reinstall", "reclear"}
  PROVE  cache = home /\ Ops = {} /\ dirty = {} /\ \A q \in Proc : buf[q] = None
  <1>1. Ops = {} /\ dirty = {} /\ \A q \in Proc : buf[q] = None
    BY Zenon DEF IInv, OpInv, CacheInv, Types, Recovering
  <1>2. \A b \in Block : cache[b] = home[b]
    BY <1>1, BlockAssumption, Zenon DEF IInv, CacheInv
  <1> QED
    BY <1>1, <1>2 DEF IInv, Types

\* install_trans() in a recovery.
LEMMA ReinstallTransStep ==
  ASSUME IInv, LogRoom, ReinstallTrans
  PROVE  IInv'
  <1>b. /\ phase = "reinstall" /\ Install /\ Advance("reinstall", "reclear")
        /\ dirty' = dirty \ {lh[tail]}
        /\ UNCHANGED <<lh, outstanding, committing, pc, buf, wrote, logged, head, panicked>>
    BY Zenon DEF ReinstallTrans, Install, ops
  <1>a. /\ UNCHANGED Ops /\ SpaceInv' /\ cache = home /\ dirty = {}
        /\ Types /\ OpInv /\ SpaceInv /\ HeadInv /\ CopyInv /\ CacheInv
    BY <1>b, NoOps, RecoveryReads, Zenon
  <1>c. /\ tail \in 1..Len(lh) /\ Len(lh) \in Nat /\ lh[tail] \in Block
        /\ home' \in [Block -> Value] /\ cache' = home'
        /\ \A i \in 1..tail : home'[lh[i]] = logged[i]
    BY <1>a, <1>b, Installed, Zenon DEF Install
  <1>d. \/ tail < Len(lh) /\ tail' = tail + 1 /\ phase' = "reinstall"
        \/ tail = Len(lh) /\ tail' = 1 /\ phase' = "reclear"
    BY <1>b, <1>c DEF Advance
  <1>1. Types'
    BY <1>a, <1>b, <1>c, <1>d, TailNext, Zenon DEF Types, Phases
  <1>2. OpInv'
    BY <1>a, <1>b, <1>d, Zenon DEF OpInv, Recovering
  <1>3. HeadInv'
    BY <1>a, <1>b, <1>c, <1>d DEF HeadInv, Distinct
  <1>4. CopyInv' /\ CacheInv'
    BY <1>a, <1>b, <1>c, <1>d DEF CopyInv, CacheInv
  <1> QED
    BY <1>1, <1>a, <1>2, <1>3, <1>4, Zenon DEF IInv

\* The recovery ends with the log cleared.
LEMMA ReclearHeadStep ==
  ASSUME IInv, ReclearHead
  PROVE  IInv'
  <1>b. /\ phase = "reclear" /\ lh' = <<>> /\ head' = <<>> /\ phase' = "run"
        /\ UNCHANGED <<outstanding, committing, pc, buf, wrote, cache, dirty, tail, home, logged,
                       panicked>>
    BY Zenon DEF ReclearHead, ops, mem
  <1>a. /\ UNCHANGED Ops /\ Ops = {} /\ cache = home /\ dirty = {}
        /\ Types /\ OpInv /\ SpaceInv /\ HeadInv /\ CopyInv /\ CacheInv
    BY <1>b, NoOps, RecoveryReads, Zenon
  <1>c. SpaceInv' /\ Blocks(<<>>) = {} /\ Distinct(<<>>) /\ <<>> \in Seq(Block) /\ Len(<<>>) = 0
    BY <1>a, <1>b, EmptyLog, Zenon
  <1>1. Types'
    BY <1>a, <1>b, <1>c, Zenon DEF Types, Phases
  <1>2. OpInv'
    BY <1>a, <1>b, Zenon DEF OpInv, Recovering
  <1>3. HeadInv' /\ CopyInv'
    BY <1>a, <1>b, <1>c, LogAssumption DEF HeadInv, CopyInv
  <1>4. CacheInv'
    BY <1>a, <1>b, <1>c, Zenon DEF CacheInv
  <1> QED
    BY <1>1, <1>c, <1>2, <1>3, <1>4, Zenon DEF IInv

-----------------------------------------------------------------------------
(* The invariant *)

\* A fresh file system satisfies the invariant.
LEMMA InitIInv == Init => IInv
  <1> SUFFICES ASSUME Init PROVE IInv
    BY Zenon
  <1>a. Ops = {} /\ Finished = {} /\ IsFiniteSet({}) /\ Cardinality({}) = 0
    BY FS_EmptySet DEF Init, Ops, Finished, Blocks
  <1>b. home \in [Block -> Value] /\ logged \in [1..(nlog - 1) -> Value]
    BY ZeroAssumption, Zenon DEF Init
  <1>1. Types
    <2>1. lh \in Seq(Block)
      <3>1. <<>> \in Seq(Block)
        OBVIOUS
      <3> QED
        BY <3>1, Zenon DEF Init
    <2>3. phase \in Phases /\ committing \in BOOLEAN /\ panicked \in BOOLEAN
      BY Zenon DEF Init, Phases
    <2>2. /\ pc \in [Proc -> {"idle", "begin", "asleep", "op", "commit"}]
          /\ buf \in [Proc -> Block \cup {None}] /\ wrote \in [Proc -> SUBSET Block]
      BY Zenon DEF Init
    <2> QED
      BY <1>b, <2>1, <2>2, <2>3, TailFirst, Zenon DEF Init, Types
  <1>2. OpInv
    BY <1>a, Zenon DEF Init, OpInv, Recovering
  <1>3. SpaceInv
    BY <1>a, LogAssumption DEF Init, SpaceInv
  <1>4. HeadInv /\ CopyInv /\ CacheInv
    BY LogAssumption DEF Init, HeadInv, CopyInv, CacheInv, Distinct
  <1> QED
    BY <1>1, <1>2, <1>3, <1>4, Zenon DEF IInv

\* Nothing happens.
LEMMA StutterStep ==
  ASSUME IInv, UNCHANGED vars
  PROVE  IInv'
  <1>1. UNCHANGED <<lh, outstanding, committing, pc, buf, wrote, cache, dirty, phase, tail, home, logged,
                    head, panicked>>
    BY Zenon DEF vars, ops, mem, disk
  <1>2. Types' /\ OpInv' /\ SpaceInv'
    BY <1>1, Zenon DEF IInv, Types, OpInv, SpaceInv, Ops, Finished, Recovering
  <1>3. HeadInv'
    BY <1>1, Zenon DEF IInv, HeadInv
  <1>4. CopyInv'
    BY <1>1, Zenon DEF IInv, CopyInv
  <1>5. CacheInv'
    BY <1>1, Zenon DEF IInv, CacheInv
  <1> QED
    BY <1>2, <1>3, <1>4, <1>5, Zenon DEF IInv

\* Every step of the operations, the commit, a crash and the recovery preserves the
\* invariant.
LEMMA NextIInv ==
  ASSUME LogRoom, IInv, [Next]_vars
  PROVE  IInv'
  <1>1. ASSUME NEW p \in Proc, ProcStep(p) PROVE IInv'
    BY <1>1, BeginOpStep, BeginSleepStep, LogWriteStep, EndOpStep, EndLastStep, EndCommitStep,
       ModifyStep, Zenon DEF ProcStep
  <1>2. ASSUME NEW b \in Block, Evict(b) PROVE IInv'
    BY <1>2, EvictUnchanged, StutterStep, Zenon
  <1>3. CASE LogStep
    BY <1>3, WriteLogStep, WriteHeadStep, InstallTransStep, ClearHeadStep, ReadHeadStep,
       ReinstallTransStep, ReclearHeadStep, Zenon DEF LogStep
  <1> QED
    BY <1>1, <1>2, <1>3, CrashStep, StutterStep, Zenon DEF Next

-----------------------------------------------------------------------------
(* Log implements AtomicDisk *)

\* What a reboot makes of a header h, log blocks l and home blocks m.
DurableOf(h, l, m) ==
  [b \in Block |-> IF \E i \in 1..Len(h) : h[i] = b
                   THEN l[CHOOSE i \in 1..Len(h) : h[i] = b] ELSE m[b]]

\* Durable is that of the disk.
LEMMA DurableNow == Durable = DurableOf(head, logged, home)
  BY Zenon DEF Durable, DurableOf

\* The blocks in the header come from the log, the others from their homes.
LEMMA DurableAt ==
  ASSUME NEW h \in Seq(Block), Distinct(h), NEW l, NEW m
  PROVE  /\ \A i \in 1..Len(h) : DurableOf(h, l, m)[h[i]] = l[i]
         /\ \A b \in Block \ Blocks(h) : DurableOf(h, l, m)[b] = m[b]
  <1>1. ASSUME NEW i \in 1..Len(h) PROVE DurableOf(h, l, m)[h[i]] = l[i]
    <2>1. h[i] \in Block /\ \E j \in 1..Len(h) : h[j] = h[i]
      OBVIOUS
    <2>2. (CHOOSE j \in 1..Len(h) : h[j] = h[i]) = i
      BY Zenon DEF Distinct
    <2> QED
      BY <2>1, <2>2, Zenon DEF DurableOf
  <1>2. ASSUME NEW b \in Block \ Blocks(h) PROVE DurableOf(h, l, m)[b] = m[b]
    BY Zenon DEF DurableOf, Blocks
  <1> QED
    BY <1>1, <1>2, Zenon

\* A disk is known by its blocks.
LEMMA DurableIs ==
  ASSUME NEW h \in Seq(Block), Distinct(h), NEW l, NEW m, NEW f, f = [b \in Block |-> f[b]],
         \A i \in 1..Len(h) : f[h[i]] = l[i],
         \A b \in Block \ Blocks(h) : f[b] = m[b]
  PROVE  DurableOf(h, l, m) = f
  <1>1. ASSUME NEW b \in Block PROVE DurableOf(h, l, m)[b] = f[b]
    <2>1. CASE b \in Blocks(h)
      BY <2>1, DurableAt DEF Blocks
    <2>2. CASE b \notin Blocks(h)
      BY <2>2, DurableAt
    <2> QED
      BY <2>1, <2>2, Zenon
  <1>2. DurableOf(h, l, m) = [b \in Block |-> DurableOf(h, l, m)[b]]
    BY Zenon DEF DurableOf
  <1> QED
    BY <1>1, <1>2, Zenon

View == IF phase \in {"boot", "reinstall", "reclear"} THEN Durable ELSE cache
Same == UNCHANGED <<Durable, View, Ops>>

\* Steps that leave the disk and what is read alone.
LEMMA DiskUnchanged ==
  ASSUME UNCHANGED <<home, logged, head>>
  PROVE  Durable' = Durable
  BY Zenon DEF Durable

\* With an empty header, or when all is installed, the disk is what is at home.
LEMMA DurableHome ==
  ASSUME IInv, phase \in {"run", "write_log", "write_head", "finish", "clear", "reclear"}
  PROVE  Durable = home
  <1>1. /\ head \in Seq(Block) /\ Distinct(head) /\ home = [b \in Block |-> home[b]]
        /\ \A i \in 1..Len(head) : home[head[i]] = logged[i]
    BY DEF IInv, Types, HeadInv, CopyInv
  <1>2. DurableOf(head, logged, home) = home
    BY <1>1, DurableIs
  <1> QED
    BY <1>2, DurableNow, Zenon

\* install_trans() does not change what a reboot finds.
LEMMA InstallDurable ==
  ASSUME IInv, LogRoom, Install, phase \in {"install", "reinstall"}
  PROVE  Durable' = Durable
  <1>1. /\ head \in Seq(Block) /\ Distinct(head) /\ head' = head /\ logged' = logged
        /\ lh[tail] \in Blocks(head) /\ \A b \in Block \ Blocks(head) : home'[b] = home[b]
    BY Installed DEF IInv, Types, HeadInv, Install, Blocks
  <1>2. /\ \A i \in 1..Len(head) : Durable[head[i]] = logged[i]
        /\ \A b \in Block \ Blocks(head) : Durable[b] = home'[b]
    BY <1>1, DurableAt, DurableNow
  <1>3. Durable = [b \in Block |-> Durable[b]]
    BY Zenon DEF Durable
  <1>4. DurableOf(head, logged, home') = Durable
    BY <1>1, <1>2, <1>3, DurableIs
  <1> QED
    BY <1>1, <1>4, Zenon DEF Durable, DurableOf

\* The real commit makes durable what operations have left in memory.
LEMMA CommitDurable ==
  ASSUME IInv, WriteHead
  PROVE  Durable' = cache
  <1>1. /\ phase = "write_head" /\ head' = lh /\ UNCHANGED <<logged, home>>
    BY Zenon DEF WriteHead, Committing
  <1>2. /\ lh \in Seq(Block) /\ Distinct(lh) /\ cache = [b \in Block |-> cache[b]]
        /\ \A i \in 1..Len(lh) : cache[lh[i]] = logged[i]
    BY <1>1, Zenon DEF IInv, Types, HeadInv, CopyInv
  <1>3. \A b \in Block \ Blocks(lh) : cache[b] = home[b]
    <2>1. \A q \in Proc : buf[q] = None
      BY <1>1, Zenon DEF IInv, OpInv, Ops, Types
    <2> QED
      BY <1>1, <2>1, BlockAssumption, Zenon DEF IInv, CacheInv
  <1>4. DurableOf(lh, logged, home) = cache
    BY <1>2, <1>3, DurableIs
  <1> QED
    BY <1>1, <1>4, Zenon DEF Durable, DurableOf

\* The same of the next state.
LEMMA DurableHomeNext ==
  ASSUME IInv', phase' \in {"run", "write_log", "write_head", "finish", "clear", "reclear"}
  PROVE  Durable' = home'
  <1>1. /\ head' \in Seq(Block) /\ Distinct(head') /\ home' = [b \in Block |-> home'[b]]
        /\ \A i \in 1..Len(head') : home'[head'[i]] = logged'[i]
    BY DEF IInv, Types, HeadInv, CopyInv
  <1>2. DurableOf(head', logged', home') = home'
    BY <1>1, DurableIs
  <1> QED
    BY <1>2, Zenon DEF Durable, DurableOf

\* begin_op(), log_write() and end_op() are the operations of AtomicDisk.
LEMMA ProcStepAtomic ==
  ASSUME IInv, NEW p \in Proc, ProcStep(p)
  PROVE  \/ Same
         \/ Atomic!Begin(p) \/ Atomic!End(p) \/ \E b \in Block, v \in Value : Atomic!Write(p, b, v)
  <1>a. Types /\ OpInv
    BY Zenon DEF IInv
  <1>1. CASE BeginOp(p)
    <2>1. p \notin Ops /\ Ops' = Ops \cup {p} /\ UNCHANGED <<home, logged, head, phase, cache>>
      BY <1>1, <1>a, Zenon DEF BeginOp, Ops, Types, mem, disk
    <2> QED
      BY <2>1, DiskUnchanged, Zenon DEF Atomic!Begin, Ops
  <1>2. CASE BeginSleep(p)
    <2>1. Ops' = Ops /\ UNCHANGED <<home, logged, head, phase, cache>>
      BY <1>2, <1>a, Zenon DEF BeginSleep, Ops, Types, mem, disk
    <2> QED
      BY <2>1, DiskUnchanged, Zenon DEF Same, View
  <1>3. CASE LogWrite(p)
    <2>1. Ops' = Ops /\ UNCHANGED <<home, logged, head, phase, cache>>
      BY <1>3, Zenon DEF LogWrite, Ops, disk
    <2> QED
      BY <2>1, DiskUnchanged, Zenon DEF Same, View
  <1>4. CASE EndOp(p)
    <2>1. p \in Ops /\ Ops' = Ops \ {p} /\ UNCHANGED <<home, logged, head, phase, cache>>
      BY <1>4, <1>a, Zenon DEF EndOp, WakeAll, Ops, Types, mem, disk
    <2> QED
      BY <2>1, DiskUnchanged, Zenon DEF Atomic!End, Ops
  <1>5. CASE EndLast(p)
    <2>1. /\ p \in Ops /\ Ops' = Ops \ {p} /\ UNCHANGED <<home, logged, head, cache>>
          /\ phase \notin {"boot", "reinstall", "reclear"}
          /\ phase' \notin {"boot", "reinstall", "reclear"}
      BY <1>5, <1>a, Zenon DEF EndLast, Up, Ops, Types, mem, disk
    <2> QED
      BY <2>1, DiskUnchanged, Zenon DEF Atomic!End, Ops
  <1>6. CASE EndCommit(p)
    <2>1. /\ Ops' = Ops /\ UNCHANGED <<home, logged, head, cache>>
          /\ phase = "finish" /\ phase' = "run"
      BY <1>6, <1>a, Zenon DEF EndCommit, Committing, WakeAll, Ops, Types, mem, disk
    <2> QED
      BY <2>1, DiskUnchanged, Zenon DEF Same, View
  <1>7. ASSUME NEW b \in Block, NEW v \in Value, Modify(p, b, v) PROVE Atomic!Write(p, b, v)
    <2>1. /\ p \in Ops /\ Ops' = Ops /\ UNCHANGED <<home, logged, head, phase>>
          /\ phase \notin {"boot", "reinstall", "reclear"} /\ cache' = [cache EXCEPT ![b] = v]
      BY <1>7, Zenon DEF Modify, Up, Ops, disk
    <2> QED
      BY <2>1, DiskUnchanged, Zenon DEF Atomic!Write, Ops
  <1> QED
    BY <1>1, <1>2, <1>3, <1>4, <1>5, <1>6, <1>7, Zenon DEF ProcStep

\* The writes of commit() and of the recovery are not seen, but for the one that commits.
LEMMA LogStepAtomic ==
  ASSUME IInv, IInv', LogRoom, LogStep
  PROVE  Same \/ Atomic!Commit
  <1>1. CASE WriteLog
    <2>1. /\ Ops' = Ops /\ UNCHANGED <<cache, home>> /\ phase = "write_log"
          /\ phase' \in {"write_log", "write_head"}
      BY <1>1, Zenon DEF WriteLog, Committing, Advance, Ops, ops, mem
    <2>2. Durable = home /\ Durable' = home'
      BY <2>1, DurableHome, DurableHomeNext, Zenon
    <2> QED
      BY <2>1, <2>2, Zenon DEF Same, View
  <1>2. CASE WriteHead
    <2>1. /\ Ops = {} /\ Ops' = Ops /\ cache' = cache /\ phase = "write_head" /\ phase' = "install"
      BY <1>2, Zenon DEF WriteHead, Committing, Ops, ops, mem, IInv, OpInv
    <2> QED
      BY <1>2, <2>1, CommitDurable, Zenon DEF Atomic!Commit, Ops
  <1>3. CASE InstallTrans
    <2>1. /\ Ops' = Ops /\ Install /\ phase = "install" /\ phase' \in {"install", "clear"}
      BY <1>3, Zenon DEF InstallTrans, Install, Committing, Advance, Ops, ops
    <2> QED
      BY <1>3, <2>1, InstallDurable, InstallUnread, Zenon DEF Same, View
  <1>4. CASE ClearHead
    <2>1. /\ Ops' = Ops /\ UNCHANGED <<cache, home>> /\ phase = "clear" /\ phase' = "finish"
      BY <1>4, Zenon DEF ClearHead, Committing, Ops, ops, mem
    <2>2. Durable = home /\ Durable' = home'
      BY <2>1, DurableHome, DurableHomeNext, Zenon
    <2> QED
      BY <2>1, <2>2, Zenon DEF Same, View
  <1>5. CASE ReadHead
    <2>1. /\ Ops' = Ops /\ UNCHANGED <<home, logged, head>> /\ phase = "boot"
          /\ phase' \in {"reinstall", "reclear"}
      BY <1>5, Zenon DEF ReadHead, Ops, ops, disk
    <2> QED
      BY <2>1, DiskUnchanged, Zenon DEF Same, View
  <1>6. CASE ReinstallTrans
    <2>1. /\ Ops' = Ops /\ Install /\ phase = "reinstall" /\ phase' \in {"reinstall", "reclear"}
      BY <1>6, Zenon DEF ReinstallTrans, Install, Advance, Ops, ops
    <2> QED
      BY <2>1, InstallDurable, Zenon DEF Same, View
  <1>7. CASE ReclearHead
    <2>1. /\ Ops' = Ops /\ UNCHANGED <<cache, home>> /\ phase = "reclear" /\ phase' = "run"
      BY <1>7, Zenon DEF ReclearHead, Ops, ops, mem
    <2>2. Durable = home /\ Durable' = home' /\ cache = home
      BY <2>1, DurableHome, DurableHomeNext, RecoveryReads, Zenon
    <2> QED
      BY <2>1, <2>2, Zenon DEF Same, View
  <1> QED
    BY <1>1, <1>2, <1>3, <1>4, <1>5, <1>6, <1>7, Zenon DEF LogStep

\* A crash is one of AtomicDisk: what was not durable is lost.
LEMMA CrashAtomic ==
  ASSUME Crash
  PROVE  Atomic!Crash
  <1>1. Ops' = {} /\ phase' = "boot" /\ UNCHANGED <<home, logged, head>>
    BY Zenon DEF Crash, Ops, disk
  <1> QED
    BY <1>1, DiskUnchanged, Zenon DEF Atomic!Crash, Ops

\* Every step of the log is a step of AtomicDisk, or changes nothing there.
LEMMA NextAtomic ==
  ASSUME LogRoom, IInv, IInv', [Next]_vars
  PROVE  [Atomic!Next]_(Atomic!vars)
  <1>a. Same => UNCHANGED Atomic!vars
    BY Zenon DEF Same, View, Ops, Atomic!vars
  <1>1. ASSUME NEW p \in Proc, ProcStep(p) PROVE Same \/ Atomic!Next
    BY <1>1, ProcStepAtomic, Zenon DEF Atomic!Next
  <1>2. CASE LogStep
    BY <1>2, <1>a, LogStepAtomic, Zenon DEF Atomic!Next
  <1>3. CASE Crash
    BY <1>3, CrashAtomic, Zenon DEF Atomic!Next
  <1>4. ASSUME UNCHANGED vars PROVE Same
    BY <1>4, Zenon DEF Same, View, Ops, Durable, vars, ops, mem, disk
  <1> QED
    BY <1>1, <1>2, <1>3, <1>4, <1>a, EvictUnchanged, Zenon DEF Next

\* A fresh file system is a fresh disk.
LEMMA InitAtomic == Init => Atomic!Init
  <1> SUFFICES ASSUME Init PROVE Atomic!Init
    BY Zenon
  <1>1. Durable = home
    BY DEF Init, Durable
  <1> QED
    BY <1>1, Zenon DEF Init, Atomic!Init

-----------------------------------------------------------------------------
(* The log never overflows *)

\* Sets of at most m elements, one for each member of S, have at most m times as many
\* elements together.
LEMMA ManySets ==
  ASSUME NEW S, IsFiniteSet(S), NEW m \in Nat, NEW W,
         \A p \in S : IsFiniteSet(W[p]) /\ Cardinality(W[p]) <= m
  PROVE  LET U == UNION {W[p] : p \in S} IN
         IsFiniteSet(U) /\ Cardinality(U) <= Cardinality(S) * m
  <1> DEFINE U == UNION {W[p] : p \in S}
             List(p) == CHOOSE f : f \in Bijection(1..Cardinality(W[p]), W[p])
             d == CHOOSE x : x \in U
             g == [z \in S \X (1..m) |->
                     IF z[2] \in 1..Cardinality(W[z[1]]) THEN List(z[1])[z[2]] ELSE d]
  <1>0. IsFiniteSet(S \X (1..m)) /\ Cardinality(S \X (1..m)) = Cardinality(S) * m
        /\ Cardinality(S) \in Nat
    <2>1. IsFiniteSet(1..m) /\ Cardinality(1..m) = m
      BY FS_Interval
    <2> QED
      BY <2>1, FS_Product, FS_CardinalityType, Zenon
  <1>1. CASE U = {}
    <2>1. IsFiniteSet(U) /\ Cardinality(U) = 0
      BY <1>1, FS_EmptySet, Zenon
    <2>2. Cardinality(S) * m \in Nat
      BY <1>0, OneMore, Zenon
    <2> QED
      BY <2>1, <2>2
  <1>2. CASE U # {}
    <2>1. d \in U
      BY <1>2, Zenon
    <2>2. ASSUME NEW p \in S
          PROVE  /\ Cardinality(W[p]) \in Nat /\ Cardinality(W[p]) <= m
                 /\ List(p) \in Bijection(1..Cardinality(W[p]), W[p])
      <3>1. Cardinality(W[p]) \in Nat /\ ExistsBijection(1..Cardinality(W[p]), W[p])
        BY FS_CardinalityType, Zenon
      <3>2. \E f : f \in Bijection(1..Cardinality(W[p]), W[p])
        BY <3>1, Zenon DEF ExistsBijection
      <3> QED
        BY <3>1, <3>2, Zenon
    <2>3. ASSUME NEW p \in S, NEW i \in 1..Cardinality(W[p])
          PROVE  List(p)[i] \in W[p]
      BY <2>2, Zenon DEF Bijection, Injection
    <2>4. ASSUME NEW p \in S, NEW x \in W[p]
          PROVE  \E i \in 1..Cardinality(W[p]) : List(p)[i] = x
      BY <2>2, Zenon DEF Bijection, Surjection
    <2> HIDE DEF List, d
    <2>5. g \in [S \X (1..m) -> U]
      <3>1. ASSUME NEW z \in S \X (1..m) PROVE g[z] \in U
        BY <2>1, <2>3, Zenon
      <3> QED
        BY <3>1, Zenon
    <2>6. ASSUME NEW x \in U PROVE \E z \in S \X (1..m) : g[z] = x
      <3>1. PICK p \in S : x \in W[p]
        BY Zenon
      <3>2. PICK i \in 1..Cardinality(W[p]) : List(p)[i] = x
        BY <3>1, <2>4, Zenon
      <3>3. i \in 1..m
        BY <2>2, <3>2
      <3>4. <<p, i>> \in S \X (1..m) /\ g[<<p, i>>] = x
        BY <3>2, <3>3, Zenon
      <3> QED
        BY <3>4, Zenon
    <2> HIDE DEF g, U
    <2>7. g \in Surjection(S \X (1..m), U)
      BY <2>5, <2>6, Zenon DEF Surjection
    <2>8. IsFiniteSet(U) /\ Cardinality(U) <= Cardinality(S \X (1..m))
      BY <1>0, <2>7, FS_Surjection, Zenon
    <2> QED
      BY <1>0, <2>8, Zenon DEF U
  <1> QED
    BY <1>1, <1>2, Zenon

\* The log is never longer than LOGSIZE.
LEMMA LogBound ==
  ASSUME IInv
  PROVE  Len(lh) <= LOGSIZE
  <1>a. Types /\ OpInv /\ SpaceInv /\ HeadInv /\ MAXOPBLOCKS \in Nat /\ LOGSIZE \in Nat
    BY LogAssumption, Zenon DEF IInv
  <1> DEFINE U == UNION {wrote[p] : p \in Ops}
  <1>1. IsFiniteSet(U) /\ Cardinality(U) <= outstanding * MAXOPBLOCKS
    BY <1>a, ManySets DEF OpInv, SpaceInv, Ops
  <1>2. Blocks(lh) \in SUBSET (Finished \cup U)
    BY <1>a, Zenon DEF Finished, OpInv, Ops
  <1> HIDE DEF U
  <1>3. /\ IsFiniteSet(Finished \cup U)
        /\ Cardinality(Finished \cup U) <= Cardinality(Finished) + Cardinality(U)
    BY <1>1, <1>a, UnionCount, Zenon DEF SpaceInv
  <1>4. Cardinality(Blocks(lh)) <= Cardinality(Finished \cup U)
    BY <1>2, <1>3, FS_Subset, Zenon
  <1>5. /\ Cardinality(U) \in Nat /\ Cardinality(Finished) \in Nat
        /\ Cardinality(Finished \cup U) \in Nat
    BY <1>1, <1>3, <1>a, FS_CardinalityType, Zenon DEF SpaceInv
  <1>6. Cardinality(Blocks(lh)) = Len(lh) /\ Len(lh) \in Nat /\ outstanding * MAXOPBLOCKS \in Nat
    BY <1>a, FinishedCount, OneMore DEF Types
  <1>7. Cardinality(Finished) + outstanding * MAXOPBLOCKS <= LOGSIZE
    BY <1>a, Zenon DEF SpaceInv
  <1> QED
    BY <1>1, <1>3, <1>4, <1>5, <1>6, <1>7, <1>a

-----------------------------------------------------------------------------
(* Theorems *)

\* The invariant of the log holds in every run.
THEOREM LogInvariance ==
  ASSUME LogRoom
  PROVE  Spec => []IInv
  <1>1. IInv /\ [Next]_vars => IInv'
    BY NextIInv, Zenon
  <1> QED
    BY <1>1, InitIInv, PTL DEF Spec

\* commit() runs alone, over a log that fits its area on the disk, and whoever sleeps in
\* begin_op() has an operation or a commit that will wake them.
THEOREM CommitsSafe ==
  ASSUME LogRoom
  PROVE  Spec => []CommitSafe
  <1>1. IInv => CommitSafe
    <2> SUFFICES ASSUME IInv PROVE CommitSafe
      BY Zenon
    <2>a. Types /\ OpInv /\ HeadInv
      BY Zenon DEF IInv
    <2>1. LogFits /\ Len(head) < nlog
      BY <2>a, LogBound, LogAssumption DEF LogFits, LogRoom, HeadInv, Types
    <2>2. TypeOK
      BY <2>a, <2>1, Zenon DEF TypeOK, Types
    <2>3. QuietCommit
      BY <2>a, FS_EmptySet, Zenon DEF QuietCommit, OpInv, Ops
    <2> QED
      BY <2>a, <2>2, <2>3, Zenon DEF CommitSafe, SleeperHasWaker, OpInv
  <1> QED
    BY <1>1, LogInvariance, PTL

\* The log makes whole operations durable at once: every run of operations, commits,
\* crashes and recoveries is one of AtomicDisk.
THEOREM LogIsAtomic ==
  ASSUME LogRoom
  PROVE  Spec => IsAtomic
  <1>1. IInv /\ IInv' /\ [Next]_vars => [Atomic!Next]_(Atomic!vars)
    BY NextAtomic, Zenon
  <1> QED
    BY <1>1, InitAtomic, LogInvariance, PTL DEF Spec, IsAtomic, Atomic!Spec

=============================================================================
