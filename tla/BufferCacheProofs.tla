------------------------- MODULE BufferCacheProofs -------------------------
(***************************************************************************)
(* The invariant of the buffer cache and the disk driver, for any number   *)
(* of processes, blocks and buffers.  With enough buffers bget() never     *)
(* runs out of them, every sleeper of the two has somebody to wake it, and *)
(* together they implement BlockStore.                                     *)
(***************************************************************************)
EXTENDS BufferCache, FiniteSetTheorems, TLAPS

\* The log leaves a buffer for each process, which uses one at a time.
Enough == MaxPinned + Cardinality(Proc) <= NBUF

\* Where a process is between acquiresleep() and releasesleep().
Holding == {"held", "iderw", "io", "done"}

\* A process has a buffer from bget() to brelse(); what it knows of it.
ProcInv ==
  \A p \in Proc :
    /\ mine[p] = None <=> pc[p] = "idle"
    /\ mine[p] # None => buf[mine[p]].blockno \in Block
    /\ pc[p] \in Holding => buf[mine[p]].lock = p
    /\ pc[p] = "held" => buf[mine[p]].valid = TRUE
    /\ pc[p] = "done" => buf[mine[p]].valid = TRUE /\ buf[mine[p]].dirty = FALSE
    /\ pc[p] = "asleep" => buf[mine[p]].lock # None

\* A locked buffer is the one its holder uses.
LockInv ==
  \A b \in Buf : buf[b].lock # None => mine[buf[b].lock] = b /\ pc[buf[b].lock] \in Holding

\* The queue holds, once each, the buffers whose holders wait for the disk.
QueueInv ==
  /\ \A i \in 1..Len(idequeue) : buf[idequeue[i]].lock # None /\ pc[buf[idequeue[i]].lock] = "io"
  /\ \A i, j \in 1..Len(idequeue) : idequeue[i] = idequeue[j] => i = j
  /\ \A p \in Proc : pc[p] = "io" => \E i \in 1..Len(idequeue) : idequeue[i] = mine[p]

\* The controller works on the head of the queue, and has written it when it interrupts.
ControllerInv ==
  IF idequeue = <<>> THEN ctl = None /\ irq = FALSE
  ELSE LET b == idequeue[1] IN
       /\ ctl = idestart(b)
       /\ irq = TRUE /\ buf[b].dirty = TRUE => disk[buf[b].blockno] = buf[b].data

\* A block has one buffer, which is as the disk is unless it is dirty.
CacheInv ==
  /\ \A b \in Buf : buf[b].dirty = TRUE => buf[b].valid = TRUE
  /\ \A b \in Buf : buf[b].valid = TRUE => buf[b].blockno \in Block
  /\ \A b \in Buf : buf[b].valid = TRUE /\ buf[b].dirty = FALSE => buf[b].data = disk[buf[b].blockno]
  /\ \A b, c \in Buf : buf[b].blockno = buf[c].blockno /\ buf[b].blockno # None => b = c

\* But for the buffers on their way to the disk, the dirty ones are the log's.
Writing == {b \in Buf : \E p \in Proc : mine[p] = b /\ pc[p] \in {"iderw", "io"}}
PinInv == Cardinality(Pinned \ Writing) <= MaxPinned

IInv ==
  /\ TypeOK /\ ProcInv /\ LockInv /\ QueueInv /\ ControllerInv /\ CacheInv /\ RefExact /\ PinInv
  /\ (Enough => panicked = FALSE)

-----------------------------------------------------------------------------
(* Basics *)

Users(b) == {p \in Proc : mine[p] = b}
BufRec == [blockno : Block \cup {None}, valid : BOOLEAN, dirty : BOOLEAN, refcnt : Nat,
           lock : Proc \cup {None}, data : Data]

\* None is nothing else.
LEMMA NoneApart ==
  /\ None \notin Buf /\ None \notin Proc /\ None \notin Block /\ None \notin Data
  BY BufferAssumption DEF Buf

\* The sizes are numbers.
LEMMA Sizes == NBUF \in Nat /\ MaxPinned \in Nat
  BY BufferAssumption, Zenon

\* The types of what a buffer and a process have.
LEMMA Fields ==
  ASSUME TypeOK
  PROVE  /\ buf \in [Buf -> BufRec]
         /\ \A b \in Buf : /\ buf[b].blockno \in Block \cup {None} /\ buf[b].valid \in BOOLEAN
                           /\ buf[b].dirty \in BOOLEAN /\ buf[b].refcnt \in Nat
                           /\ buf[b].lock \in Proc \cup {None} /\ buf[b].data \in Data
         /\ \A p \in Proc : mine[p] \in Buf \cup {None}
  BY Zenon DEF TypeOK, BufRec

\* What the queue holds.
LEMMA Queued ==
  ASSUME TypeOK
  PROVE  /\ Len(idequeue) \in Nat /\ \A i \in 1..Len(idequeue) : idequeue[i] \in Buf
         /\ idequeue # <<>> => 1 \in 1..Len(idequeue)
  BY DEF TypeOK

\* Sets of processes are finite.
LEMMA UsersFinite ==
  \A b : IsFiniteSet(Users(b)) /\ Cardinality(Users(b)) \in Nat
  <1> SUFFICES ASSUME NEW b PROVE IsFiniteSet(Users(b)) /\ Cardinality(Users(b)) \in Nat
    BY Zenon
  <1>1. Users(b) \in SUBSET Proc /\ IsFiniteSet(Proc)
    BY BufferAssumption, Zenon DEF Users
  <1>2. IsFiniteSet(Users(b))
    BY <1>1, FS_Subset, Zenon
  <1> QED
    BY <1>2, FS_CardinalityType, Zenon

\* Nobody uses a buffer whose refcnt is 0: nobody holds its lock and it is not in the queue.
LEMMA UnusedFree ==
  ASSUME IInv, NEW b \in Buf, buf[b].refcnt = 0
  PROVE  /\ \A p \in Proc : mine[p] # b
         /\ buf[b].lock = None
         /\ \A i \in 1..Len(idequeue) : idequeue[i] # b
  <1>1. Cardinality(Users(b)) = 0
    BY Zenon DEF IInv, RefExact, Users
  <1>2. Users(b) = {}
    BY <1>1, UsersFinite, FS_EmptySet, Zenon
  <1>3. \A p \in Proc : mine[p] # b
    BY <1>2, Zenon DEF Users
  <1>4. buf[b].lock = None
    BY <1>3, Fields, Zenon DEF IInv, LockInv
  <1> QED
    BY <1>3, <1>4, Zenon DEF IInv, QueueInv

\* Sets of buffers are finite.
LEMMA BufsFinite ==
  ASSUME NEW S \in SUBSET Buf
  PROVE  IsFiniteSet(S) /\ Cardinality(S) \in Nat
  <1>1. IsFiniteSet(Buf)
    <2>1. 1 \in Int /\ NBUF \in Int
      BY Sizes
    <2> QED
      BY <2>1, FS_Interval, Zenon DEF Buf
  <1>2. IsFiniteSet(S)
    BY <1>1, FS_Subset, Zenon
  <1> QED
    BY <1>2, FS_CardinalityType, Zenon

\* A set inside another has no more elements.
LEMMA FewerBufs ==
  ASSUME NEW S \in SUBSET Buf, NEW T \in SUBSET S
  PROVE  Cardinality(T) <= Cardinality(S)
  BY BufsFinite, FS_Subset, Zenon

\* With a process that has no buffer there are fewer buffers in use than processes.
LEMMA FewUsed ==
  ASSUME TypeOK, NEW p \in Proc, mine[p] = None
  PROVE  Cardinality({b \in Buf : Users(b) # {}}) <= Cardinality(Proc) - 1
  <1> DEFINE S == {q \in Proc : mine[q] # None}
             T == {b \in Buf : Users(b) # {}}
             f == [q \in S |-> mine[q]]
  <1>1. f \in Surjection(S, T)
    <2>1. \A q \in S : f[q] \in T
      BY Fields, Zenon DEF Users
    <2>2. \A b \in T : \E q \in S : f[q] = b
      BY NoneApart, Zenon DEF Users
    <2> QED
      BY <2>1, <2>2, Zenon DEF Surjection
  <1>2. S \in SUBSET (Proc \ {p}) /\ IsFiniteSet(Proc)
    BY BufferAssumption, Zenon
  <1>3. IsFiniteSet(Proc \ {p}) /\ Cardinality(Proc \ {p}) = Cardinality(Proc) - 1
    BY <1>2, FS_RemoveElement, Zenon
  <1>4. IsFiniteSet(S) /\ Cardinality(S) <= Cardinality(Proc) - 1
    BY <1>2, <1>3, FS_Subset
  <1>5. IsFiniteSet(T) /\ Cardinality(T) <= Cardinality(S)
    <2> HIDE DEF S, T, f
    <2> QED
      BY <1>1, <1>4, FS_Surjection, Zenon
  <1>6. Cardinality(T) \in Nat /\ Cardinality(S) \in Nat /\ Cardinality(Proc) \in Nat
    BY <1>2, <1>4, <1>5, FS_CardinalityType, Zenon
  <1> HIDE DEF S, T
  <1> QED
    BY <1>4, <1>5, <1>6 DEF T

\* bget() finds a buffer: those that are not in use are pinned by the log, which leaves
\* one for each process.
LEMMA Room ==
  ASSUME Enough, IInv, NEW p \in Proc, pc[p] = "idle"
  PROVE  Unused # {}
  <1> DEFINE T == {b \in Buf : Users(b) # {}}
             D == Pinned \ Writing
  <1>a. TypeOK /\ PinInv /\ mine[p] = None
    BY Zenon DEF IInv, ProcInv
  <1> SUFFICES ASSUME Unused = {} PROVE FALSE
    BY Zenon
  <1>1. Buf \subseteq T \cup D
    <2> SUFFICES ASSUME NEW b \in Buf, Users(b) = {} PROVE b \in D
      BY Zenon
    <2>1. buf[b].refcnt = 0
      BY FS_EmptySet, Zenon DEF IInv, RefExact, Users
    <2>2. PICK i \in Buf : lru[i] = b
      BY <1>a, Zenon DEF TypeOK
    <2>3. buf[b].dirty
      BY <2>1, <2>2, Zenon DEF Unused
    <2> QED
      BY <2>3, Zenon DEF Pinned, Writing, Users
  <1>2. T \in SUBSET Buf /\ D \in SUBSET Buf
    BY Zenon DEF Pinned
  <1>3. /\ IsFiniteSet(T) /\ IsFiniteSet(D) /\ Cardinality(T) \in Nat /\ Cardinality(D) \in Nat
        /\ T \cup D = Buf
    BY <1>1, <1>2, BufsFinite, Zenon
  <1>4. Cardinality(T) <= Cardinality(Proc) - 1 /\ Cardinality(D) <= MaxPinned
    BY <1>a, FewUsed, Zenon DEF PinInv
  <1>5. Cardinality(Proc) \in Nat
    BY FS_CardinalityType, BufferAssumption, Zenon
  <1>6. Cardinality(Buf) = NBUF
    BY FS_Interval, Sizes DEF Buf
  <1> HIDE DEF T, D
  <1>7. /\ IsFiniteSet(T \cap D) /\ Cardinality(T \cap D) \in Nat
        /\ Cardinality(T \cup D) = Cardinality(T) + Cardinality(D) - Cardinality(T \cap D)
    BY <1>3, FS_Union, FS_Intersection, FS_CardinalityType, Zenon
  <1>8. NBUF = Cardinality(T) + Cardinality(D) - Cardinality(T \cap D)
    BY <1>3, <1>6, <1>7, Zenon
  <1>9. Cardinality(T) \in Nat /\ Cardinality(D) \in Nat /\ Cardinality(T \cap D) \in Nat
    BY <1>3, <1>7, Zenon
  <1> QED
    BY <1>4, <1>5, <1>8, <1>9, Sizes DEF Enough

-----------------------------------------------------------------------------
(* binit() *)

\* The invariant holds after binit().
LEMMA InitIInv == Init => IInv
  <1> SUFFICES ASSUME Init PROVE IInv
    BY Zenon
  <1>1. lru \in [Buf -> Buf] /\ \A b \in Buf : \E i \in Buf : lru[i] = b
    <2>1. \A b \in Buf : NBUF + 1 - b \in Buf /\ NBUF + 1 - (NBUF + 1 - b) = b
      BY BufferAssumption DEF Buf
    <2> QED
      BY <2>1, Zenon DEF Init
  <1>2. /\ \A b \in Buf : buf[b] = Empty
        /\ \A p \in Proc : mine[p] = None /\ pc[p] = "idle"
        /\ idequeue = <<>> /\ ctl = None /\ irq = FALSE /\ panicked = FALSE
    BY Zenon DEF Init
  <1>3. Empty \in BufRec
    BY BufferAssumption, Zenon DEF Empty, BufRec
  <1>4. TypeOK
    <2>1. buf \in [Buf -> BufRec]
      BY <1>3, Zenon DEF Init
    <2>2. idequeue \in Seq(Buf)
      BY <1>2
    <2>3. disk \in [Block -> Data]
      BY BufferAssumption, Zenon DEF Init
    <2> QED
      BY <1>1, <1>2, <2>1, <2>2, <2>3, Zenon DEF TypeOK, BufRec, Init
  <1>5. ProcInv /\ LockInv /\ QueueInv /\ ControllerInv
    BY <1>2 DEF ProcInv, LockInv, QueueInv, ControllerInv, Holding, Empty
  <1>6. CacheInv
    BY <1>2 DEF CacheInv, Empty
  <1>7. RefExact
    <2>1. \A b \in Buf : {p \in Proc : mine[p] = b} = {}
      BY <1>2, NoneApart, Zenon
    <2>2. \A b \in Buf : Cardinality({p \in Proc : mine[p] = b}) = 0
      BY <2>1, FS_EmptySet, Zenon
    <2> QED
      BY <1>2, <2>2 DEF RefExact, Empty
  <1>8. PinInv
    <2>1. Pinned \ Writing = {}
      BY <1>2 DEF Pinned, Empty
    <2> QED
      BY <2>1, FS_EmptySet, BufferAssumption DEF PinInv
  <1> QED
    BY <1>2, <1>4, <1>5, <1>6, <1>7, <1>8, Zenon DEF IInv

-----------------------------------------------------------------------------
(* Counting *)

\* A process gets a buffer: its count grows by one.
LEMMA CountUp ==
  ASSUME TypeOK, NEW p \in Proc, mine[p] = None, NEW b \in Buf, mine' = [mine EXCEPT ![p] = b],
         NEW c \in Buf
  PROVE  Cardinality(Users(c)') = IF c = b THEN Cardinality(Users(c)) + 1 ELSE Cardinality(Users(c))
  <1>1. \A q \in Proc : mine'[q] = IF q = p THEN b ELSE mine[q]
    BY Zenon DEF TypeOK
  <1>2. CASE c = b
    <2>1. Users(c)' = Users(c) \cup {p} /\ p \notin Users(c)
      BY <1>1, <1>2, NoneApart, Zenon DEF Users
    <2>2. IsFiniteSet(Users(c))
      BY UsersFinite, Zenon
    <2> QED
      BY <1>2, <2>1, <2>2, FS_AddElement, Zenon
  <1>3. CASE c # b
    <2>1. Users(c)' = Users(c)
      BY <1>1, <1>3, NoneApart, Zenon DEF Users
    <2> QED
      BY <1>3, <2>1, Zenon
  <1> QED
    BY <1>2, <1>3, Zenon

\* It gives it back: the count falls by one, and was not 0.
LEMMA CountDown ==
  ASSUME TypeOK, NEW p \in Proc, NEW b \in Buf, mine[p] = b, mine' = [mine EXCEPT ![p] = None],
         NEW c \in Buf
  PROVE  /\ Cardinality(Users(c)') = IF c = b THEN Cardinality(Users(c)) - 1 ELSE Cardinality(Users(c))
         /\ c = b => Cardinality(Users(c)) > 0
  <1>1. \A q \in Proc : mine'[q] = IF q = p THEN None ELSE mine[q]
    BY Zenon DEF TypeOK
  <1>2. CASE c = b
    <2>1. Users(c)' = Users(c) \ {p} /\ p \in Users(c)
      BY <1>1, <1>2, NoneApart, Zenon DEF Users
    <2>2. Cardinality(Users(c)) # 0
      BY <2>1, UsersFinite, FS_EmptySet, Zenon
    <2>3. Cardinality(Users(c)') = Cardinality(Users(c)) - 1
      BY <2>1, UsersFinite, FS_RemoveElement, Zenon
    <2> QED
      BY <1>2, <2>2, <2>3, UsersFinite
  <1>3. CASE c # b
    <2>1. Users(c)' = Users(c)
      BY <1>1, <1>3, NoneApart, Zenon DEF Users
    <2> QED
      BY <1>3, <2>1, Zenon
  <1> QED
    BY <1>2, <1>3, Zenon

\* A step that makes no buffer dirty and takes none out of a write keeps to the log's share.
LEMMA PinKept ==
  ASSUME PinInv, (Pinned \ Writing)' \subseteq Pinned \ Writing
  PROVE  PinInv'
  <1> DEFINE S == Pinned \ Writing
             T == (Pinned \ Writing)'
  <1>1. S \in SUBSET Buf /\ T \in SUBSET S
    BY Zenon DEF Pinned
  <1>2. T \in SUBSET Buf
    BY <1>1, Zenon
  <1>3. Cardinality(S) \in Nat /\ Cardinality(T) \in Nat /\ Cardinality(S) <= MaxPinned
    BY <1>1, <1>2, BufsFinite, Zenon DEF PinInv
  <1>4. Cardinality(T) <= Cardinality(S)
    BY <1>1, FewerBufs, Zenon
  <1> HIDE DEF S, T
  <1>5. Cardinality(T) <= MaxPinned
    BY <1>3, <1>4, Sizes
  <1> QED
    BY <1>5, Zenon DEF PinInv, T

\* A step that changes no buffer, and neither the mine nor the counts of anybody.
LEMMA SameRefs ==
  ASSUME RefExact, mine' = mine, \A b \in Buf : buf'[b].refcnt = buf[b].refcnt
  PROVE  RefExact'
  BY Zenon DEF RefExact

-----------------------------------------------------------------------------
(* Steps that leave the buffers alone *)

\* A process that finds the lock taken falls asleep.
LEMMA WaitStep ==
  ASSUME IInv, NEW p \in Proc, acquiresleep(p), buf[mine[p]].lock # None
  PROVE  IInv'
  <1>a. /\ TypeOK /\ ProcInv /\ LockInv /\ QueueInv /\ ControllerInv /\ CacheInv /\ RefExact /\ PinInv
        /\ (Enough => panicked = FALSE)
    BY Zenon DEF IInv
  <1>b. /\ pc[p] = "want" /\ pc' = [pc EXCEPT ![p] = "asleep"]
        /\ UNCHANGED <<buf, mine, lru, idequeue, ctl, irq, disk, panicked>>
    BY Zenon DEF acquiresleep, Goto, driver
  <1>c. \A q \in Proc : pc'[q] = IF q = p THEN "asleep" ELSE pc[q]
    BY <1>a, <1>b, Zenon DEF TypeOK
  <1>1. TypeOK'
    BY <1>a, <1>b, Zenon DEF TypeOK
  <1>2. ProcInv'
    BY <1>a, <1>b, <1>c DEF ProcInv, Holding
  <1>3. LockInv'
    BY <1>a, <1>b, <1>c, Fields DEF LockInv, Holding
  <1>4. QueueInv'
    BY <1>a, <1>b, <1>c, Fields, Queued DEF QueueInv
  <1>7. ControllerInv'
    BY <1>a, <1>b, Zenon DEF ControllerInv, idestart
  <1>5. CacheInv' /\ RefExact'
    BY <1>a, <1>b, Zenon DEF CacheInv, RefExact
  <1>6. PinInv'
    BY <1>a, <1>b, <1>c, PinKept, Zenon DEF Pinned, Writing
  <1> QED
    BY <1>a, <1>b, <1>1, <1>2, <1>3, <1>4, <1>5, <1>6, <1>7, Zenon DEF IInv

\* A holder's buffer.
LEMMA Own ==
  ASSUME IInv, NEW p \in Proc, pc[p] \in Holding
  PROVE  /\ mine[p] \in Buf /\ buf[mine[p]].lock = p /\ buf[mine[p]].blockno \in Block
         /\ \A q \in Proc : q # p /\ mine[q] = mine[p] => pc[q] \notin Holding
         /\ \A i \in 1..Len(idequeue) : idequeue[i] = mine[p] => pc[p] = "io"
  <1>1. mine[p] \in Buf
    BY Fields, Zenon DEF IInv, ProcInv, Holding
  <1>2. buf[mine[p]].lock = p /\ buf[mine[p]].blockno \in Block
    BY <1>1, NoneApart, Zenon DEF IInv, ProcInv
  <1> QED
    BY <1>1, <1>2 DEF IInv, ProcInv, QueueInv

\* The head of the queue.
LEMMA HeadOwned ==
  ASSUME IInv, idequeue # <<>>
  PROVE  LET b == idequeue[1]
             p == buf[b].lock
         IN  /\ b \in Buf /\ p \in Proc /\ mine[p] = b /\ pc[p] = "io" /\ buf[b].blockno \in Block
             /\ ctl = [block |-> buf[b].blockno, write |-> buf[b].dirty,
                       data |-> IF buf[b].dirty THEN buf[b].data ELSE Zero]
  <1> DEFINE b == idequeue[1]
             p == buf[b].lock
  <1>1. b \in Buf /\ p # None /\ pc[p] = "io"
    BY Queued, Zenon DEF IInv, QueueInv
  <1>2. p \in Proc /\ mine[p] = b
    BY <1>1, Fields, Zenon DEF IInv, LockInv
  <1>3. buf[b].blockno \in Block
    BY <1>1, <1>2, NoneApart, Zenon DEF IInv, ProcInv
  <1> QED
    BY <1>1, <1>2, <1>3, Zenon DEF IInv, ControllerInv, idestart

\* A queue with one more.
LEMMA AppendBuf ==
  ASSUME NEW q \in Seq(Buf), NEW b \in Buf
  PROVE  /\ Append(q, b) \in Seq(Buf) /\ Len(Append(q, b)) = Len(q) + 1 /\ Len(q) \in Nat
         /\ (\A i \in 1..Len(q) : Append(q, b)[i] = q[i]) /\ Append(q, b)[Len(q) + 1] = b
  OBVIOUS

\* iderw() queues a buffer, and starts it when the queue was empty.
LEMMA IderwStep ==
  ASSUME IInv, NEW p \in Proc, iderw(p)
  PROVE  IInv'
  <1> DEFINE b == mine[p]
             n == Len(idequeue)
  <1>a. /\ TypeOK /\ ProcInv /\ LockInv /\ QueueInv /\ ControllerInv /\ CacheInv /\ RefExact /\ PinInv
        /\ (Enough => panicked = FALSE)
    BY Zenon DEF IInv
  <1>b. /\ pc[p] = "iderw" /\ pc' = [pc EXCEPT ![p] = "io"] /\ idequeue' = Append(idequeue, b)
        /\ ctl' = (IF idequeue = <<>> THEN idestart(b) ELSE ctl)
        /\ UNCHANGED <<mine, buf, lru, irq, disk, panicked>>
    BY Zenon DEF iderw, Goto
  <1>c. \A q \in Proc : pc'[q] = IF q = p THEN "io" ELSE pc[q]
    BY <1>a, <1>b, Zenon DEF TypeOK
  <1>d. b \in Buf /\ buf[b].lock = p /\ \A i \in 1..n : idequeue[i] # b
    BY <1>b, Own, Zenon DEF Holding
  <1>e. /\ idequeue' \in Seq(Buf) /\ Len(idequeue') = n + 1 /\ n \in Nat
        /\ (\A i \in 1..n : idequeue'[i] = idequeue[i]) /\ idequeue'[n + 1] = b
    BY <1>a, <1>b, <1>d, AppendBuf, Zenon DEF TypeOK
  <1>1. TypeOK'
    BY <1>a, <1>b, <1>e, Zenon DEF TypeOK
  <1>2. ProcInv'
    BY <1>a, <1>b, <1>c DEF ProcInv, Holding
  <1>3. LockInv'
    BY <1>a, <1>b, <1>c, Fields DEF LockInv, Holding
  <1>4. QueueInv'
    <2> HIDE DEF b, n
    <2>0. Len(idequeue') = n + 1 /\ n \in Nat /\ n = Len(idequeue) /\ b = mine[p]
      BY <1>e, Zenon DEF n, b
    <2>1. \A i \in 1..Len(idequeue') : i \in 1..n \/ i = n + 1
      BY <2>0
    <2>2. \A i \in 1..n : i \in 1..Len(idequeue')
      BY <2>0
    <2>3. \A i \in 1..n : buf[idequeue[i]].lock # None /\ pc[buf[idequeue[i]].lock] = "io"
      BY <1>a, <2>0, Zenon DEF QueueInv
    <2>4. \A i \in 1..Len(idequeue') : buf'[idequeue'[i]].lock # None /\ pc'[buf'[idequeue'[i]].lock] = "io"
      <3> SUFFICES ASSUME NEW i \in 1..Len(idequeue')
                   PROVE  buf[idequeue'[i]].lock # None /\ pc'[buf[idequeue'[i]].lock] = "io"
        BY <1>b, Zenon
      <3>1. CASE i \in 1..n
        <4>1. idequeue[i] \in Buf /\ idequeue'[i] = idequeue[i]
          BY <1>a, <1>e, <2>0, <3>1, Queued, Zenon
        <4> QED
          BY <1>a, <1>c, <2>3, <3>1, <4>1, Fields, Zenon
      <3>2. CASE i = n + 1
        BY <1>c, <1>d, <1>e, <3>2, NoneApart, Zenon
      <3> QED
        BY <2>1, <3>1, <3>2, Zenon
    <2>5. \A i, j \in 1..Len(idequeue') : idequeue'[i] = idequeue'[j] => i = j
      BY <1>a, <1>d, <1>e, <2>0, <2>1 DEF QueueInv
    <2>6. \A q \in Proc : pc'[q] = "io" => \E i \in 1..Len(idequeue') : idequeue'[i] = mine'[q]
      <3> SUFFICES ASSUME NEW q \in Proc, pc'[q] = "io"
                   PROVE  \E i \in 1..Len(idequeue') : idequeue'[i] = mine[q]
        BY <1>b, Zenon
      <3>1. CASE q = p
        <4>1. n + 1 \in 1..Len(idequeue')
          BY <2>0
        <4> QED
          BY <1>e, <2>0, <3>1, <4>1, Zenon
      <3>2. CASE q # p
        <4>1. PICK i \in 1..n : idequeue[i] = mine[q]
          BY <1>a, <1>c, <2>0, <3>2, Zenon DEF QueueInv
        <4> QED
          BY <1>e, <2>2, <4>1, Zenon
      <3> QED
        BY <3>1, <3>2, Zenon
    <2> QED
      BY <2>4, <2>5, <2>6, Zenon DEF QueueInv
  <1>5. ControllerInv'
    <2>1. idequeue' # <<>>
      <3>1. Len(idequeue') # 0
        BY <1>e
      <3> QED
        BY <3>1
    <2>2. CASE idequeue = <<>>
      <3>1. idequeue'[1] = b /\ irq' = FALSE /\ ctl' = idestart(b)
        BY <1>a, <1>b, <1>e, <2>2 DEF ControllerInv
      <3> QED
        BY <1>b, <2>1, <3>1, Zenon DEF ControllerInv, idestart
    <2>3. CASE idequeue # <<>>
      <3>1. idequeue'[1] = idequeue[1] /\ ctl' = ctl
        BY <1>a, <1>b, <1>e, <2>3, Queued, Zenon
      <3> QED
        BY <1>a, <1>b, <2>1, <2>3, <3>1, Zenon DEF ControllerInv, idestart
    <2> QED
      BY <2>2, <2>3, Zenon
  <1>6. CacheInv' /\ RefExact'
    BY <1>a, <1>b, Zenon DEF CacheInv, RefExact
  <1>7. PinInv'
    BY <1>a, <1>b, <1>c, PinKept, Zenon DEF Pinned, Writing
  <1> QED
    BY <1>a, <1>b, <1>1, <1>2, <1>3, <1>4, <1>5, <1>6, <1>7, Zenon DEF IInv

\* The controller writes only what the cache has.
LEMMA ControllerStep ==
  ASSUME IInv, Controller
  PROVE  IInv'
  <1> DEFINE b == idequeue[1]
             k == buf[b].blockno
  <1>a. /\ TypeOK /\ ProcInv /\ LockInv /\ QueueInv /\ ControllerInv /\ CacheInv /\ RefExact /\ PinInv
        /\ (Enough => panicked = FALSE)
    BY Zenon DEF IInv
  <1>b. /\ irq' = TRUE /\ UNCHANGED <<pc, mine, buf, lru, idequeue, ctl, panicked>>
        /\ ctl # None /\ disk' = (IF ctl.write THEN [disk EXCEPT ![ctl.block] = ctl.data] ELSE disk)
    BY Zenon DEF Controller
  <1>c. idequeue # <<>>
    BY <1>a, <1>b, Zenon DEF ControllerInv
  <1>d. b \in Buf /\ k \in Block
    BY <1>c, HeadOwned, Zenon
  <1>e. disk' = IF buf[b].dirty THEN [disk EXCEPT ![k] = buf[b].data] ELSE disk
    <2>1. /\ ctl.write = buf[b].dirty /\ ctl.block = k
          /\ buf[b].dirty = TRUE => ctl.data = buf[b].data
      BY <1>c, HeadOwned
    <2> QED
      BY <1>a, <1>b, <1>d, <2>1, Fields, Zenon
  <1>1. TypeOK'
    <2>1. disk' \in [Block -> Data]
      BY <1>a, <1>d, <1>e, Fields, Zenon DEF TypeOK
    <2> QED
      BY <1>a, <1>b, <2>1, Zenon DEF TypeOK
  <1>2. ProcInv' /\ LockInv' /\ QueueInv'
    BY <1>a, <1>b, Zenon DEF ProcInv, LockInv, QueueInv
  <1>3. ControllerInv'
    <2>1. buf[b].dirty = TRUE => disk'[k] = buf[b].data
      BY <1>a, <1>d, <1>e, Zenon DEF TypeOK
    <2> QED
      BY <1>a, <1>b, <1>c, <2>1, Zenon DEF ControllerInv, idestart
  <1>4. CacheInv'
    <2> SUFFICES ASSUME NEW c \in Buf, buf[c].valid = TRUE, buf[c].dirty = FALSE
                 PROVE  buf[c].data = disk'[buf[c].blockno]
      BY <1>a, <1>b, Zenon DEF CacheInv
    <2>1. buf[c].data = disk[buf[c].blockno] /\ buf[c].blockno \in Block
      BY <1>a, Zenon DEF CacheInv
    <2>2. CASE buf[b].dirty = TRUE
      <3>1. buf[c].blockno # k
        BY <1>a, <1>d, <2>2, NoneApart, Zenon DEF CacheInv
      <3> QED
        BY <1>a, <1>d, <1>e, <2>1, <2>2, <3>1, Zenon DEF TypeOK
    <2>3. CASE buf[b].dirty = FALSE
      BY <1>e, <2>1, <2>3, Zenon
    <2> QED
      BY <1>a, <1>d, <2>2, <2>3, Fields, Zenon
  <1>5. RefExact' /\ PinInv'
    BY <1>a, <1>b, Zenon DEF RefExact, PinInv, Pinned, Writing
  <1> QED
    BY <1>a, <1>b, <1>1, <1>2, <1>3, <1>4, <1>5, Zenon DEF IInv

\* A process whose request is done has the buffer.
LEMMA CompletedStep ==
  ASSUME IInv, NEW p \in Proc, Completed(p)
  PROVE  IInv'
  <1>a. /\ TypeOK /\ ProcInv /\ LockInv /\ QueueInv /\ ControllerInv /\ CacheInv /\ RefExact /\ PinInv
        /\ (Enough => panicked = FALSE)
    BY Zenon DEF IInv
  <1>b. /\ pc[p] = "done" /\ pc' = [pc EXCEPT ![p] = "held"]
        /\ UNCHANGED <<buf, mine, lru, idequeue, ctl, irq, disk, panicked>>
    BY <1>a, Zenon DEF Completed, Goto, driver, ProcInv
  <1>c. \A q \in Proc : pc'[q] = IF q = p THEN "held" ELSE pc[q]
    BY <1>a, <1>b, Zenon DEF TypeOK
  <1>1. TypeOK'
    BY <1>a, <1>b, Zenon DEF TypeOK
  <1>2. ProcInv'
    BY <1>a, <1>b, <1>c DEF ProcInv, Holding
  <1>3. LockInv'
    BY <1>a, <1>b, <1>c, Fields DEF LockInv, Holding
  <1>4. QueueInv'
    BY <1>a, <1>b, <1>c, Fields, Queued DEF QueueInv
  <1>5. ControllerInv' /\ CacheInv' /\ RefExact'
    BY <1>a, <1>b, Zenon DEF ControllerInv, idestart, CacheInv, RefExact
  <1>6. PinInv'
    BY <1>a, <1>b, <1>c, PinKept, Zenon DEF Pinned, Writing
  <1> QED
    BY <1>a, <1>b, <1>1, <1>2, <1>3, <1>4, <1>5, <1>6, Zenon DEF IInv

-----------------------------------------------------------------------------
(* Steps that change a buffer *)

\* A process takes a free lock.
LEMMA TakeStep ==
  ASSUME IInv, NEW p \in Proc, acquiresleep(p), buf[mine[p]].lock = None
  PROVE  IInv'
  <1> DEFINE b == mine[p]
             l == IF buf[b].valid THEN "held" ELSE "iderw"
  <1>a. /\ TypeOK /\ ProcInv /\ LockInv /\ QueueInv /\ ControllerInv /\ CacheInv /\ RefExact /\ PinInv
        /\ (Enough => panicked = FALSE)
    BY Zenon DEF IInv
  <1>b. /\ pc[p] = "want" /\ pc' = [pc EXCEPT ![p] = l] /\ buf' = [buf EXCEPT ![b].lock = p]
        /\ UNCHANGED <<mine, lru, idequeue, ctl, irq, disk, panicked>>
    BY Zenon DEF acquiresleep, Goto, driver
  <1>c. \A q \in Proc : pc'[q] = IF q = p THEN l ELSE pc[q]
    BY <1>a, <1>b, Zenon DEF TypeOK
  <1>d. b \in Buf
    BY <1>a, <1>b, Fields, Zenon DEF ProcInv
  <1>e. /\ buf' \in [Buf -> BufRec]
        /\ \A c \in Buf : /\ buf'[c].blockno = buf[c].blockno /\ buf'[c].valid = buf[c].valid
                          /\ buf'[c].dirty = buf[c].dirty /\ buf'[c].refcnt = buf[c].refcnt
                          /\ buf'[c].data = buf[c].data
                          /\ buf'[c].lock = IF c = b THEN p ELSE buf[c].lock
    BY <1>a, <1>b, <1>d, Fields DEF BufRec
  <1>f. buf[b].valid \in BOOLEAN /\ l \in {"held", "iderw"} /\ (l = "held" => buf[b].valid = TRUE)
    BY <1>a, <1>d, Fields, Zenon
  <1>g. \A i \in 1..Len(idequeue) : idequeue[i] # b
    BY <1>a, <1>d, Zenon DEF QueueInv
  <1> HIDE DEF l, b
  <1>1. TypeOK'
    <2>1. pc' \in [Proc -> {"idle", "want", "asleep", "held", "iderw", "io", "done", "brelse"}]
      BY <1>a, <1>b, <1>f, Zenon DEF TypeOK
    <2> QED
      BY <1>a, <1>b, <1>e, <2>1, Zenon DEF TypeOK, BufRec
  <1>2. ProcInv'
    <2> SUFFICES ASSUME NEW q \in Proc
                 PROVE  /\ mine[q] = None <=> pc'[q] = "idle"
                        /\ mine[q] # None => buf'[mine[q]].blockno \in Block
                        /\ pc'[q] \in Holding => buf'[mine[q]].lock = q
                        /\ pc'[q] = "held" => buf'[mine[q]].valid = TRUE
                        /\ pc'[q] = "done" => buf'[mine[q]].valid = TRUE /\ buf'[mine[q]].dirty = FALSE
                        /\ pc'[q] = "asleep" => buf'[mine[q]].lock # None
      BY <1>b, ZenonT(30) DEF ProcInv
    <2>1. mine[q] \in Buf \cup {None} /\ b = mine[p]
      BY <1>a, Fields, Zenon DEF b
    <2>2. CASE q = p
      <3>1. pc'[q] = l /\ mine[q] = b /\ b # None
        BY <1>c, <1>d, <2>1, <2>2, NoneApart, Zenon
      <3>2. buf'[b].lock = p /\ buf'[b].blockno \in Block /\ buf'[b].valid = buf[b].valid
        BY <1>a, <1>d, <1>e, <2>2, <3>1, Zenon DEF ProcInv
      <3> QED
        BY <1>f, <2>2, <3>1, <3>2, Zenon
    <2>3. CASE q # p
      BY <1>a, <1>c, <1>d, <1>e, <2>1, <2>3, NoneApart DEF ProcInv, Holding, b
    <2> QED
      BY <2>2, <2>3, Zenon
  <1>3. LockInv'
    <2> SUFFICES ASSUME NEW c \in Buf, buf'[c].lock # None
                 PROVE  mine[buf'[c].lock] = c /\ pc'[buf'[c].lock] \in Holding
      BY <1>b, Zenon DEF LockInv
    <2>1. CASE c = b
      BY <1>c, <1>e, <1>f, <2>1, Zenon DEF Holding, b
    <2>2. CASE c # b
      BY <1>a, <1>b, <1>c, <1>e, <2>2, Fields DEF LockInv, Holding
    <2> QED
      BY <2>1, <2>2, Zenon
  <1>4. QueueInv'
    <2>1. \A i \in 1..Len(idequeue) : buf'[idequeue[i]].lock = buf[idequeue[i]].lock
      BY <1>a, <1>e, <1>g, Queued, Zenon
    <2> QED
      BY <1>a, <1>b, <1>c, <1>f, <2>1, Fields, Queued DEF QueueInv
  <1>5. ControllerInv'
    <2>1. CASE idequeue = <<>>
      BY <1>a, <1>b, <2>1, Zenon DEF ControllerInv
    <2>2. CASE idequeue # <<>>
      <3>1. idequeue[1] \in Buf
        BY <1>a, <2>2, Queued, Zenon
      <3> QED
        BY <1>a, <1>b, <1>e, <2>2, <3>1 DEF ControllerInv, idestart
    <2> QED
      BY <2>1, <2>2, Zenon
  <1>6. CacheInv'
    BY <1>a, <1>b, <1>e DEF CacheInv
  <1>7. RefExact'
    BY <1>a, <1>b, <1>e, SameRefs, Zenon
  <1>8. PinInv'
    <2>1. (Pinned \ Writing)' \subseteq Pinned \ Writing
      BY <1>b, <1>c, <1>e DEF Pinned, Writing
    <2> QED
      BY <1>a, <2>1, PinKept, Zenon
  <1> QED
    BY <1>a, <1>b, <1>1, <1>2, <1>3, <1>4, <1>5, <1>6, <1>7, <1>8, Zenon DEF IInv

\* What bwrite() and log_write() have in common.
Stores(p, v, l) ==
  /\ pc[p] = "held" /\ pc' = [pc EXCEPT ![p] = l]
  /\ buf' = [buf EXCEPT ![mine[p]].data = v, ![mine[p]].dirty = TRUE]
  /\ UNCHANGED <<mine, lru, idequeue, ctl, irq, disk, panicked>>

\* What they do to the buffers.
LEMMA StoreFields ==
  ASSUME IInv, NEW p \in Proc, NEW v \in Data, NEW l, Stores(p, v, l)
  PROVE  /\ mine[p] \in Buf /\ buf' \in [Buf -> BufRec]
         /\ \A c \in Buf : /\ buf'[c].blockno = buf[c].blockno /\ buf'[c].valid = buf[c].valid
                           /\ buf'[c].refcnt = buf[c].refcnt /\ buf'[c].lock = buf[c].lock
                           /\ c # mine[p] => buf'[c].dirty = buf[c].dirty /\ buf'[c].data = buf[c].data
         /\ buf'[mine[p]].dirty = TRUE /\ buf'[mine[p]].data = v
         /\ \A q \in Proc : pc'[q] = IF q = p THEN l ELSE pc[q]
  <1>1. mine[p] \in Buf
    BY Own, Zenon DEF Stores, Holding
  <1>2. buf \in [Buf -> BufRec]
    BY Fields, Zenon DEF IInv
  <1>3. buf' \in [Buf -> BufRec]
    BY <1>1, <1>2 DEF Stores, BufRec
  <1>4. \A q \in Proc : pc'[q] = IF q = p THEN l ELSE pc[q]
    BY Zenon DEF Stores, IInv, TypeOK
  <1>5. \A c \in Buf : c # mine[p] => buf'[c] = buf[c]
    BY <1>1, <1>2, Zenon DEF Stores
  <1>6. buf'[mine[p]] = [buf[mine[p]] EXCEPT !.data = v, !.dirty = TRUE]
    BY <1>1, <1>2, Zenon DEF Stores
  <1>7. /\ buf'[mine[p]].dirty = TRUE /\ buf'[mine[p]].data = v
        /\ buf'[mine[p]].blockno = buf[mine[p]].blockno /\ buf'[mine[p]].valid = buf[mine[p]].valid
        /\ buf'[mine[p]].refcnt = buf[mine[p]].refcnt /\ buf'[mine[p]].lock = buf[mine[p]].lock
    BY <1>1, <1>2, <1>6 DEF BufRec
  <1> QED
    BY <1>1, <1>3, <1>4, <1>5, <1>7, Zenon

\* A store keeps the invariant if it keeps to the log's share.
LEMMA StoreStep ==
  ASSUME IInv, NEW p \in Proc, NEW v \in Data, NEW l \in {"held", "iderw"}, Stores(p, v, l), PinInv'
  PROVE  IInv'
  <1> DEFINE b == mine[p]
  <1>a. /\ TypeOK /\ ProcInv /\ LockInv /\ QueueInv /\ ControllerInv /\ CacheInv /\ RefExact
        /\ (Enough => panicked = FALSE)
    BY Zenon DEF IInv
  <1>b. pc[p] = "held" /\ UNCHANGED <<mine, lru, idequeue, ctl, irq, disk, panicked>>
    BY Zenon DEF Stores
  <1>d. b \in Buf /\ buf[b].lock = p /\ buf[b].blockno \in Block /\ buf[b].valid = TRUE
    BY <1>a, <1>b, Own, Zenon DEF Holding, ProcInv
  <1>e. /\ buf' \in [Buf -> BufRec]
        /\ \A c \in Buf : /\ buf'[c].blockno = buf[c].blockno /\ buf'[c].valid = buf[c].valid
                          /\ buf'[c].refcnt = buf[c].refcnt /\ buf'[c].lock = buf[c].lock
                          /\ c # b => buf'[c].dirty = buf[c].dirty /\ buf'[c].data = buf[c].data
        /\ buf'[b].dirty = TRUE /\ buf'[b].data = v
        /\ \A q \in Proc : pc'[q] = IF q = p THEN l ELSE pc[q]
    BY StoreFields, ZenonT(30)
  <1>g. \A i \in 1..Len(idequeue) : idequeue[i] # b
    BY <1>b, Own, Zenon DEF Holding
  <1> HIDE DEF b
  <1>1. TypeOK'
    <2>1. pc' \in [Proc -> {"idle", "want", "asleep", "held", "iderw", "io", "done", "brelse"}]
      BY <1>a, Zenon DEF TypeOK, Stores
    <2> QED
      BY <1>a, <1>b, <1>e, <2>1, Zenon DEF TypeOK, BufRec
  <1>2. ProcInv'
    <2> SUFFICES ASSUME NEW q \in Proc
                 PROVE  /\ mine[q] = None <=> pc'[q] = "idle"
                        /\ mine[q] # None => buf'[mine[q]].blockno \in Block
                        /\ pc'[q] \in Holding => buf'[mine[q]].lock = q
                        /\ pc'[q] = "held" => buf'[mine[q]].valid = TRUE
                        /\ pc'[q] = "done" => buf'[mine[q]].valid = TRUE /\ buf'[mine[q]].dirty = FALSE
                        /\ pc'[q] = "asleep" => buf'[mine[q]].lock # None
      BY <1>b, ZenonT(30) DEF ProcInv
    <2>1. mine[q] \in Buf \cup {None} /\ b = mine[p]
      BY <1>a, Fields, Zenon DEF b
    <2>2. CASE q = p
      BY <1>a, <1>b, <1>d, <1>e, <2>1, <2>2 DEF ProcInv, Holding
    <2>3. CASE q # p
      <3>1. pc[q] = "done" => mine[q] # b
        BY <1>a, <1>d, <2>3, Zenon DEF ProcInv, Holding
      <3> QED
        BY <1>a, <1>e, <2>1, <2>3, <3>1 DEF ProcInv, Holding
    <2> QED
      BY <2>2, <2>3, Zenon
  <1>3. LockInv'
    BY <1>a, <1>b, <1>e, Fields DEF LockInv, Holding
  <1>4. QueueInv'
    <2>1. \A i \in 1..Len(idequeue) : buf'[idequeue[i]].lock = buf[idequeue[i]].lock
      BY <1>a, <1>e, <1>g, Queued, Zenon
    <2> QED
      BY <1>a, <1>b, <1>e, <2>1, Fields, Queued DEF QueueInv
  <1>5. ControllerInv'
    <2>1. CASE idequeue = <<>>
      BY <1>a, <1>b, <2>1, Zenon DEF ControllerInv
    <2>2. CASE idequeue # <<>>
      <3>1. idequeue[1] \in Buf /\ idequeue[1] # b
        BY <1>a, <1>g, <2>2, Queued, Zenon
      <3> QED
        BY <1>a, <1>b, <1>e, <2>2, <3>1, Zenon DEF ControllerInv, idestart
    <2> QED
      BY <2>1, <2>2, Zenon
  <1>6. CacheInv'
    BY <1>a, <1>b, <1>d, <1>e DEF CacheInv
  <1>7. RefExact'
    BY <1>a, <1>b, <1>e, SameRefs, Zenon
  <1> QED
    BY <1>a, <1>b, <1>1, <1>2, <1>3, <1>4, <1>5, <1>6, <1>7, Zenon DEF IInv

\* bwrite() makes a buffer dirty that is written at once, ...
LEMMA BwriteStep ==
  ASSUME IInv, NEW p \in Proc, NEW v \in Data, bwrite(p, v)
  PROVE  IInv'
  <1>1. Stores(p, v, "iderw")
    BY Zenon DEF bwrite, Stores, Goto, driver
  <1>2. (Pinned \ Writing)' \subseteq Pinned \ Writing
    <2>1. /\ \A c \in Buf : c # mine[p] => buf'[c].dirty = buf[c].dirty
          /\ \A q \in Proc : pc'[q] = IF q = p THEN "iderw" ELSE pc[q]
      BY <1>1, StoreFields, ZenonT(30)
    <2>2. pc[p] = "held" /\ mine' = mine
      BY <1>1, Zenon DEF Stores
    <2> QED
      BY <2>1, <2>2, Zenon DEF Pinned, Writing
  <1>3. PinInv'
    BY <1>2, PinKept, Zenon DEF IInv
  <1> QED
    BY <1>1, <1>3, StoreStep, Zenon

\* ... log_write() one of the log's.
LEMMA LogWriteStep ==
  ASSUME IInv, NEW p \in Proc, NEW v \in Data, log_write(p, v)
  PROVE  IInv'
  <1>1. Stores(p, v, "held")
    <2>1. pc' = [pc EXCEPT ![p] = "held"]
      BY Zenon DEF log_write, IInv, TypeOK
    <2> QED
      BY <2>1, Zenon DEF log_write, Stores, driver
  <1> DEFINE S == Pinned \cup {mine[p]}
             T == (Pinned \ Writing)'
  <1>2. T \subseteq S
    BY <1>1, StoreFields, Zenon DEF Pinned
  <1>0. mine[p] \in Buf
    BY <1>1, StoreFields, Zenon
  <1>3. S \in SUBSET Buf /\ T \in SUBSET S /\ Cardinality(S) <= MaxPinned
    BY <1>0, <1>2, Zenon DEF Pinned, log_write
  <1>4. T \in SUBSET Buf
    BY <1>3, Zenon
  <1> HIDE DEF S, T
  <1>5. Cardinality(T) <= Cardinality(S) /\ Cardinality(S) \in Nat /\ Cardinality(T) \in Nat
    BY <1>3, <1>4, FewerBufs, BufsFinite, Zenon
  <1>6. Cardinality(T) <= MaxPinned
    BY <1>3, <1>5, Sizes
  <1>7. PinInv'
    BY <1>6, Zenon DEF PinInv, T
  <1> QED
    BY <1>1, <1>7, StoreStep, Zenon

\* releasesleep() frees the lock and wakes those who sleep for it.
LEMMA ReleaseStep ==
  ASSUME IInv, NEW p \in Proc, releasesleep(p)
  PROVE  IInv'
  <1> DEFINE b == mine[p]
  <1>a. /\ TypeOK /\ ProcInv /\ LockInv /\ QueueInv /\ ControllerInv /\ CacheInv /\ RefExact /\ PinInv
        /\ (Enough => panicked = FALSE)
    BY Zenon DEF IInv
  <1>b. /\ pc[p] = "held" /\ pc' = [Woken(b) EXCEPT ![p] = "brelse"]
        /\ buf' = [buf EXCEPT ![b].lock = None]
        /\ UNCHANGED <<mine, lru, idequeue, ctl, irq, disk, panicked>>
    BY Zenon DEF releasesleep, driver
  <1>c. \A q \in Proc : pc'[q] = IF q = p THEN "brelse"
                                 ELSE IF pc[q] = "asleep" /\ mine[q] = b THEN "want" ELSE pc[q]
    BY <1>b, Zenon DEF Woken
  <1>d. b \in Buf /\ buf[b].lock = p
    BY <1>b, Own, Zenon DEF Holding
  <1>e. /\ buf' \in [Buf -> BufRec]
        /\ \A c \in Buf : /\ buf'[c].blockno = buf[c].blockno /\ buf'[c].valid = buf[c].valid
                          /\ buf'[c].dirty = buf[c].dirty /\ buf'[c].refcnt = buf[c].refcnt
                          /\ buf'[c].data = buf[c].data
                          /\ buf'[c].lock = IF c = b THEN None ELSE buf[c].lock
    BY <1>a, <1>b, <1>d, Fields DEF BufRec
  <1>g. \A i \in 1..Len(idequeue) : idequeue[i] # b
    BY <1>b, Own, Zenon DEF Holding
  <1>h. b = mine[p]
    BY Zenon
  <1> HIDE DEF b
  <1>1. TypeOK'
    <2>1. pc' \in [Proc -> {"idle", "want", "asleep", "held", "iderw", "io", "done", "brelse"}]
      BY <1>a, <1>b, Zenon DEF TypeOK, Woken
    <2> QED
      BY <1>a, <1>b, <1>e, <2>1 DEF TypeOK, BufRec
  <1>2. ProcInv'
    <2> SUFFICES ASSUME NEW q \in Proc
                 PROVE  /\ mine[q] = None <=> pc'[q] = "idle"
                        /\ mine[q] # None => buf'[mine[q]].blockno \in Block
                        /\ pc'[q] \in Holding => buf'[mine[q]].lock = q
                        /\ pc'[q] = "held" => buf'[mine[q]].valid = TRUE
                        /\ pc'[q] = "done" => buf'[mine[q]].valid = TRUE /\ buf'[mine[q]].dirty = FALSE
                        /\ pc'[q] = "asleep" => buf'[mine[q]].lock # None
      BY <1>b, ZenonT(30) DEF ProcInv
    <2>1. mine[q] \in Buf \cup {None}
      BY <1>a, Fields, Zenon
    <2>2. CASE q = p
      BY <1>a, <1>b, <1>c, <1>d, <1>e, <1>h, <2>1, <2>2, NoneApart DEF ProcInv, Holding
    <2>3. CASE q # p /\ mine[q] = b
      <3>1. pc[q] \notin Holding
        BY <1>a, <1>d, <2>3, Zenon DEF ProcInv
      <3>2. pc'[q] \notin Holding /\ pc'[q] # "asleep" /\ (pc'[q] = "idle" <=> pc[q] = "idle")
        BY <1>c, <2>3, <3>1, Zenon DEF Holding
      <3> QED
        BY <1>a, <1>d, <1>e, <2>3, <3>2, Zenon DEF ProcInv, Holding
    <2>4. CASE q # p /\ mine[q] # b
      BY <1>a, <1>c, <1>e, <2>1, <2>4 DEF ProcInv, Holding
    <2> QED
      BY <2>2, <2>3, <2>4, Zenon
  <1>3. LockInv'
    <2> SUFFICES ASSUME NEW c \in Buf, buf'[c].lock # None
                 PROVE  mine[buf'[c].lock] = c /\ pc'[buf'[c].lock] \in Holding
      BY <1>b, Zenon DEF LockInv
    <2>1. c # b /\ buf'[c].lock = buf[c].lock /\ buf[c].lock \in Proc
      BY <1>a, <1>e, Fields, Zenon
    <2>2. mine[buf[c].lock] = c /\ pc[buf[c].lock] \in Holding
      BY <1>a, <2>1, NoneApart, Zenon DEF LockInv
    <2> QED
      BY <1>c, <1>h, <2>1, <2>2, Zenon DEF Holding
  <1>4. QueueInv'
    <2>1. \A i \in 1..Len(idequeue) : buf'[idequeue[i]].lock = buf[idequeue[i]].lock
      BY <1>a, <1>e, <1>g, Queued, Zenon
    <2>2. \A q \in Proc : pc'[q] = "io" <=> pc[q] = "io"
      BY <1>b, <1>c
    <2> QED
      BY <1>a, <1>b, <2>1, <2>2, Fields, Queued DEF QueueInv
  <1>5. ControllerInv'
    <2>1. CASE idequeue = <<>>
      BY <1>a, <1>b, <2>1, Zenon DEF ControllerInv
    <2>2. CASE idequeue # <<>>
      <3>1. idequeue[1] \in Buf
        BY <1>a, <2>2, Queued, Zenon
      <3> QED
        BY <1>a, <1>b, <1>e, <2>2, <3>1 DEF ControllerInv, idestart
    <2> QED
      BY <2>1, <2>2, Zenon
  <1>6. CacheInv'
    BY <1>a, <1>b, <1>e DEF CacheInv
  <1>7. RefExact'
    BY <1>a, <1>b, <1>e, SameRefs, Zenon
  <1>8. PinInv'
    <2>1. \A q \in Proc : pc'[q] \in {"iderw", "io"} <=> pc[q] \in {"iderw", "io"}
      BY <1>b, <1>c
    <2>2. (Pinned \ Writing)' \subseteq Pinned \ Writing
      BY <1>b, <1>e, <2>1, Zenon DEF Pinned, Writing
    <2> QED
      BY <1>a, <2>2, PinKept, Zenon
  <1> QED
    BY <1>a, <1>b, <1>1, <1>2, <1>3, <1>4, <1>5, <1>6, <1>7, <1>8, Zenon DEF IInv

\* Moving a buffer to the front of the list loses none.
LEMMA FrontKeeps ==
  ASSUME TypeOK, NEW b \in Buf
  PROVE  /\ ToFront(b) \in [Buf -> Buf]
         /\ \A c \in Buf : \E i \in Buf : ToFront(b)[i] = c
  <1> DEFINE l == ToFront(b)
             Behind(j) == \E i \in Buf : lru[i] = b /\ j <= i
  <1>1. lru \in [Buf -> Buf] /\ \A c \in Buf : \E i \in Buf : lru[i] = c
    BY Zenon DEF TypeOK
  <1>2. \A j \in Buf : j \in Nat /\ 1 \in Buf /\ (j # 1 => j - 1 \in Buf)
    <2> SUFFICES ASSUME NEW j \in Buf PROVE j \in Nat /\ 1 \in Buf /\ (j # 1 => j - 1 \in Buf)
      BY Zenon
    <2> QED
      BY Sizes DEF Buf
  <1>3. \A j \in Buf : l[j] = IF j = 1 THEN b ELSE IF Behind(j) THEN lru[j - 1] ELSE lru[j]
    BY Zenon DEF ToFront
  <1>4. l \in [Buf -> Buf]
    BY <1>1, <1>2, Zenon DEF ToFront
  <1>5. ASSUME NEW c \in Buf PROVE \E i \in Buf : l[i] = c
    <2>1. PICK i \in Buf : lru[i] = c
      BY <1>1, Zenon
    <2>2. CASE c = b
      BY <1>2, <1>3, <2>1, <2>2, Zenon
    <2>3. CASE c # b /\ \E m \in Buf : lru[m] = b /\ i < m
      <3>1. PICK m \in Buf : lru[m] = b /\ i < m
        BY <2>3, Zenon
      <3>2. i + 1 \in Buf /\ i + 1 # 1 /\ i + 1 <= m /\ (i + 1) - 1 = i
        BY <3>1, Sizes DEF Buf
      <3>3. Behind(i + 1)
        BY <3>1, <3>2, Zenon
      <3>4. l[i + 1] = lru[i]
        BY <1>3, <3>2, <3>3, Zenon
      <3> QED
        BY <2>1, <3>2, <3>4, Zenon
    <2>4. CASE c # b /\ ~ \E m \in Buf : lru[m] = b /\ i < m
      <3>1. PICK m \in Buf : lru[m] = b
        BY <1>1, Zenon
      <3>2. m < i /\ i # 1
        BY <2>1, <2>4, <3>1 DEF Buf
      <3>3. ~Behind(i)
        BY <1>2, <2>1, <2>4 DEF Buf
      <3>4. l[i] = lru[i]
        BY <1>3, <3>2, <3>3, Zenon
      <3> QED
        BY <2>1, <3>4, Zenon
    <2> QED
      BY <2>2, <2>3, <2>4, Zenon
  <1> QED
    BY <1>4, <1>5, Zenon

\* brelse() gives the buffer up.
LEMMA BrelseStep ==
  ASSUME IInv, NEW p \in Proc, brelse(p)
  PROVE  IInv'
  <1> DEFINE b == mine[p]
  <1>a. /\ TypeOK /\ ProcInv /\ LockInv /\ QueueInv /\ ControllerInv /\ CacheInv /\ RefExact /\ PinInv
        /\ (Enough => panicked = FALSE)
    BY Zenon DEF IInv
  <1>b. /\ pc[p] = "brelse" /\ pc' = [pc EXCEPT ![p] = "idle"] /\ mine' = [mine EXCEPT ![p] = None]
        /\ buf' = [buf EXCEPT ![b].refcnt = @ - 1]
        /\ lru' = (IF buf[b].refcnt = 1 THEN ToFront(b) ELSE lru)
        /\ UNCHANGED <<idequeue, ctl, irq, disk, panicked>>
    BY Zenon DEF brelse, driver, Goto
  <1>c. \A q \in Proc : /\ pc'[q] = (IF q = p THEN "idle" ELSE pc[q])
                        /\ mine'[q] = (IF q = p THEN None ELSE mine[q])
    BY <1>a, <1>b, Zenon DEF TypeOK
  <1>d. b \in Buf
    BY <1>a, <1>b, Fields, Zenon DEF ProcInv
  <1>f. \A c \in Buf : /\ Cardinality(Users(c)) = buf[c].refcnt /\ buf[c].refcnt \in Nat
                       /\ Cardinality(Users(c)') = IF c = b THEN Cardinality(Users(c)) - 1
                                                   ELSE Cardinality(Users(c))
                       /\ c = b => Cardinality(Users(c)) > 0
    <2>1. \A c \in Buf : Cardinality(Users(c)) = buf[c].refcnt /\ buf[c].refcnt \in Nat
      BY <1>a, Fields, Zenon DEF RefExact, Users
    <2> QED
      BY <1>a, <1>b, <1>d, <2>1, CountDown, Zenon
  <1>e. /\ buf' \in [Buf -> BufRec]
        /\ \A c \in Buf : /\ buf'[c].blockno = buf[c].blockno /\ buf'[c].valid = buf[c].valid
                          /\ buf'[c].dirty = buf[c].dirty /\ buf'[c].lock = buf[c].lock
                          /\ buf'[c].data = buf[c].data
                          /\ buf'[c].refcnt = IF c = b THEN buf[c].refcnt - 1 ELSE buf[c].refcnt
    <2>1. buf[b].refcnt - 1 \in Nat
      BY <1>d, <1>f
    <2> QED
      BY <1>a, <1>b, <1>d, <2>1, Fields DEF BufRec
  <1>g. \A c \in Buf : buf[c].lock # p
    BY <1>a, <1>b, NoneApart, Zenon DEF LockInv, Holding
  <1> HIDE DEF b
  <1>1. TypeOK'
    <2>1. lru' \in [Buf -> Buf] /\ \A c \in Buf : \E i \in Buf : lru'[i] = c
      <3>1. CASE buf[b].refcnt = 1
        BY <1>a, <1>b, <1>d, <3>1, FrontKeeps, Zenon
      <3>2. CASE buf[b].refcnt # 1
        BY <1>a, <1>b, <3>2, Zenon DEF TypeOK
      <3> QED
        BY <3>1, <3>2, Zenon
    <2> QED
      BY <1>a, <1>b, <1>e, <2>1, Zenon DEF TypeOK, BufRec
  <1>2. ProcInv'
    <2> SUFFICES ASSUME NEW q \in Proc
                 PROVE  /\ mine'[q] = None <=> pc'[q] = "idle"
                        /\ mine'[q] # None => buf'[mine'[q]].blockno \in Block
                        /\ pc'[q] \in Holding => buf'[mine'[q]].lock = q
                        /\ pc'[q] = "held" => buf'[mine'[q]].valid = TRUE
                        /\ pc'[q] = "done" => buf'[mine'[q]].valid = TRUE /\ buf'[mine'[q]].dirty = FALSE
                        /\ pc'[q] = "asleep" => buf'[mine'[q]].lock # None
      BY ZenonT(30) DEF ProcInv
    <2>1. mine[q] \in Buf \cup {None}
      BY <1>a, Fields, Zenon
    <2>2. CASE q = p
      BY <1>c, <2>2, Zenon DEF Holding
    <2>3. CASE q # p
      BY <1>a, <1>c, <1>e, <2>1, <2>3 DEF ProcInv, Holding
    <2> QED
      BY <2>2, <2>3, Zenon
  <1>3. LockInv'
    BY <1>a, <1>c, <1>e, <1>g, Fields DEF LockInv
  <1>4. QueueInv'
    <2>1. \A i \in 1..Len(idequeue) : buf'[idequeue[i]].lock = buf[idequeue[i]].lock
      BY <1>a, <1>e, Queued, Zenon
    <2>2. \A q \in Proc : (pc'[q] = "io" <=> pc[q] = "io") /\ (pc[q] = "io" => mine'[q] = mine[q])
      BY <1>b, <1>c
    <2> QED
      BY <1>a, <1>b, <2>1, <2>2, Fields, Queued DEF QueueInv
  <1>5. ControllerInv'
    <2>1. CASE idequeue = <<>>
      BY <1>a, <1>b, <2>1, Zenon DEF ControllerInv
    <2>2. CASE idequeue # <<>>
      <3>1. idequeue[1] \in Buf
        BY <1>a, <2>2, Queued, Zenon
      <3> QED
        BY <1>a, <1>b, <1>e, <2>2, <3>1 DEF ControllerInv, idestart
    <2> QED
      BY <2>1, <2>2, Zenon
  <1>6. CacheInv'
    BY <1>a, <1>b, <1>e DEF CacheInv
  <1>7. RefExact'
    <2>1. \A c \in Buf : buf'[c].refcnt = Cardinality(Users(c)')
      BY <1>e, <1>f, Zenon
    <2> QED
      BY <2>1, Zenon DEF RefExact, Users
  <1>8. PinInv'
    <2>1. \A q \in Proc : /\ pc'[q] \in {"iderw", "io"} <=> pc[q] \in {"iderw", "io"}
                          /\ pc[q] \in {"iderw", "io"} => mine'[q] = mine[q]
      BY <1>b, <1>c
    <2>2. (Pinned \ Writing)' \subseteq Pinned \ Writing
      BY <1>e, <2>1, Zenon DEF Pinned, Writing
    <2> QED
      BY <1>a, <2>2, PinKept, Zenon
  <1> QED
    BY <1>a, <1>b, <1>1, <1>2, <1>3, <1>4, <1>5, <1>6, <1>7, <1>8, Zenon DEF IInv

\* bget() takes a cached buffer, ...
LEMMA HitStep ==
  ASSUME IInv, NEW p \in Proc, NEW b \in Buf, buf[b].blockno \in Block, pc[p] = "idle",
         buf' = Hit(b), mine' = [mine EXCEPT ![p] = b], Goto(p, "want"),
         UNCHANGED <<lru, idequeue, ctl, irq, disk, panicked>>
  PROVE  IInv'
  <1>a. /\ TypeOK /\ ProcInv /\ LockInv /\ QueueInv /\ ControllerInv /\ CacheInv /\ RefExact /\ PinInv
        /\ (Enough => panicked = FALSE) /\ mine[p] = None
    BY Zenon DEF IInv, ProcInv
  <1>b. /\ pc' = [pc EXCEPT ![p] = "want"] /\ buf' = [buf EXCEPT ![b].refcnt = @ + 1]
    BY Zenon DEF Hit, Goto
  <1>c. \A q \in Proc : /\ pc'[q] = (IF q = p THEN "want" ELSE pc[q])
                        /\ mine'[q] = (IF q = p THEN b ELSE mine[q])
    BY <1>a, <1>b, Zenon DEF TypeOK
  <1>e. /\ buf' \in [Buf -> BufRec]
        /\ \A c \in Buf : /\ buf'[c].blockno = buf[c].blockno /\ buf'[c].valid = buf[c].valid
                          /\ buf'[c].dirty = buf[c].dirty /\ buf'[c].lock = buf[c].lock
                          /\ buf'[c].data = buf[c].data
                          /\ buf'[c].refcnt = IF c = b THEN buf[c].refcnt + 1 ELSE buf[c].refcnt
    <2>1. buf[b].refcnt + 1 \in Nat
      BY <1>a, Fields
    <2> QED
      BY <1>a, <1>b, <2>1, Fields DEF BufRec
  <1>g. \A c \in Buf : buf[c].lock # p
    BY <1>a, NoneApart, Zenon DEF LockInv, Holding
  <1>1. TypeOK'
    BY <1>a, <1>b, <1>e, Zenon DEF TypeOK, BufRec
  <1>2. ProcInv'
    <2> SUFFICES ASSUME NEW q \in Proc
                 PROVE  /\ mine'[q] = None <=> pc'[q] = "idle"
                        /\ mine'[q] # None => buf'[mine'[q]].blockno \in Block
                        /\ pc'[q] \in Holding => buf'[mine'[q]].lock = q
                        /\ pc'[q] = "held" => buf'[mine'[q]].valid = TRUE
                        /\ pc'[q] = "done" => buf'[mine'[q]].valid = TRUE /\ buf'[mine'[q]].dirty = FALSE
                        /\ pc'[q] = "asleep" => buf'[mine'[q]].lock # None
      BY ZenonT(30) DEF ProcInv
    <2>1. mine[q] \in Buf \cup {None}
      BY <1>a, Fields, Zenon
    <2>2. CASE q = p
      BY <1>c, <1>e, <2>2, NoneApart DEF Holding
    <2>3. CASE q # p
      BY <1>a, <1>c, <1>e, <2>1, <2>3 DEF ProcInv, Holding
    <2> QED
      BY <2>2, <2>3, Zenon
  <1>3. LockInv'
    BY <1>a, <1>c, <1>e, <1>g, Fields DEF LockInv
  <1>4. QueueInv'
    <2>1. \A i \in 1..Len(idequeue) : buf'[idequeue[i]].lock = buf[idequeue[i]].lock
      BY <1>a, <1>e, Queued, Zenon
    <2>2. \A q \in Proc : (pc'[q] = "io" <=> pc[q] = "io") /\ (pc[q] = "io" => mine'[q] = mine[q])
      BY <1>c, Zenon
    <2> QED
      BY <1>a, <2>1, <2>2, Fields, Queued DEF QueueInv
  <1>5. ControllerInv'
    <2>1. CASE idequeue = <<>>
      BY <1>a, <2>1, Zenon DEF ControllerInv
    <2>2. CASE idequeue # <<>>
      <3>1. idequeue[1] \in Buf
        BY <1>a, <2>2, Queued, Zenon
      <3> QED
        BY <1>a, <1>e, <2>2, <3>1, Zenon DEF ControllerInv, idestart
    <2> QED
      BY <2>1, <2>2, Zenon
  <1>6. CacheInv'
    BY <1>a, <1>e DEF CacheInv
  <1>7. RefExact'
    <2>1. \A c \in Buf : buf[c].refcnt = Cardinality(Users(c))
      BY <1>a, Zenon DEF RefExact, Users
    <2>2. \A c \in Buf : Cardinality(Users(c)') = IF c = b THEN Cardinality(Users(c)) + 1
                                                  ELSE Cardinality(Users(c))
      BY <1>a, CountUp, Zenon
    <2>3. \A c \in Buf : buf'[c].refcnt = Cardinality(Users(c)')
      BY <1>e, <2>1, <2>2, Zenon
    <2> QED
      BY <2>3, Zenon DEF RefExact, Users
  <1>8. PinInv'
    <2>1. \A q \in Proc : /\ pc'[q] \in {"iderw", "io"} <=> pc[q] \in {"iderw", "io"}
                          /\ pc[q] \in {"iderw", "io"} => mine'[q] = mine[q]
      BY <1>c, Zenon
    <2>2. (Pinned \ Writing)' \subseteq Pinned \ Writing
      BY <1>e, <2>1, Zenon DEF Pinned, Writing
    <2> QED
      BY <1>a, <2>2, PinKept, Zenon
  <1> QED
    BY <1>a, <1>1, <1>2, <1>3, <1>4, <1>5, <1>6, <1>7, <1>8, Zenon DEF IInv

\* ... or recycles one that nobody uses and the log does not need.
LEMMA MissStep ==
  ASSUME IInv, NEW p \in Proc, NEW k \in Block, NEW b \in Buf, buf[b].refcnt = 0, buf[b].dirty = FALSE,
         Cached(k) = {}, pc[p] = "idle",
         buf' = [buf EXCEPT ![b] = [Empty EXCEPT !.blockno = k, !.refcnt = 1]],
         mine' = [mine EXCEPT ![p] = b], Goto(p, "want"),
         UNCHANGED <<lru, idequeue, ctl, irq, disk, panicked>>
  PROVE  IInv'
  <1>a. /\ TypeOK /\ ProcInv /\ LockInv /\ QueueInv /\ ControllerInv /\ CacheInv /\ RefExact /\ PinInv
        /\ (Enough => panicked = FALSE) /\ mine[p] = None
    BY Zenon DEF IInv, ProcInv
  <1>b. pc' = [pc EXCEPT ![p] = "want"]
    BY Zenon DEF Goto
  <1>c. \A q \in Proc : /\ pc'[q] = (IF q = p THEN "want" ELSE pc[q])
                        /\ mine'[q] = (IF q = p THEN b ELSE mine[q])
    BY <1>a, <1>b, Zenon DEF TypeOK
  <1>e. /\ buf' \in [Buf -> BufRec]
        /\ \A c \in Buf : c # b => buf'[c] = buf[c]
        /\ buf'[b].blockno = k /\ buf'[b].valid = FALSE /\ buf'[b].dirty = FALSE
        /\ buf'[b].refcnt = 1 /\ buf'[b].lock = None
    BY <1>a, Fields, BufferAssumption, Zenon DEF BufRec, Empty
  <1>g. \A c \in Buf : buf[c].lock # p
    BY <1>a, NoneApart, Zenon DEF LockInv, Holding
  <1>h. (\A q \in Proc : mine[q] # b) /\ \A i \in 1..Len(idequeue) : idequeue[i] # b
    BY UnusedFree, Zenon
  <1>1. TypeOK'
    BY <1>a, <1>b, <1>e, Zenon DEF TypeOK, BufRec
  <1>2. ProcInv'
    <2> SUFFICES ASSUME NEW q \in Proc
                 PROVE  /\ mine'[q] = None <=> pc'[q] = "idle"
                        /\ mine'[q] # None => buf'[mine'[q]].blockno \in Block
                        /\ pc'[q] \in Holding => buf'[mine'[q]].lock = q
                        /\ pc'[q] = "held" => buf'[mine'[q]].valid = TRUE
                        /\ pc'[q] = "done" => buf'[mine'[q]].valid = TRUE /\ buf'[mine'[q]].dirty = FALSE
                        /\ pc'[q] = "asleep" => buf'[mine'[q]].lock # None
      BY ZenonT(30) DEF ProcInv
    <2>1. mine[q] \in Buf \cup {None}
      BY <1>a, Fields, Zenon
    <2>2. CASE q = p
      BY <1>c, <1>e, <2>2, NoneApart, Zenon DEF Holding
    <2>3. CASE q # p
      BY <1>a, <1>c, <1>e, <1>h, <2>1, <2>3 DEF ProcInv, Holding
    <2> QED
      BY <2>2, <2>3, Zenon
  <1>3. LockInv'
    BY <1>a, <1>c, <1>e, <1>g, Fields DEF LockInv
  <1>4. QueueInv'
    <2>1. \A i \in 1..Len(idequeue) : buf'[idequeue[i]].lock = buf[idequeue[i]].lock
      BY <1>a, <1>e, <1>h, Queued, Zenon
    <2>2. \A q \in Proc : (pc'[q] = "io" <=> pc[q] = "io") /\ (pc[q] = "io" => mine'[q] = mine[q])
      BY <1>c, Zenon
    <2> QED
      BY <1>a, <2>1, <2>2, Fields, Queued DEF QueueInv
  <1>5. ControllerInv'
    <2>1. CASE idequeue = <<>>
      BY <1>a, <2>1, Zenon DEF ControllerInv
    <2>2. CASE idequeue # <<>>
      <3>1. idequeue[1] \in Buf /\ idequeue[1] # b
        BY <1>a, <1>h, <2>2, Queued, Zenon
      <3> QED
        BY <1>a, <1>e, <2>2, <3>1, Zenon DEF ControllerInv, idestart
    <2> QED
      BY <2>1, <2>2, Zenon
  <1>6. CacheInv'
    <2>1. \A c \in Buf : buf[c].blockno # k
      BY Zenon DEF Cached
    <2> QED
      BY <1>a, <1>e, <2>1 DEF CacheInv
  <1>7. RefExact'
    <2>1. \A c \in Buf : buf[c].refcnt = Cardinality(Users(c))
      BY <1>a, Zenon DEF RefExact, Users
    <2>2. \A c \in Buf : Cardinality(Users(c)') = IF c = b THEN Cardinality(Users(c)) + 1
                                                  ELSE Cardinality(Users(c))
      BY <1>a, CountUp, Zenon
    <2>3. \A c \in Buf : buf'[c].refcnt = Cardinality(Users(c)')
      BY <1>e, <2>1, <2>2
    <2> QED
      BY <2>3, Zenon DEF RefExact, Users
  <1>8. PinInv'
    <2>1. \A q \in Proc : /\ pc'[q] \in {"iderw", "io"} <=> pc[q] \in {"iderw", "io"}
                          /\ pc[q] \in {"iderw", "io"} => mine'[q] = mine[q]
      BY <1>c, Zenon
    <2>2. (Pinned \ Writing)' \subseteq Pinned \ Writing
      BY <1>e, <2>1, Zenon DEF Pinned, Writing
    <2> QED
      BY <1>a, <2>2, PinKept, Zenon
  <1> QED
    BY <1>a, <1>1, <1>2, <1>3, <1>4, <1>5, <1>6, <1>7, <1>8, Zenon DEF IInv

\* A queue without its head.
LEMMA TailBuf ==
  ASSUME NEW q \in Seq(Buf), q # <<>>
  PROVE  /\ Tail(q) \in Seq(Buf) /\ Len(Tail(q)) = Len(q) - 1 /\ Len(q) \in Nat \ {0}
         /\ \A i \in 1..(Len(q) - 1) : Tail(q)[i] = q[i + 1]
         /\ Tail(q) # <<>> => 1 \in 1..(Len(q) - 1)
  OBVIOUS

\* What ideintr() does to the buffer at the head of the queue: it is then as on the disk,
\* and as it was if it was valid.
LEMMA IntrFields ==
  ASSUME IInv, ideintr
  PROVE  LET b == idequeue[1] IN
         /\ idequeue # <<>> /\ irq = TRUE /\ b \in Buf /\ buf' \in [Buf -> BufRec]
         /\ \A c \in Buf : c # b => buf'[c] = buf[c]
         /\ buf'[b].valid = TRUE /\ buf'[b].dirty = FALSE
         /\ buf'[b].data = disk[buf[b].blockno]
         /\ (buf[b].valid = TRUE => buf'[b].data = buf[b].data)
         /\ buf'[b].blockno = buf[b].blockno /\ buf'[b].refcnt = buf[b].refcnt
         /\ buf'[b].lock = buf[b].lock
  <1> DEFINE b == idequeue[1]
  <1>a. TypeOK /\ ControllerInv /\ CacheInv
    BY Zenon DEF IInv
  <1>1. irq = TRUE /\ idequeue # <<>>
    BY <1>a, Zenon DEF ideintr, ControllerInv, TypeOK
  <1>2. b \in Buf /\ buf[b].blockno \in Block /\ ctl.block = buf[b].blockno
    BY <1>1, HeadOwned
  <1>3. buf \in [Buf -> BufRec] /\ disk \in [Block -> Data] /\ buf[b].dirty \in BOOLEAN
    BY <1>a, <1>2, Fields, Zenon DEF TypeOK
  <1> DEFINE d == IF buf[b].dirty THEN buf[b].data ELSE disk[buf[b].blockno]
  <1>4. buf' = [buf EXCEPT ![b] = [[[@ EXCEPT !.valid = TRUE] EXCEPT !.dirty = FALSE] EXCEPT !.data = d]]
    BY <1>2, <1>3, Zenon DEF ideintr, BufRec
  <1>5. /\ d \in Data /\ d = disk[buf[b].blockno]
        /\ (buf[b].valid = TRUE => d = buf[b].data)
    <2>1. CASE buf[b].dirty = TRUE
      <3>1. disk[buf[b].blockno] = buf[b].data
        BY <1>a, <1>1, <2>1, Zenon DEF ControllerInv
      <3> QED
        BY <1>2, <1>3, <2>1, <3>1, Zenon
    <2>2. CASE buf[b].dirty = FALSE
      BY <1>a, <1>2, <1>3, <2>2, Zenon DEF CacheInv
    <2> QED
      BY <1>3, <2>1, <2>2, Zenon
  <1> HIDE DEF d
  <1>6. \A c \in Buf : c # b => buf'[c] = buf[c]
    BY <1>2, <1>3, <1>4, Zenon
  <1>7. buf'[b] = [[[buf[b] EXCEPT !.valid = TRUE] EXCEPT !.dirty = FALSE] EXCEPT !.data = d]
    BY <1>2, <1>3, <1>4, Zenon
  <1>8. /\ buf'[b] \in BufRec /\ buf'[b].valid = TRUE /\ buf'[b].dirty = FALSE /\ buf'[b].data = d
        /\ buf'[b].blockno = buf[b].blockno /\ buf'[b].refcnt = buf[b].refcnt
        /\ buf'[b].lock = buf[b].lock
    <2>1. buf[b] \in BufRec
      BY <1>2, <1>3, Zenon
    <2>2. buf'[b] = [blockno |-> buf[b].blockno, valid |-> TRUE, dirty |-> FALSE,
                     refcnt |-> buf[b].refcnt, lock |-> buf[b].lock, data |-> d]
      BY <1>7, <2>1, Zenon DEF BufRec
    <2>3. /\ buf[b].blockno \in Block \cup {None} /\ buf[b].refcnt \in Nat
          /\ buf[b].lock \in Proc \cup {None} /\ d \in Data
      BY <1>5, <2>1, Zenon DEF BufRec
    <2>4. buf'[b] \in BufRec
      BY <2>2, <2>3 DEF BufRec
    <2> QED
      BY <2>2, <2>4
  <1>9. buf' \in [Buf -> BufRec]
    BY <1>2, <1>3, <1>4, <1>7, <1>8, Zenon
  <1> QED
    BY <1>1, <1>2, <1>5, <1>6, <1>8, <1>9, Zenon

\* ideintr() finishes the request at the head of the queue and starts the next one.
LEMMA IntrStep ==
  ASSUME IInv, ideintr
  PROVE  IInv'
  <1> DEFINE b == idequeue[1]
             n == Len(idequeue) - 1
  <1>a. /\ TypeOK /\ ProcInv /\ LockInv /\ QueueInv /\ ControllerInv /\ CacheInv /\ RefExact /\ PinInv
        /\ (Enough => panicked = FALSE)
    BY Zenon DEF IInv
  <1>b. /\ irq' = FALSE /\ idequeue' = Tail(idequeue) /\ ctl' = NextRequest(Tail(idequeue))
        /\ pc' = [q \in Proc |-> IF pc[q] = "io" /\ mine[q] = b THEN "done" ELSE pc[q]]
        /\ UNCHANGED <<mine, lru, disk, panicked>>
    BY Zenon DEF ideintr
  <1>c. \A q \in Proc : pc'[q] = IF pc[q] = "io" /\ mine[q] = b THEN "done" ELSE pc[q]
    BY <1>b, Zenon
  <1>d. /\ idequeue # <<>> /\ b \in Buf /\ buf' \in [Buf -> BufRec]
        /\ \A c \in Buf : c # b => buf'[c] = buf[c]
        /\ buf'[b].valid = TRUE /\ buf'[b].dirty = FALSE /\ buf'[b].data = disk[buf[b].blockno]
        /\ buf'[b].blockno = buf[b].blockno /\ buf'[b].refcnt = buf[b].refcnt
        /\ buf'[b].lock = buf[b].lock
    BY IntrFields, Zenon
  <1>e. /\ buf[b].lock \in Proc /\ mine[buf[b].lock] = b /\ pc[buf[b].lock] = "io"
        /\ buf[b].blockno \in Block
    BY <1>d, HeadOwned, Zenon
  <1>f. /\ idequeue' \in Seq(Buf) /\ Len(idequeue') = n /\ n \in Nat
        /\ \A i \in 1..n : idequeue'[i] = idequeue[i + 1]
        /\ idequeue' # <<>> => 1 \in 1..n
    <2>1. idequeue \in Seq(Buf)
      BY <1>a, Zenon DEF TypeOK
    <2> QED
      BY <1>b, <1>d, <2>1, TailBuf
  <1>g. \A i \in 1..n : /\ i + 1 \in 1..Len(idequeue) /\ idequeue[i + 1] \in Buf
                        /\ idequeue[i + 1] # b
    <2>1. Len(idequeue) = n + 1 /\ 1 \in 1..Len(idequeue)
      BY <1>a, <1>d, Queued
    <2>2. \A i \in 1..n : i + 1 \in 1..Len(idequeue) /\ i + 1 # 1
      BY <1>f, <2>1
    <2> QED
      BY <1>a, <2>1, <2>2, Queued, Zenon DEF QueueInv
  <1>h. \A q \in Proc : q # buf[b].lock /\ mine[q] = b => pc[q] \notin Holding
    BY <1>a, <1>d, Zenon DEF ProcInv
  <1>i. b = idequeue[1] /\ Len(idequeue) = n + 1
    BY <1>a, Queued
  <1> HIDE DEF b, n
  <1>1. TypeOK'
    <2>1. pc' \in [Proc -> {"idle", "want", "asleep", "held", "iderw", "io", "done", "brelse"}]
      BY <1>a, <1>b, Zenon DEF TypeOK
    <2> QED
      BY <1>a, <1>b, <1>d, <1>f, <2>1, Zenon DEF TypeOK, BufRec
  <1>2. ProcInv'
    <2> SUFFICES ASSUME NEW q \in Proc
                 PROVE  /\ mine[q] = None <=> pc'[q] = "idle"
                        /\ mine[q] # None => buf'[mine[q]].blockno \in Block
                        /\ pc'[q] \in Holding => buf'[mine[q]].lock = q
                        /\ pc'[q] = "held" => buf'[mine[q]].valid = TRUE
                        /\ pc'[q] = "done" => buf'[mine[q]].valid = TRUE /\ buf'[mine[q]].dirty = FALSE
                        /\ pc'[q] = "asleep" => buf'[mine[q]].lock # None
      BY <1>b, ZenonT(30) DEF ProcInv
    <2>1. mine[q] \in Buf \cup {None}
      BY <1>a, Fields, Zenon
    <2>2. CASE mine[q] = b
      <3>1. pc'[q] \in Holding => pc[q] \in Holding
        BY <1>c, Zenon DEF Holding
      <3> QED
        BY <1>a, <1>c, <1>d, <2>2, <3>1 DEF ProcInv
    <2>3. CASE mine[q] # b
      BY <1>a, <1>c, <1>d, <2>1, <2>3 DEF ProcInv, Holding
    <2> QED
      BY <2>2, <2>3, Zenon
  <1>3. LockInv'
    <2> SUFFICES ASSUME NEW c \in Buf, buf'[c].lock # None
                 PROVE  mine[buf'[c].lock] = c /\ pc'[buf'[c].lock] \in Holding
      BY <1>b, Zenon DEF LockInv
    <2>1. buf'[c].lock = buf[c].lock /\ buf[c].lock \in Proc
      BY <1>a, <1>d, Fields
    <2>2. mine[buf[c].lock] = c /\ pc[buf[c].lock] \in Holding
      BY <1>a, <2>1, NoneApart, Zenon DEF LockInv
    <2> QED
      BY <1>c, <2>1, <2>2, Zenon DEF Holding
  <1>4. QueueInv'
    <2>1. \A i \in 1..n : buf'[idequeue'[i]].lock # None /\ pc'[buf'[idequeue'[i]].lock] = "io"
      <3> SUFFICES ASSUME NEW i \in 1..n
                   PROVE  buf'[idequeue'[i]].lock # None /\ pc'[buf'[idequeue'[i]].lock] = "io"
        BY Zenon
      <3> DEFINE c == idequeue[i + 1]
      <3>1. c \in Buf /\ c # b /\ idequeue'[i] = c /\ buf'[c] = buf[c]
        BY <1>d, <1>f, <1>g, Zenon
      <3>2. buf[c].lock # None /\ pc[buf[c].lock] = "io"
        BY <1>a, <1>g, Zenon DEF QueueInv
      <3> HIDE DEF c
      <3>3. buf[c].lock \in Proc /\ mine[buf[c].lock] = c
        BY <1>a, <3>1, <3>2, Fields, Zenon DEF LockInv
      <3> QED
        BY <1>c, <3>1, <3>2, <3>3, Zenon
    <2>2. \A i, j \in 1..n : idequeue'[i] = idequeue'[j] => i = j
      <3> SUFFICES ASSUME NEW i \in 1..n, NEW j \in 1..n, idequeue'[i] = idequeue'[j] PROVE i = j
        BY Zenon
      <3>1. idequeue[i + 1] = idequeue[j + 1]
        BY <1>f, Zenon
      <3>2. i + 1 = j + 1
        BY <1>a, <1>g, <3>1, Zenon DEF QueueInv
      <3> QED
        BY <1>f, <3>2
    <2>3. ASSUME NEW q \in Proc, pc'[q] = "io" PROVE \E i \in 1..n : idequeue'[i] = mine[q]
      <3>1. pc[q] = "io" /\ mine[q] # b
        BY <1>c, <2>3, Zenon
      <3>2. PICK j \in 1..Len(idequeue) : idequeue[j] = mine[q]
        BY <1>a, <3>1, Zenon DEF QueueInv
      <3>3. j # 1
        BY <1>i, <3>1, <3>2, Zenon
      <3>4. j - 1 \in 1..n /\ (j - 1) + 1 = j
        BY <1>f, <1>i, <3>3
      <3>5. idequeue'[j - 1] = idequeue[(j - 1) + 1]
        BY <1>f, <3>4, Zenon
      <3> QED
        BY <3>2, <3>4, <3>5, Zenon
    <2> QED
      BY <1>b, <1>f, <2>1, <2>2, <2>3 DEF QueueInv
  <1>5. ControllerInv'
    <2>1. CASE idequeue' = <<>>
      BY <1>b, <2>1, Zenon DEF ControllerInv, NextRequest
    <2>2. CASE idequeue' # <<>>
      <3>1. idequeue'[1] = idequeue[1 + 1] /\ idequeue[1 + 1] \in Buf /\ idequeue[1 + 1] # b
        BY <1>f, <1>g, <2>2, Zenon
      <3>2. ctl' = idestart(idequeue'[1]) /\ buf'[idequeue'[1]] = buf[idequeue'[1]]
        BY <1>b, <1>d, <2>2, <3>1, Zenon DEF NextRequest
      <3> QED
        BY <1>b, <2>2, <3>2, Zenon DEF ControllerInv, idestart
    <2> QED
      BY <2>1, <2>2, Zenon
  <1>6. CacheInv'
    <2>1. \A c \in Buf : buf'[c].blockno = buf[c].blockno
      BY <1>d, Zenon
    <2>2. \A c, e \in Buf : buf'[c].blockno = buf'[e].blockno /\ buf'[c].blockno # None => c = e
      BY <1>a, <2>1 DEF CacheInv
    <2>3. ASSUME NEW c \in Buf
          PROVE  /\ buf'[c].dirty = TRUE => buf'[c].valid = TRUE
                 /\ buf'[c].valid = TRUE => buf'[c].blockno \in Block
                 /\ buf'[c].valid = TRUE /\ buf'[c].dirty = FALSE => buf'[c].data = disk'[buf'[c].blockno]
      BY <1>a, <1>b, <1>d, <1>e, Zenon DEF CacheInv
    <2> QED
      BY <2>2, <2>3, Zenon DEF CacheInv
  <1>7. RefExact'
    BY <1>a, <1>b, <1>d, SameRefs, Zenon
  <1>8. PinInv'
    <2> SUFFICES ASSUME NEW c \in Buf, buf'[c].dirty, c \notin Writing'
                 PROVE  buf[c].dirty /\ c \notin Writing
      <3>1. (Pinned \ Writing)' \subseteq Pinned \ Writing
        BY Zenon DEF Pinned
      <3> QED
        BY <1>a, <3>1, PinKept, Zenon
    <2>1. c # b /\ buf'[c] = buf[c]
      BY <1>d, Zenon
    <2> QED
      BY <1>b, <1>c, <2>1, Zenon DEF Writing
  <1> QED
    BY <1>a, <1>b, <1>1, <1>2, <1>3, <1>4, <1>5, <1>6, <1>7, <1>8, Zenon DEF IInv



\* A step that changes nothing but panicked, and not that if there are enough buffers.
LEMMA IdleStep ==
  ASSUME IInv, UNCHANGED <<pc, mine, buf, lru, idequeue, ctl, irq, disk>>,
         Enough => UNCHANGED panicked
  PROVE  IInv'
  <1>1. TypeOK' /\ ProcInv' /\ LockInv' /\ QueueInv'
    BY DEF IInv, TypeOK, ProcInv, LockInv, QueueInv
  <1>2. ControllerInv' /\ CacheInv' /\ RefExact'
    BY Zenon DEF IInv, ControllerInv, idestart, CacheInv, RefExact
  <1>3. PinInv'
    BY Zenon DEF IInv, PinInv, Pinned, Writing
  <1>4. Enough => panicked' = FALSE
    BY Zenon DEF IInv
  <1> QED
    BY <1>1, <1>2, <1>3, <1>4, Zenon DEF IInv

\* bget() as a whole: with enough buffers it does not panic.
LEMMA BgetStep ==
  ASSUME IInv, NEW p \in Proc, NEW k \in Block, bget(p, k)
  PROVE  IInv'
  <1>a. /\ pc[p] = "idle" /\ UNCHANGED <<lru, idequeue, ctl, irq, disk>> /\ (Enough => Unused # {})
    BY Room, Zenon DEF bget, driver
  <1>1. ASSUME NEW b \in Cached(k), buf' = Hit(b), mine' = [mine EXCEPT ![p] = b], Goto(p, "want"),
               UNCHANGED panicked
        PROVE  IInv'
    <2>1. b \in Buf /\ buf[b].blockno \in Block
      BY Zenon DEF Cached
    <2> QED
      BY <1>a, <1>1, <2>1, HitStep, Zenon
  <1>2. ASSUME NEW i \in Unused, Cached(k) = {},
               buf' = [buf EXCEPT ![lru[i]] = [Empty EXCEPT !.blockno = k, !.refcnt = 1]],
               mine' = [mine EXCEPT ![p] = lru[i]], Goto(p, "want"), UNCHANGED panicked
        PROVE  IInv'
    <2>1. lru[i] \in Buf /\ buf[lru[i]].refcnt = 0 /\ ~buf[lru[i]].dirty
      BY Zenon DEF Unused, IInv, TypeOK
    <2>2. buf[lru[i]].dirty = FALSE
      BY <2>1, Fields, Zenon DEF IInv
    <2> QED
      BY <1>a, <1>2, <2>1, <2>2, MissStep, Zenon
  <1>3. ASSUME Unused = {}, UNCHANGED <<pc, mine, buf>> PROVE IInv'
    BY <1>a, <1>3, IdleStep, Zenon
  <1> QED
    BY <1>1, <1>2, <1>3, Zenon DEF bget

-----------------------------------------------------------------------------
(* The invariant *)

\* Every step keeps it.
LEMMA NextIInv ==
  ASSUME IInv, [Next]_vars
  PROVE  IInv'
  <1>1. CASE UNCHANGED vars
    <2>1. UNCHANGED <<pc, mine, buf, lru, idequeue, ctl, irq, disk, panicked>>
      BY <1>1, Zenon DEF vars
    <2> QED
      BY <2>1, IdleStep, Zenon
  <1>2. ASSUME NEW p \in Proc, Step(p) PROVE IInv'
    BY <1>2, WaitStep, TakeStep, ReleaseStep, BrelseStep, IderwStep, CompletedStep, Zenon DEF Step
  <1> QED
    BY <1>1, <1>2, ControllerStep, IntrStep, BgetStep, BwriteStep, LogWriteStep, Zenon DEF Next

\* The invariant of the buffer cache holds in every run.
THEOREM CacheInvariance == Spec => []IInv
  <1>1. IInv /\ [Next]_vars => IInv'
    BY NextIInv, Zenon
  <1> QED
    BY <1>1, InitIInv, PTL DEF Spec

\* Every buffer's refcnt counts its users, bget() never panics if there are enough
\* buffers, and whoever sleeps for a lock or for the disk has somebody to wake them.
THEOREM BuffersAreSound ==
  ASSUME Enough PROVE Spec => []BuffersSound
  <1>1. IInv => BuffersSound
    <2> SUFFICES ASSUME IInv PROVE BuffersSound
      BY Zenon
    <2>a. TypeOK /\ ProcInv /\ LockInv /\ QueueInv /\ ControllerInv /\ RefExact /\ panicked = FALSE
      BY Zenon DEF IInv
    <2>1. DOMAIN idequeue = 1..Len(idequeue)
      BY <2>a DEF TypeOK
    <2>2. ASSUME NEW i \in 1..Len(idequeue)
          PROVE  /\ buf[idequeue[i]].lock # None /\ pc[buf[idequeue[i]].lock] = "io"
                 /\ mine[buf[idequeue[i]].lock] = idequeue[i]
      BY <2>a, Queued, Zenon DEF QueueInv, LockInv
    <2>3. IF idequeue = <<>> THEN ctl = None /\ ~irq
          ELSE ctl # None /\ ctl.block = buf[idequeue[1]].blockno
      <3>1. CASE idequeue = <<>>
        BY <2>a, <3>1, Zenon DEF ControllerInv
      <3>2. CASE idequeue # <<>>
        <4>1. ctl.block = buf[idequeue[1]].blockno
          BY <3>2, HeadOwned
        <4>2. ctl \in [block : Block, write : BOOLEAN, data : Data]
          <5> DEFINE b == idequeue[1]
          <5>1. b \in Buf /\ buf[b].blockno \in Block
                /\ ctl = [block |-> buf[b].blockno, write |-> buf[b].dirty,
                          data |-> IF buf[b].dirty THEN buf[b].data ELSE Zero]
            BY <3>2, HeadOwned, Zenon
          <5>2. buf[b].dirty \in BOOLEAN /\ buf[b].data \in Data /\ Zero \in Data
            BY <2>a, <5>1, Fields, BufferAssumption, Zenon
          <5> HIDE DEF b
          <5> QED
            BY <5>1, <5>2, Zenon
        <4> QED
          BY <3>2, <4>1, <4>2, BufferAssumption, Zenon
      <3> QED
        BY <3>1, <3>2, Zenon
    <2>4. SleepersHaveWakers
      BY <2>a, <2>1, <2>2, <2>3 DEF SleepersHaveWakers, ProcInv, QueueInv
    <2> QED
      BY <2>a, <2>4, Zenon DEF BuffersSound, NoPanic
  <1> QED
    BY <1>1, CacheInvariance, PTL

-----------------------------------------------------------------------------
(* The buffer cache as a BlockStore *)

\* The state of the store that IsBlockStore gives.
Value(B, D, k) ==
  IF \E b \in {c \in Buf : B[c].blockno = k} : B[b].valid
  THEN B[CHOOSE b \in {c \in Buf : B[c].blockno = k} : B[b].valid].data ELSE D[k]
SVal == [k \in Block |->
           IF \E b \in Cached(k) : buf[b].valid
           THEN buf[CHOOSE b \in Cached(k) : buf[b].valid].data ELSE disk[k]]
SHolding == [p \in Proc |-> IF Holds(p) THEN buf[mine[p]].blockno ELSE None]
SSees == [p \in Proc |-> IF Holds(p) THEN buf[mine[p]].data ELSE None]

\* Buffers B and the disk D agree, as in CacheInv; what is then known of Value.
Coherent(B, D) ==
  /\ \A b \in Buf : B[b].valid \in BOOLEAN /\ B[b].dirty \in BOOLEAN
  /\ \A b \in Buf : B[b].dirty = TRUE => B[b].valid = TRUE
  /\ \A b \in Buf : B[b].valid = TRUE /\ B[b].dirty = FALSE => B[b].data = D[B[b].blockno]
  /\ \A b, c \in Buf : B[b].blockno = B[c].blockno /\ B[b].blockno # None => b = c
Known(B, D, k) ==
  /\ \A b \in Buf : B[b].blockno = k /\ B[b].valid = TRUE => Value(B, D, k) = B[b].data
  /\ (\A b \in Buf : B[b].blockno = k => B[b].dirty = FALSE) => Value(B, D, k) = D[k]

\* A block's value is in its buffer if that is valid, and on the disk unless that is dirty.
LEMMA ValueIs ==
  ASSUME NEW B, NEW D, Coherent(B, D), NEW k, k # None
  PROVE  Known(B, D, k)
  <1> USE DEF Coherent
  <1> DEFINE C == {c \in Buf : B[c].blockno = k}
             x == CHOOSE b \in C : B[b].valid
  <1>1. ASSUME NEW b \in Buf, B[b].blockno = k, B[b].valid = TRUE
        PROVE  Value(B, D, k) = B[b].data
    <2>1. b \in C /\ B[b].valid
      BY <1>1, Zenon
    <2>2. x \in C /\ B[x].valid
      BY <2>1, Zenon
    <2>3. Value(B, D, k) = B[x].data
      BY <2>1, Zenon DEF Value
    <2>4. x = b
      BY <1>1, <2>2, Zenon
    <2> QED
      BY <2>3, <2>4, Zenon
  <1>2. ASSUME \A b \in Buf : B[b].blockno = k => B[b].dirty = FALSE PROVE Value(B, D, k) = D[k]
    <2>1. CASE \E b \in Buf : B[b].blockno = k /\ B[b].valid = TRUE
      BY <1>1, <1>2, <2>1, Zenon
    <2>2. CASE ~ \E b \in Buf : B[b].blockno = k /\ B[b].valid = TRUE
      <3>1. \A b \in C : ~B[b].valid
        BY <2>2, Zenon
      <3> QED
        BY <3>1, Zenon DEF Value
    <2> QED
      BY <2>1, <2>2, Zenon
  <1> QED
    BY <1>1, <1>2, Zenon DEF Known

\* So it is now, ...
LEMMA ValueNow ==
  ASSUME IInv, NEW k \in Block
  PROVE  /\ \A b \in Buf : buf[b].blockno = k /\ buf[b].valid = TRUE => SVal[k] = buf[b].data
         /\ (\A b \in Buf : buf[b].blockno = k => buf[b].dirty = FALSE) => SVal[k] = disk[k]
  <1>1. SVal[k] = Value(buf, disk, k)
    BY Zenon DEF SVal, Value, Cached
  <1>2. Coherent(buf, disk) /\ k # None
    BY Fields, NoneApart, Zenon DEF IInv, CacheInv, Coherent
  <1>3. Known(buf, disk, k)
    BY <1>2, ValueIs, Zenon
  <1> QED
    BY <1>1, <1>3, Zenon DEF Known

\* ... and after a step.
LEMMA ValueThen ==
  ASSUME IInv', NEW k \in Block
  PROVE  /\ \A b \in Buf : buf'[b].blockno = k /\ buf'[b].valid = TRUE => SVal'[k] = buf'[b].data
         /\ (\A b \in Buf : buf'[b].blockno = k => buf'[b].dirty = FALSE) => SVal'[k] = disk'[k]
  <1>1. SVal'[k] = Value(buf', disk', k)
    BY Zenon DEF SVal, Value, Cached
  <1>2. /\ k # None /\ \A b \in Buf : buf'[b].valid \in BOOLEAN /\ buf'[b].dirty \in BOOLEAN
    BY NoneApart, Zenon DEF IInv, TypeOK
  <1>3. Coherent(buf', disk')
    BY <1>2, Zenon DEF IInv, CacheInv, Coherent
  <1>4. Known(buf', disk', k)
    BY <1>2, <1>3, ValueIs, Zenon
  <1> QED
    BY <1>1, <1>4, Zenon DEF Known

\* A step that neither changes the disk nor a dirty buffer changes no value.
LEMMA ValueKept ==
  ASSUME IInv, IInv', disk' = disk,
         \A b \in Buf : buf'[b].dirty = buf[b].dirty /\
           (buf[b].dirty = TRUE => buf'[b].blockno = buf[b].blockno /\ buf'[b].data = buf[b].data)
  PROVE  \A k \in Block : SVal'[k] = SVal[k]
  <1> SUFFICES ASSUME NEW k \in Block PROVE SVal'[k] = SVal[k]
    BY Zenon
  <1>0. \A b \in Buf : /\ buf[b].dirty \in BOOLEAN
                       /\ buf[b].dirty = TRUE => buf[b].valid = TRUE /\ buf'[b].valid = TRUE
    BY Fields, Zenon DEF IInv, CacheInv
  <1>1. CASE \E b \in Buf : buf[b].blockno = k /\ buf[b].dirty = TRUE
    <2>1. PICK b \in Buf : buf[b].blockno = k /\ buf[b].dirty = TRUE
      BY <1>1, Zenon
    <2>2. SVal[k] = buf[b].data /\ SVal'[k] = buf'[b].data
      BY <1>0, <2>1, ValueNow, ValueThen, ZenonT(30)
    <2> QED
      BY <2>1, <2>2, Zenon
  <1>2. CASE \A b \in Buf : buf[b].blockno = k => buf[b].dirty = FALSE
    <2>1. \A b \in Buf : buf'[b].blockno = k => buf'[b].dirty = FALSE
      BY <1>0, <1>2, Zenon
    <2>2. SVal[k] = disk[k] /\ SVal'[k] = disk'[k]
      BY <1>2, <2>1, ValueNow, ValueThen, Zenon
    <2> QED
      BY <2>2, Zenon
  <1> QED
    BY <1>0, <1>1, <1>2, Zenon

\* The store does nothing in a step that changes no value and no holder's view.
LEMMA Stutters ==
  ASSUME \A k \in Block : SVal'[k] = SVal[k],
         \A q \in Proc : /\ Holds(q)' <=> Holds(q)
                         /\ Holds(q) => /\ buf'[mine'[q]].blockno = buf[mine[q]].blockno
                                        /\ buf'[mine'[q]].data = buf[mine[q]].data
  PROVE  UNCHANGED Store!vars
  <1>1. SVal' = SVal
    BY Zenon DEF SVal
  <1>2. SHolding' = SHolding
    BY Zenon DEF SHolding
  <1>3. SSees' = SSees
    BY Zenon DEF SSees
  <1> QED
    BY <1>1, <1>2, <1>3, Zenon DEF Store!vars, SVal, SHolding, SSees

\* A step in which p begins to hold block k.
LEMMA Breads ==
  ASSUME NEW p \in Proc, NEW k \in Block, ~Holds(p), Holds(p)', buf'[mine'[p]].blockno = k,
         buf'[mine'[p]].data = SVal[k],
         \A j \in Block : SVal'[j] = SVal[j],
         \A q \in Proc : q # p => /\ Holds(q)' <=> Holds(q)
                                  /\ Holds(q) => /\ buf[mine[q]].blockno # k
                                                 /\ buf'[mine'[q]].blockno = buf[mine[q]].blockno
                                                 /\ buf'[mine'[q]].data = buf[mine[q]].data
  PROVE  Store!Next
  <1>1. SVal' = SVal
    BY Zenon DEF SVal
  <1>2. SHolding' = [SHolding EXCEPT ![p] = k] /\ SHolding[p] = None
    BY Zenon DEF SHolding
  <1>3. SSees' = [SSees EXCEPT ![p] = SVal[k]]
    BY ZenonT(30) DEF SSees
  <1>4. \A q \in Proc : SHolding[q] # k
    BY NoneApart, Zenon DEF SHolding
  <1>5. Store!Bread(p, k)
    BY <1>1, <1>2, <1>3, <1>4, Zenon DEF Store!Bread, SVal, SHolding, SSees
  <1> QED
    BY <1>5, Zenon DEF Store!Next

\* A step in which p stores v in the block it holds.
LEMMA StoresIt ==
  ASSUME NEW p \in Proc, NEW k \in Block, NEW v \in Data, Holds(p), Holds(p)', buf[mine[p]].blockno = k,
         buf'[mine'[p]].blockno = k, buf'[mine'[p]].data = v, SVal'[k] = v,
         \A j \in Block : j # k => SVal'[j] = SVal[j],
         \A q \in Proc : q # p => /\ Holds(q)' <=> Holds(q)
                                  /\ Holds(q) => /\ buf'[mine'[q]].blockno = buf[mine[q]].blockno
                                                 /\ buf'[mine'[q]].data = buf[mine[q]].data
  PROVE  Store!Next
  <1>1. SVal' = [SVal EXCEPT ![k] = v]
    BY ZenonT(30) DEF SVal
  <1>2. SHolding' = SHolding /\ SHolding[p] = k /\ SHolding[p] # None
    BY NoneApart DEF SHolding
  <1>3. SSees' = [SSees EXCEPT ![p] = v]
    BY Zenon DEF SSees
  <1>4. Store!Store(p, v)
    BY <1>1, <1>2, <1>3, Zenon DEF Store!Store, SVal, SHolding, SSees
  <1> QED
    BY <1>4, Zenon DEF Store!Next

\* A step in which p lets its block go.
LEMMA Releases ==
  ASSUME NEW p \in Proc, Holds(p), ~Holds(p)', buf[mine[p]].blockno \in Block,
         \A k \in Block : SVal'[k] = SVal[k],
         \A q \in Proc : q # p => /\ Holds(q)' <=> Holds(q)
                                  /\ Holds(q) => /\ buf'[mine'[q]].blockno = buf[mine[q]].blockno
                                                 /\ buf'[mine'[q]].data = buf[mine[q]].data
  PROVE  Store!Next
  <1>1. SVal' = SVal
    BY Zenon DEF SVal
  <1>2. SHolding' = [SHolding EXCEPT ![p] = None] /\ SHolding[p] # None
    BY NoneApart, Zenon DEF SHolding
  <1>3. SSees' = [SSees EXCEPT ![p] = None]
    BY Zenon DEF SSees
  <1>4. Store!Brelse(p)
    BY <1>1, <1>2, <1>3, Zenon DEF Store!Brelse, SVal, SHolding, SSees
  <1> QED
    BY <1>4, Zenon DEF Store!Next

\* A holder has the lock of a valid buffer of its block.
LEMMA HolderHas ==
  ASSUME IInv, NEW p \in Proc, Holds(p)
  PROVE  /\ pc[p] \in Holding /\ mine[p] \in Buf /\ buf[mine[p]].lock = p
         /\ buf[mine[p]].valid = TRUE /\ buf[mine[p]].blockno \in Block
  <1>1. pc[p] \in Holding
    BY Zenon DEF Holds, Holding
  <1>2. mine[p] \in Buf /\ buf[mine[p]].lock = p /\ buf[mine[p]].blockno \in Block
    BY <1>1, Own, Zenon
  <1> QED
    BY <1>1, <1>2, Fields, Zenon DEF Holds, IInv

-----------------------------------------------------------------------------
(* Every step is a step of the store, or none *)

\* Going to sleep for a lock, queueing a request and finding it done change nothing.
LEMMA QuietMoves ==
  ASSUME IInv, IInv', NEW p \in Proc,
         \/ acquiresleep(p) /\ buf[mine[p]].lock # None
         \/ iderw(p)
         \/ Completed(p)
  PROVE  UNCHANGED Store!vars
  <1>1. UNCHANGED <<buf, mine, disk>>
    BY Zenon DEF acquiresleep, iderw, Completed, driver
  <1>2. \A q \in Proc : Holds(q)' <=> Holds(q)
    <2>1. \A q \in Proc : pc'[q] \in Holding <=> pc[q] \in Holding
      <3>0. pc \in [Proc -> {"idle", "want", "asleep", "held", "iderw", "io", "done", "brelse"}]
        BY Zenon DEF IInv, TypeOK
      <3>1. CASE acquiresleep(p) /\ buf[mine[p]].lock # None
        BY <3>0, <3>1, Zenon DEF acquiresleep, Goto, Holding
      <3>2. CASE iderw(p)
        BY <3>0, <3>2, Zenon DEF iderw, Goto, Holding
      <3>3. CASE Completed(p)
        BY <3>0, <3>3, Zenon DEF Completed, Goto, Holding
      <3> QED
        BY <3>1, <3>2, <3>3, Zenon
    <2> QED
      BY <1>1, <2>1, Zenon DEF Holds, Holding
  <1>3. \A k \in Block : SVal'[k] = SVal[k]
    BY <1>1, ValueKept, Zenon
  <1> QED
    BY <1>1, <1>2, <1>3, Stutters, Zenon

\* Taking the lock of a valid buffer gives the block.
LEMMA TakeReads ==
  ASSUME IInv, IInv', NEW p \in Proc, acquiresleep(p), buf[mine[p]].lock = None
  PROVE  Store!Next \/ UNCHANGED Store!vars
  <1> DEFINE b == mine[p]
             k == buf[b].blockno
             l == IF buf[b].valid THEN "held" ELSE "iderw"
  <1>a. TypeOK /\ ProcInv /\ CacheInv
    BY Zenon DEF IInv
  <1>b. /\ pc[p] = "want" /\ pc' = [pc EXCEPT ![p] = l] /\ buf' = [buf EXCEPT ![b].lock = p]
        /\ UNCHANGED <<mine, disk>>
    BY Zenon DEF acquiresleep, Goto, driver
  <1>c. \A q \in Proc : pc'[q] = IF q = p THEN l ELSE pc[q]
    BY <1>a, <1>b, Zenon DEF TypeOK
  <1>d. b \in Buf /\ k \in Block /\ buf[b].valid \in BOOLEAN
    BY <1>a, <1>b, Fields, NoneApart, Zenon DEF ProcInv
  <1>e. \A c \in Buf : /\ buf'[c].blockno = buf[c].blockno /\ buf'[c].valid = buf[c].valid
                       /\ buf'[c].dirty = buf[c].dirty /\ buf'[c].data = buf[c].data
    BY <1>a, <1>b, <1>d, Fields, Zenon DEF BufRec
  <1>f. ~Holds(p) /\ (Holds(p)' <=> buf[b].valid = TRUE)
    BY <1>b, <1>c, <1>d, <1>e, Zenon DEF Holds
  <1>g. \A j \in Block : SVal'[j] = SVal[j]
    BY <1>b, <1>e, ValueKept, Zenon
  <1>h. ASSUME NEW q \in Proc, q # p
        PROVE  /\ Holds(q)' <=> Holds(q)
               /\ Holds(q) => /\ buf[mine[q]].blockno # k
                              /\ buf'[mine'[q]].blockno = buf[mine[q]].blockno
                              /\ buf'[mine'[q]].data = buf[mine[q]].data
    <2>1. CASE mine[q] \in Buf
      <3>1. /\ Holds(q)' <=> Holds(q)
            /\ buf'[mine'[q]].blockno = buf[mine[q]].blockno /\ buf'[mine'[q]].data = buf[mine[q]].data
        BY <1>b, <1>c, <1>e, <1>h, <2>1, Zenon DEF Holds
      <3>2. Holds(q) => buf[mine[q]].lock = q /\ q # None
        BY HolderHas, NoneApart, Zenon
      <3>3. buf[mine[q]].blockno = k => mine[q] = b
        BY <1>a, <1>d, <2>1, NoneApart, Zenon DEF CacheInv
      <3> QED
        BY <3>1, <3>2, <3>3, Zenon
    <2>2. CASE mine[q] = None
      <3>1. pc[q] = "idle" /\ pc'[q] = "idle"
        BY <1>a, <1>c, <1>h, <2>2, Zenon DEF ProcInv
      <3> QED
        BY <3>1, Zenon DEF Holds
    <2> QED
      BY <1>a, <2>1, <2>2, Fields, Zenon
  <1>1. CASE buf[b].valid = TRUE
    <2>1. SVal[k] = buf[b].data
      BY <1>1, <1>d, ValueNow, Zenon
    <2>2. buf'[mine'[p]].blockno = k /\ buf'[mine'[p]].data = SVal[k] /\ Holds(p)'
      BY <1>1, <1>b, <1>d, <1>e, <1>f, <2>1, Zenon
    <2> HIDE DEF k, b
    <2>3. Store!Next
      BY <1>d, <1>f, <1>g, <1>h, <2>2, Breads, Zenon
    <2> QED
      BY <2>3, Zenon
  <1>2. CASE buf[b].valid = FALSE
    <2>1. ~Holds(p)'
      BY <1>2, <1>f, Zenon
    <2>2. UNCHANGED Store!vars
      BY <1>f, <1>g, <1>h, <2>1, Stutters, Zenon
    <2> QED
      BY <2>2, Zenon
  <1> QED
    BY <1>d, <1>1, <1>2, Zenon

\* bwrite() and log_write() store.
LEMMA StoreStores ==
  ASSUME IInv, IInv', NEW p \in Proc, NEW v \in Data, NEW l \in {"held", "iderw"}, Stores(p, v, l)
  PROVE  Store!Next
  <1> DEFINE b == mine[p]
             k == buf[b].blockno
  <1>a. TypeOK /\ ProcInv /\ CacheInv
    BY Zenon DEF IInv
  <1>b. pc[p] = "held" /\ UNCHANGED <<mine, disk>>
    BY Zenon DEF Stores
  <1>d. b \in Buf /\ buf[b].lock = p /\ k \in Block /\ buf[b].valid = TRUE
    BY <1>a, <1>b, Own, Zenon DEF Holding, ProcInv
  <1>e. /\ \A c \in Buf : /\ buf'[c].blockno = buf[c].blockno /\ buf'[c].valid = buf[c].valid
                          /\ c # b => buf'[c].dirty = buf[c].dirty /\ buf'[c].data = buf[c].data
        /\ buf'[b].dirty = TRUE /\ buf'[b].data = v
        /\ \A q \in Proc : pc'[q] = IF q = p THEN l ELSE pc[q]
    BY StoreFields, ZenonT(30)
  <1>f. Holds(p) /\ Holds(p)'
    BY <1>b, <1>d, <1>e, Zenon DEF Holds
  <1>g. SVal'[k] = v
    BY <1>d, <1>e, ValueThen, ZenonT(30)
  <1>h. ASSUME NEW q \in Proc, q # p
        PROVE  /\ Holds(q)' <=> Holds(q)
               /\ Holds(q) => /\ buf'[mine'[q]].blockno = buf[mine[q]].blockno
                              /\ buf'[mine'[q]].data = buf[mine[q]].data
    <2>1. CASE mine[q] \in Buf
      <3>1. Holds(q)' <=> Holds(q)
        BY <1>b, <1>e, <1>h, <2>1, Zenon DEF Holds
      <3>2. Holds(q) => mine[q] # b
        BY <1>d, <1>h, HolderHas, Zenon
      <3> QED
        BY <1>b, <1>e, <2>1, <3>1, <3>2, Zenon
    <2>2. CASE mine[q] = None
      <3>1. pc[q] = "idle" /\ pc'[q] = "idle"
        BY <1>a, <1>e, <1>h, <2>2, Zenon DEF ProcInv
      <3> QED
        BY <3>1, Zenon DEF Holds
    <2> QED
      BY <1>a, <2>1, <2>2, Fields, Zenon
  <1>i. ASSUME NEW j \in Block, j # k PROVE SVal'[j] = SVal[j]
    <2>0. \A c \in Buf : buf[c].dirty \in BOOLEAN /\ (buf[c].dirty = TRUE => buf[c].valid = TRUE)
      BY <1>a, Fields, Zenon DEF CacheInv
    <2>1. \A c \in Buf : buf[c].blockno = j => c # b
      BY <1>i, Zenon
    <2>2. CASE \E c \in Buf : buf[c].blockno = j /\ buf[c].dirty = TRUE
      <3>1. PICK c \in Buf : buf[c].blockno = j /\ buf[c].dirty = TRUE
        BY <2>2, Zenon
      <3>2. buf[c].valid = TRUE /\ buf'[c].valid = TRUE /\ buf'[c].blockno = j /\ buf'[c].data = buf[c].data
        BY <1>e, <2>0, <2>1, <3>1, Zenon
      <3>3. SVal[j] = buf[c].data /\ SVal'[j] = buf'[c].data
        BY <3>1, <3>2, ValueNow, ValueThen, Zenon
      <3> QED
        BY <3>2, <3>3, Zenon
    <2>3. CASE \A c \in Buf : buf[c].blockno = j => buf[c].dirty = FALSE
      <3>1. \A c \in Buf : buf'[c].blockno = j => buf'[c].dirty = FALSE
        BY <1>e, <2>1, <2>3
      <3>2. SVal[j] = disk[j] /\ SVal'[j] = disk'[j]
        BY <2>3, <3>1, ValueNow, ValueThen, Zenon
      <3> QED
        BY <1>b, <3>2, Zenon
    <2> QED
      BY <2>0, <2>2, <2>3, Zenon
  <1>j. buf'[mine'[p]].blockno = k /\ buf'[mine'[p]].data = v /\ buf[mine[p]].blockno = k
    BY <1>b, <1>d, <1>e, Zenon
  <1> HIDE DEF b, k
  <1> QED
    BY <1>d, <1>f, <1>g, <1>h, <1>i, <1>j, StoresIt, Zenon

\* releasesleep() lets the block go.
LEMMA ReleaseReleases ==
  ASSUME IInv, IInv', NEW p \in Proc, releasesleep(p)
  PROVE  Store!Next
  <1> DEFINE b == mine[p]
  <1>a. TypeOK /\ ProcInv /\ CacheInv
    BY Zenon DEF IInv
  <1>b. /\ pc[p] = "held" /\ pc' = [Woken(b) EXCEPT ![p] = "brelse"]
        /\ buf' = [buf EXCEPT ![b].lock = None] /\ UNCHANGED <<mine, disk>>
    BY Zenon DEF releasesleep, driver
  <1>c. \A q \in Proc : pc'[q] = IF q = p THEN "brelse"
                                 ELSE IF pc[q] = "asleep" /\ mine[q] = b THEN "want" ELSE pc[q]
    BY <1>b, Zenon DEF Woken
  <1>d. b \in Buf /\ buf[b].valid = TRUE /\ buf[b].blockno \in Block
    BY <1>a, <1>b, Own, Zenon DEF Holding, ProcInv
  <1>e. \A c \in Buf : /\ buf'[c].blockno = buf[c].blockno /\ buf'[c].valid = buf[c].valid
                       /\ buf'[c].dirty = buf[c].dirty /\ buf'[c].data = buf[c].data
    BY <1>a, <1>b, <1>d, Fields DEF BufRec
  <1>f. Holds(p) /\ ~Holds(p)'
    BY <1>b, <1>c, <1>d DEF Holds
  <1>g. \A j \in Block : SVal'[j] = SVal[j]
    BY <1>b, <1>e, ValueKept, Zenon
  <1>h. ASSUME NEW q \in Proc, q # p
        PROVE  /\ Holds(q)' <=> Holds(q)
               /\ Holds(q) => /\ buf'[mine'[q]].blockno = buf[mine[q]].blockno
                              /\ buf'[mine'[q]].data = buf[mine[q]].data
    <2>0. pc'[q] \in {"held", "done", "io", "iderw"} <=> pc[q] \in {"held", "done", "io", "iderw"}
      BY <1>c, <1>h, Zenon
    <2>1. CASE mine[q] \in Buf
      BY <1>b, <1>e, <2>0, <2>1, Zenon DEF Holds
    <2>2. CASE mine[q] = None
      <3>1. pc[q] = "idle"
        BY <1>a, <2>2, Zenon DEF ProcInv
      <3> QED
        BY <2>0, <3>1, Zenon DEF Holds
    <2> QED
      BY <1>a, <2>1, <2>2, Fields, Zenon
  <1> QED
    BY <1>d, <1>f, <1>g, <1>h, Releases, Zenon

\* bget() and brelse() move buffers that nobody holds.
LEMMA CountingQuiet ==
  ASSUME IInv, IInv', NEW p \in Proc, NEW b \in Buf, disk' = disk,
         pc[p] \notin Holding, pc'[p] \notin Holding,
         \A q \in Proc : q # p => pc'[q] = pc[q] /\ mine'[q] = mine[q],
         \A c \in Buf : /\ buf'[c].dirty = buf[c].dirty
                        /\ \/ c = b /\ buf[b].refcnt = 0 /\ buf[b].dirty = FALSE
                           \/ /\ buf'[c].blockno = buf[c].blockno /\ buf'[c].valid = buf[c].valid
                              /\ buf'[c].data = buf[c].data
  PROVE  UNCHANGED Store!vars
  <1>1. \A k \in Block : SVal'[k] = SVal[k]
    BY ValueKept, Zenon
  <1>2. ASSUME NEW q \in Proc
        PROVE  /\ Holds(q)' <=> Holds(q)
               /\ Holds(q) => /\ buf'[mine'[q]].blockno = buf[mine[q]].blockno
                              /\ buf'[mine'[q]].data = buf[mine[q]].data
    <2>1. CASE q = p
      BY <2>1, Zenon DEF Holds, Holding
    <2>2. CASE q # p /\ mine[q] \in Buf
      <3>1. mine[q] = b => buf[b].refcnt # 0
        BY UnusedFree, Zenon
      <3> QED
        BY <2>2, <3>1 DEF Holds
    <2>3. CASE q # p /\ mine[q] = None
      <3>1. pc[q] = "idle" /\ pc'[q] = "idle"
        BY <2>3, Zenon DEF IInv, ProcInv
      <3> QED
        BY <3>1, Zenon DEF Holds
    <2> QED
      BY <2>1, <2>2, <2>3, Fields, Zenon DEF IInv
  <1> QED
    BY <1>1, <1>2, Stutters, Zenon

\* So do bget() ...
LEMMA BgetQuiet ==
  ASSUME IInv, IInv', NEW p \in Proc, NEW k \in Block, bget(p, k)
  PROVE  UNCHANGED Store!vars
  <1>a. TypeOK /\ buf \in [Buf -> BufRec]
    BY Fields, Zenon DEF IInv
  <1>b. pc[p] = "idle" /\ disk' = disk
    BY Zenon DEF bget, driver
  <1>1. ASSUME NEW b \in Cached(k), buf' = Hit(b), mine' = [mine EXCEPT ![p] = b], Goto(p, "want")
        PROVE  UNCHANGED Store!vars
    <2>1. b \in Buf
      BY Zenon DEF Cached
    <2>2. \A c \in Buf : /\ buf'[c].blockno = buf[c].blockno /\ buf'[c].valid = buf[c].valid
                         /\ buf'[c].dirty = buf[c].dirty /\ buf'[c].data = buf[c].data
      BY <1>a, <1>1, <2>1, Zenon DEF Hit, BufRec
    <2>3. /\ \A q \in Proc : q # p => pc'[q] = pc[q] /\ mine'[q] = mine[q]
          /\ pc[p] \notin Holding /\ pc'[p] \notin Holding
      BY <1>a, <1>b, <1>1, Zenon DEF Goto, TypeOK, Holding
    <2>4. \A c \in Buf : /\ buf'[c].dirty = buf[c].dirty
                         /\ \/ c = b /\ buf[b].refcnt = 0 /\ buf[b].dirty = FALSE
                            \/ /\ buf'[c].blockno = buf[c].blockno /\ buf'[c].valid = buf[c].valid
                               /\ buf'[c].data = buf[c].data
      BY <2>2, Zenon
    <2> QED
      BY <1>b, <2>1, <2>3, <2>4, CountingQuiet, Zenon
  <1>2. ASSUME NEW i \in Unused,
               buf' = [buf EXCEPT ![lru[i]] = [Empty EXCEPT !.blockno = k, !.refcnt = 1]],
               mine' = [mine EXCEPT ![p] = lru[i]], Goto(p, "want")
        PROVE  UNCHANGED Store!vars
    <2> DEFINE b == lru[i]
    <2>1. b \in Buf /\ buf[b].refcnt = 0 /\ ~buf[b].dirty
      BY <1>a, Zenon DEF Unused, TypeOK
    <2>2. buf[b].dirty = FALSE
      BY <1>a, <2>1, Fields, Zenon
    <2> HIDE DEF b
    <2>3. (\A c \in Buf : c # b => buf'[c] = buf[c]) /\ buf'[b].dirty = FALSE
      BY <1>a, <1>2, <2>1, Zenon DEF Empty, b
    <2>4. /\ \A q \in Proc : q # p => pc'[q] = pc[q] /\ mine'[q] = mine[q]
          /\ pc[p] \notin Holding /\ pc'[p] \notin Holding
      BY <1>a, <1>b, <1>2, Zenon DEF Goto, TypeOK, Holding
    <2>5. \A c \in Buf : /\ buf'[c].dirty = buf[c].dirty
                         /\ \/ c = b /\ buf[b].refcnt = 0 /\ buf[b].dirty = FALSE
                            \/ /\ buf'[c].blockno = buf[c].blockno /\ buf'[c].valid = buf[c].valid
                               /\ buf'[c].data = buf[c].data
      BY <2>1, <2>2, <2>3, Zenon
    <2> QED
      BY <1>b, <2>1, <2>4, <2>5, CountingQuiet, Zenon
  <1>3. ASSUME UNCHANGED <<pc, mine, buf>> PROVE UNCHANGED Store!vars
    BY <1>b, <1>3, ValueKept, Stutters, Zenon DEF Holds
  <1> QED
    BY <1>1, <1>2, <1>3, Zenon DEF bget

\* ... and brelse().
LEMMA BrelseQuiet ==
  ASSUME IInv, IInv', NEW p \in Proc, brelse(p)
  PROVE  UNCHANGED Store!vars
  <1>a. TypeOK /\ ProcInv /\ buf \in [Buf -> BufRec]
    BY Fields, Zenon DEF IInv
  <1>b. /\ pc[p] = "brelse" /\ pc' = [pc EXCEPT ![p] = "idle"] /\ mine' = [mine EXCEPT ![p] = None]
        /\ buf' = [buf EXCEPT ![mine[p]].refcnt = @ - 1] /\ disk' = disk
    BY Zenon DEF brelse, driver, Goto
  <1>1. mine[p] \in Buf
    BY <1>a, <1>b, Fields, Zenon DEF ProcInv
  <1>2. \A c \in Buf : /\ buf'[c].blockno = buf[c].blockno /\ buf'[c].valid = buf[c].valid
                       /\ buf'[c].dirty = buf[c].dirty /\ buf'[c].data = buf[c].data
    BY <1>a, <1>b, <1>1, Zenon DEF BufRec
  <1>3. /\ \A q \in Proc : q # p => pc'[q] = pc[q] /\ mine'[q] = mine[q]
        /\ pc[p] \notin Holding /\ pc'[p] \notin Holding
    BY <1>a, <1>b, Zenon DEF TypeOK, Holding
  <1>4. \A c \in Buf : /\ buf'[c].dirty = buf[c].dirty
                       /\ \/ c = mine[p] /\ buf[mine[p]].refcnt = 0 /\ buf[mine[p]].dirty = FALSE
                          \/ /\ buf'[c].blockno = buf[c].blockno /\ buf'[c].valid = buf[c].valid
                             /\ buf'[c].data = buf[c].data
    BY <1>2, Zenon
  <1> QED
    BY <1>b, <1>1, <1>3, <1>4, CountingQuiet, Zenon

\* The controller writes what the store has already.
LEMMA ControllerQuiet ==
  ASSUME IInv, IInv', Controller
  PROVE  UNCHANGED Store!vars
  <1> DEFINE b == idequeue[1]
  <1>a. TypeOK /\ ControllerInv /\ CacheInv
    BY Zenon DEF IInv
  <1>b. /\ UNCHANGED <<pc, mine, buf>> /\ ctl # None
        /\ disk' = (IF ctl.write THEN [disk EXCEPT ![ctl.block] = ctl.data] ELSE disk)
    BY Zenon DEF Controller
  <1>c. idequeue # <<>>
    BY <1>a, <1>b, Zenon DEF ControllerInv
  <1>d. b \in Buf /\ buf[b].blockno \in Block /\ ctl.write = buf[b].dirty /\ ctl.block = buf[b].blockno
    BY <1>c, HeadOwned
  <1>e. buf[b].dirty \in BOOLEAN /\ disk \in [Block -> Data]
    BY <1>a, <1>d, Fields, Zenon DEF TypeOK
  <1> HIDE DEF b
  <1>1. ASSUME NEW k \in Block PROVE SVal'[k] = SVal[k]
    <2>0. \A c \in Buf : buf[c].dirty \in BOOLEAN /\ (buf[c].dirty = TRUE => buf[c].valid = TRUE)
      BY <1>a, Fields, Zenon DEF CacheInv
    <2>1. CASE \E c \in Buf : buf[c].blockno = k /\ buf[c].dirty = TRUE
      <3>1. PICK c \in Buf : buf[c].blockno = k /\ buf[c].dirty = TRUE
        BY <2>1, Zenon
      <3>2. SVal[k] = buf[c].data
        BY <2>0, <3>1, ValueNow, Zenon
      <3>3. buf'[c].blockno = k /\ buf'[c].valid = TRUE
        BY <1>b, <2>0, <3>1, Zenon
      <3>4. SVal'[k] = buf'[c].data
        BY <3>3, ValueThen, Zenon
      <3> QED
        BY <1>b, <3>2, <3>4, Zenon
    <2>2. CASE \A c \in Buf : buf[c].blockno = k => buf[c].dirty = FALSE
      <3>1. \A c \in Buf : buf'[c].blockno = k => buf'[c].dirty = FALSE
        BY <1>b, <2>2, Zenon
      <3>2. SVal[k] = disk[k] /\ SVal'[k] = disk'[k]
        BY <2>2, <3>1, ValueNow, ValueThen, Zenon
      <3>3. disk'[k] = disk[k]
        BY <1>b, <1>d, <1>e, <2>2, Zenon
      <3> QED
        BY <3>2, <3>3, Zenon
    <2> QED
      BY <2>0, <2>1, <2>2, Zenon
  <1>2. \A q \in Proc : Holds(q)' <=> Holds(q)
    BY <1>b, Zenon DEF Holds
  <1> QED
    BY <1>b, <1>1, <1>2, Stutters, Zenon

\* The end of a read gives the block to the process that waits for it; the end of a write
\* changes nothing.
LEMMA IntrReads ==
  ASSUME IInv, IInv', ideintr
  PROVE  Store!Next \/ UNCHANGED Store!vars
  <1> DEFINE b == idequeue[1]
             k == buf[b].blockno
  <1>a. TypeOK /\ ProcInv /\ CacheInv
    BY Zenon DEF IInv
  <1>b. /\ pc' = [q \in Proc |-> IF pc[q] = "io" /\ mine[q] = b THEN "done" ELSE pc[q]]
        /\ UNCHANGED <<mine, disk>>
    BY Zenon DEF ideintr
  <1>c. \A q \in Proc : pc'[q] \in {"held", "done", "io", "iderw"} <=> pc[q] \in {"held", "done", "io", "iderw"}
    BY <1>b, Zenon
  <1>d. /\ idequeue # <<>> /\ b \in Buf
        /\ \A c \in Buf : c # b => buf'[c] = buf[c]
        /\ buf'[b].valid = TRUE /\ buf'[b].dirty = FALSE /\ buf'[b].data = disk[buf[b].blockno]
        /\ (buf[b].valid = TRUE => buf'[b].data = buf[b].data)
        /\ buf'[b].blockno = buf[b].blockno
    BY IntrFields, Zenon
  <1>e. PICK p \in Proc : p = buf[b].lock /\ mine[p] = b /\ pc[p] = "io" /\ k \in Block
    BY <1>d, HeadOwned, Zenon
  <1>f. \A c \in Buf : /\ buf[c].dirty \in BOOLEAN /\ buf[c].valid \in BOOLEAN
                       /\ buf[c].dirty = TRUE => buf[c].valid = TRUE
    BY <1>a, Fields, Zenon DEF CacheInv
  <1>g. ASSUME NEW j \in Block PROVE SVal'[j] = SVal[j]
    <2>1. CASE \E c \in Buf : c # b /\ buf[c].blockno = j /\ buf[c].dirty = TRUE
      <3>1. PICK c \in Buf : c # b /\ buf[c].blockno = j /\ buf[c].dirty = TRUE
        BY <2>1, Zenon
      <3>2. SVal[j] = buf[c].data
        BY <1>f, <3>1, ValueNow, Zenon
      <3>3. buf'[c] = buf[c] /\ buf'[c].blockno = j /\ buf'[c].valid = TRUE
        BY <1>d, <1>f, <3>1, Zenon
      <3>4. SVal'[j] = buf'[c].data
        BY <3>3, ValueThen, Zenon
      <3> QED
        BY <3>2, <3>3, <3>4, Zenon
    <2>2. CASE \A c \in Buf : c # b /\ buf[c].blockno = j => buf[c].dirty = FALSE
      <3>1. \A c \in Buf : buf'[c].blockno = j => buf'[c].dirty = FALSE
        BY <1>d, <2>2, Zenon
      <3>2. SVal'[j] = disk'[j]
        BY <3>1, ValueThen, ZenonT(30)
      <3>3. CASE k = j /\ buf[b].dirty = TRUE
        <4>1. SVal[j] = buf[b].data
          BY <1>d, <1>f, <3>3, ValueNow, Zenon
        <4> QED
          BY <1>b, <1>d, <1>f, <3>2, <3>3, <4>1, Zenon
      <3>4. CASE k # j \/ buf[b].dirty = FALSE
        <4>1. \A c \in Buf : buf[c].blockno = j => buf[c].dirty = FALSE
          BY <2>2, <3>4, Zenon
        <4>2. SVal[j] = disk[j]
          BY <4>1, ValueNow, ZenonT(30)
        <4> QED
          BY <1>b, <3>2, <4>2, Zenon
      <3> QED
        BY <1>d, <1>f, <3>3, <3>4, Zenon
    <2> QED
      BY <1>f, <2>1, <2>2, Zenon
  <1>h. ASSUME NEW q \in Proc, q # p
        PROVE  /\ Holds(q)' <=> Holds(q)
               /\ Holds(q) => /\ mine[q] \in Buf /\ mine[q] # b
                              /\ buf'[mine'[q]].blockno = buf[mine[q]].blockno
                              /\ buf'[mine'[q]].data = buf[mine[q]].data
    <2>1. CASE mine[q] \in Buf /\ mine[q] # b
      BY <1>b, <1>c, <1>d, <2>1, Zenon DEF Holds
    <2>2. CASE mine[q] = b
      <3>1. pc[q] \notin Holding
        BY <1>a, <1>e, <1>h, <2>2, Zenon DEF ProcInv
      <3> QED
        BY <1>c, <3>1, Zenon DEF Holds, Holding
    <2>3. CASE mine[q] = None
      <3>1. pc[q] = "idle"
        BY <1>a, <2>3, Zenon DEF ProcInv
      <3> QED
        BY <1>c, <3>1, Zenon DEF Holds
    <2> QED
      BY <1>a, <2>1, <2>2, <2>3, Fields, Zenon
  <1>i. Holds(p)' /\ (Holds(p) <=> buf[b].valid = TRUE)
    BY <1>b, <1>c, <1>d, <1>e, <1>f, Zenon DEF Holds
  <1>j. buf'[mine'[p]].blockno = k /\ buf'[mine'[p]].data = buf'[b].data /\ buf[mine[p]].blockno = k
    BY <1>b, <1>d, <1>e, Zenon
  <1>1. CASE buf[b].valid = TRUE
    <2>1. buf'[mine'[p]].data = buf[mine[p]].data
      BY <1>1, <1>d, <1>e, <1>j, Zenon
    <2> HIDE DEF b, k
    <2>2. UNCHANGED Store!vars
      BY <1>1, <1>g, <1>h, <1>i, <1>j, <2>1, Stutters, Zenon
    <2> QED
      BY <2>2, Zenon
  <1>2. CASE buf[b].valid = FALSE
    <2>1. \A c \in Buf : c # b => buf[c].blockno # k
      BY <1>a, <1>d, <1>e, NoneApart, Zenon DEF CacheInv
    <2>2. \A c \in Buf : buf[c].blockno = k => buf[c].dirty = FALSE
      BY <1>2, <1>d, <1>f, <2>1, Zenon
    <2>3. SVal[k] = disk[k]
      BY <1>e, <2>2, ValueNow, Zenon
    <2>4. ~Holds(p) /\ buf'[mine'[p]].data = SVal[k]
      BY <1>2, <1>d, <1>i, <1>j, <2>3, Zenon
    <2> HIDE DEF b, k
    <2>5. \A q \in Proc : q # p => /\ Holds(q)' <=> Holds(q)
                                   /\ Holds(q) => /\ buf[mine[q]].blockno # k
                                                  /\ buf'[mine'[q]].blockno = buf[mine[q]].blockno
                                                  /\ buf'[mine'[q]].data = buf[mine[q]].data
      BY <1>h, <2>1, Zenon
    <2>6. Store!Next
      BY <1>e, <1>g, <1>i, <1>j, <2>4, <2>5, Breads
    <2> QED
      BY <2>6, Zenon
  <1> QED
    BY <1>d, <1>f, <1>1, <1>2, Zenon

-----------------------------------------------------------------------------
(* Theorems *)

\* binit() gives the initial store.
LEMMA InitStore == Init => Store!Init
  <1> SUFFICES ASSUME Init PROVE Store!Init
    BY Zenon
  <1>1. /\ \A b \in Buf : ~buf[b].valid
        /\ \A p \in Proc : ~Holds(p)
    BY Zenon DEF Init, Empty, Holds
  <1>2. SVal = [k \in Block |-> Zero]
    <2>1. \A k \in Block : SVal[k] = Zero
      BY <1>1, Zenon DEF SVal, Cached, Init
    <2> QED
      BY <2>1, Zenon DEF SVal
  <1>3. SHolding = [p \in Proc |-> None] /\ SSees = [p \in Proc |-> None]
    BY <1>1, Zenon DEF SHolding, SSees
  <1> QED
    BY <1>2, <1>3, Zenon DEF Store!Init, SVal, SHolding, SSees

\* Every step is one of the store, or none.
LEMMA NextStore ==
  ASSUME IInv, IInv', [Next]_vars
  PROVE  [Store!Next]_(Store!vars)
  <1>1. CASE UNCHANGED vars
    <2>1. UNCHANGED <<pc, mine, buf, disk>>
      BY <1>1, Zenon DEF vars
    <2> QED
      BY <2>1, ValueKept, Stutters, Zenon DEF Holds
  <1>2. ASSUME NEW p \in Proc, Step(p) PROVE Store!Next \/ UNCHANGED Store!vars
    <2>1. CASE acquiresleep(p)
      BY <2>1, QuietMoves, TakeReads, Zenon
    <2>2. CASE iderw(p) \/ Completed(p)
      BY <2>2, QuietMoves, Zenon
    <2> QED
      BY <1>2, <2>1, <2>2, ReleaseReleases, BrelseQuiet, Zenon DEF Step
  <1>3. ASSUME NEW p \in Proc, NEW v \in Data, bwrite(p, v) \/ log_write(p, v) PROVE Store!Next
    <2>1. CASE bwrite(p, v)
      <3>1. Stores(p, v, "iderw")
        BY <2>1, Zenon DEF bwrite, Stores, Goto, driver
      <3> QED
        BY <3>1, StoreStores, Zenon
    <2>2. CASE log_write(p, v)
      <3>1. pc' = [pc EXCEPT ![p] = "held"]
        BY <2>2, Zenon DEF log_write, IInv, TypeOK
      <3>2. Stores(p, v, "held")
        BY <2>2, <3>1, Zenon DEF log_write, Stores, driver
      <3> QED
        BY <3>2, StoreStores, Zenon
    <2> QED
      BY <1>3, <2>1, <2>2, Zenon
  <1> QED
    BY <1>1, <1>2, <1>3, BgetQuiet, ControllerQuiet, IntrReads, Zenon DEF Next

\* From bread() to brelse() a process has the block to itself and sees what was stored in
\* it last: every run of the buffer cache and the driver is one of BlockStore.
THEOREM CacheIsBlockStore == Spec => IsBlockStore
  <1>1. IInv /\ IInv' /\ [Next]_vars => [Store!Next]_(Store!vars)
    BY NextStore, Zenon
  <1> QED
    BY <1>1, InitStore, CacheInvariance, PTL DEF Spec, IsBlockStore, Store!Spec


====
