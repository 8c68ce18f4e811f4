----------------------------- MODULE FilesPipes -----------------------------
(***************************************************************************)
(* Reading, writing and closing a pipe keep the invariant of FilesTable,   *)
(* and what they do to a pipe is what ByteStream allows.                   *)
(***************************************************************************)
EXTENDS FilesTable

-----------------------------------------------------------------------------
(* The counters and the ring of a pipe *)

\* One turn of the counters, forwards or backwards.
LEMMA Turn ==
  ASSUME NEW x \in (-CounterMod)..(2 * CounterMod - 1)
  PROVE  x % CounterMod = IF x < 0 THEN x + CounterMod ELSE IF x < CounterMod THEN x ELSE x - CounterMod
  <1> DEFINE C == CounterMod
  <1>1. C \in Nat /\ C > 0
    BY FilesAssumption
  <1> HIDE DEF C
  <1>2. x % C \in 0..(C - 1)
    BY <1>1 DEF C
  <1>3. x = C * (x \div C) + (x % C) /\ x \div C \in Int
    BY <1>1 DEF C
  <1>4. CASE x \div C = 0
    BY <1>1, <1>2, <1>3, <1>4 DEF C
  <1>5. CASE x \div C = 1
    BY <1>1, <1>2, <1>3, <1>5 DEF C
  <1>6. CASE x \div C = -1
    BY <1>1, <1>2, <1>3, <1>6 DEF C
  <1>7. x \div C \in {-1, 0, 1}
    <2>1. x >= -C /\ x < 2 * C /\ x \in Int
      BY <1>1 DEF C
    <2> QED
      BY <1>1, <1>2, <1>3, <2>1
  <1> QED
    BY <1>4, <1>5, <1>6, <1>7, Zenon

LEMMA HeldMoves ==
  ASSUME NEW r \in 0..(CounterMod - 1), NEW w \in 0..(CounterMod - 1), NEW k \in Nat
  PROVE  /\ k <= (w - r) % CounterMod =>
              (w - ((r + k) % CounterMod)) % CounterMod = ((w - r) % CounterMod) - k
         /\ ((w - r) % CounterMod) + k < CounterMod =>
              (((w + k) % CounterMod) - r) % CounterMod = ((w - r) % CounterMod) + k
         /\ (w - r) % CounterMod \in 0..(CounterMod - 1)
         /\ (r + k) % CounterMod \in 0..(CounterMod - 1)
  <1> DEFINE H == (w - r) % CounterMod
             u == (r + k) % CounterMod
             v == (w + k) % CounterMod
  <1>1. CounterMod \in Nat /\ CounterMod > 0
    BY FilesAssumption
  <1>2. H = IF w - r < 0 THEN w - r + CounterMod ELSE w - r
    BY <1>1, Turn
  <1>3. H \in 0..(CounterMod - 1) /\ u \in 0..(CounterMod - 1)
    BY <1>1
  <1>4. ASSUME k <= H PROVE (w - u) % CounterMod = H - k
    <2>1. k < CounterMod
      BY <1>1, <1>3, <1>4
    <2>2. u = IF r + k < CounterMod THEN r + k ELSE r + k - CounterMod
      BY <1>1, <2>1, Turn
    <2>3. (w - u) % CounterMod = IF w - u < 0 THEN w - u + CounterMod ELSE w - u
      BY <1>1, <1>3, Turn
    <2> HIDE DEF H, u
    <2> QED
      BY <1>1, <1>2, <1>4, <2>2, <2>3
  <1>5. ASSUME H + k < CounterMod PROVE (v - r) % CounterMod = H + k
    <2>1. k < CounterMod
      BY <1>1, <1>3, <1>5
    <2>2. v = IF w + k < CounterMod THEN w + k ELSE w + k - CounterMod
      BY <1>1, <2>1, Turn
    <2>3. v \in 0..(CounterMod - 1)
      BY <1>1
    <2>4. (v - r) % CounterMod = IF v - r < 0 THEN v - r + CounterMod ELSE v - r
      BY <1>1, <2>3, Turn
    <2> HIDE DEF H, v
    <2> QED
      BY <1>1, <1>2, <1>5, <2>2, <2>4
  <1> QED
    BY <1>3, <1>4, <1>5, Zenon

\* What Taken and Put leave alone.
AsBefore(e, d) ==
  /\ e.used = d.used /\ e.readopen = d.readopen /\ e.writeopen = d.writeopen
  /\ e.lock = d.lock /\ e.left = d.left

LEMMA TakenPipe ==
  ASSUME Types, NEW x \in Page, NEW k \in Nat, k <= Held(x)
  PROVE  /\ Taken(x, k) \in PipeType /\ AsBefore(Taken(x, k), pipe[x])
         /\ (Taken(x, k).nwrite - Taken(x, k).nread) % CounterMod = Held(x) - k
  <1> DEFINE d == [i \in DOMAIN pipe[x].data |->
                     IF (i - pipe[x].nread) % PIPESIZE < k THEN None ELSE pipe[x].data[i]]
             n == (pipe[x].nread + k) % CounterMod
  <1>1. /\ pipe[x] \in PipeType /\ pipe[x].nread \in 0..(CounterMod - 1)
        /\ pipe[x].nwrite \in 0..(CounterMod - 1)
        /\ pipe[x].data \in [0..(PIPESIZE - 1) -> Byte \cup {None}]
    BY Zenon DEF Types, PipeType
  <1>2. d \in [0..(PIPESIZE - 1) -> Byte \cup {None}]
    BY <1>1, Zenon
  <1>3. n \in 0..(CounterMod - 1) /\ (pipe[x].nwrite - n) % CounterMod = Held(x) - k
    <2>1. k <= (pipe[x].nwrite - pipe[x].nread) % CounterMod
      BY Zenon DEF Held
    <2> QED
      BY <1>1, <2>1, HeldMoves, Zenon DEF Held
  <1>4. Taken(x, k) = [pipe[x] EXCEPT !.nread = n, !.data = d]
    BY Zenon DEF Taken
  <1> HIDE DEF d, n
  <1>5. /\ Taken(x, k) \in PipeType /\ AsBefore(Taken(x, k), pipe[x])
        /\ Taken(x, k).nwrite = pipe[x].nwrite /\ Taken(x, k).nread = n
    BY <1>1, <1>2, <1>3, <1>4, Zenon DEF PipeType, AsBefore
  <1> QED
    BY <1>3, <1>5, Zenon

LEMMA PutPipe ==
  ASSUME Types, NEW x \in Page, NEW s \in Seq(Byte), Held(x) + Len(s) <= PIPESIZE
  PROVE  /\ Put(x, s) \in PipeType /\ AsBefore(Put(x, s), pipe[x])
         /\ (Put(x, s).nwrite - Put(x, s).nread) % CounterMod = Held(x) + Len(s)
  <1> DEFINE d == [i \in DOMAIN pipe[x].data |->
                     IF (i - pipe[x].nwrite) % PIPESIZE < Len(s)
                     THEN s[((i - pipe[x].nwrite) % PIPESIZE) + 1] ELSE pipe[x].data[i]]
             n == (pipe[x].nwrite + Len(s)) % CounterMod
  <1>1. /\ pipe[x] \in PipeType /\ pipe[x].nread \in 0..(CounterMod - 1)
        /\ pipe[x].nwrite \in 0..(CounterMod - 1)
        /\ pipe[x].data \in [0..(PIPESIZE - 1) -> Byte \cup {None}]
    BY Zenon DEF Types, PipeType
  <1>2. d \in [0..(PIPESIZE - 1) -> Byte \cup {None}]
    <2>1. ASSUME NEW i \in 0..(PIPESIZE - 1) PROVE (i - pipe[x].nwrite) % PIPESIZE \in Nat
      BY <1>1, FilesAssumption
    <2>2. ASSUME NEW i \in 0..(PIPESIZE - 1), (i - pipe[x].nwrite) % PIPESIZE < Len(s)
          PROVE  s[((i - pipe[x].nwrite) % PIPESIZE) + 1] \in Byte
      <3> DEFINE j == (i - pipe[x].nwrite) % PIPESIZE
      <3>1. j \in Nat /\ j < Len(s)
        BY <2>1, <2>2, Zenon
      <3> HIDE DEF j
      <3>2. s[j + 1] \in Byte
        BY <3>1
      <3> QED
        BY <3>2, Zenon DEF j
    <2> QED
      BY <1>1, <2>2, Zenon
  <1>3. n \in 0..(CounterMod - 1) /\ (n - pipe[x].nread) % CounterMod = Held(x) + Len(s)
    <2>0. Len(s) \in Nat
      OBVIOUS
    <2>1. Len(s) \in Nat /\ Held(x) \in 0..(CounterMod - 1)
      BY <1>1, <2>0, HeldMoves, Zenon DEF Held
    <2>2. Held(x) + Len(s) < CounterMod
      BY <2>1, FilesAssumption
    <2> QED
      BY <1>1, <2>1, <2>2, HeldMoves DEF Held
  <1>4. Put(x, s) = [pipe[x] EXCEPT !.nwrite = n, !.data = d]
    BY Zenon DEF Put
  <1> HIDE DEF d, n
  <1>5. /\ Put(x, s) \in PipeType /\ AsBefore(Put(x, s), pipe[x])
        /\ Put(x, s).nread = pipe[x].nread /\ Put(x, s).nwrite = n
    BY <1>1, <1>2, <1>3, <1>4, Zenon DEF PipeType, AsBefore
  <1> QED
    BY <1>3, <1>5, Zenon

\* The bytes that a turn of pipewrite() takes and those it leaves.
LEMMA Cut ==
  ASSUME NEW s \in Seq(Byte), NEW k \in 0..Len(s)
  PROVE  /\ SubSeq(s, 1, k) \in Seq(Byte) /\ Len(SubSeq(s, 1, k)) = k
         /\ SubSeq(s, k + 1, Len(s)) \in Seq(Byte)
         /\ SubSeq(s, k + 1, Len(s)) = <<>> <=> k = Len(s)
  <1>1. SubSeq(s, 1, k) \in Seq(Byte)
    OBVIOUS
  <1>2. Len(SubSeq(s, 1, k)) = k
    OBVIOUS
  <1>3. SubSeq(s, k + 1, Len(s)) \in Seq(Byte)
    OBVIOUS
  <1>4. Len(SubSeq(s, k + 1, Len(s))) = Len(s) - k
    OBVIOUS
  <1>5. SubSeq(s, k + 1, Len(s)) = <<>> <=> Len(SubSeq(s, k + 1, Len(s))) = 0
    BY <1>3
  <1> QED
    BY <1>1, <1>2, <1>3, <1>4, <1>5

-----------------------------------------------------------------------------
(* Reads and writes *)

\* A step that reads, writes or wakes up and leaves the files alone.
StillWorks(q) ==
  \/ pc'[q] = pc[q] /\ io'[q] = io[q]
  \/ pc[q] \in Working /\ pc'[q] = "user" /\ io'[q] = Idle
  \/ pc[q] \in Reading /\ pc'[q] \in Reading /\ io'[q].pipe = io[q].pipe
  \/ pc[q] \in Writing /\ pc'[q] \in Writing /\ io'[q].pipe = io[q].pipe

FlagsStay(x) ==
  /\ pipe'[x].readopen = pipe[x].readopen /\ pipe'[x].writeopen = pipe[x].writeopen
  /\ pipe'[x].used = pipe[x].used /\ (~pipe[x].used => pipe'[x] = pipe[x])

LEMMA WorksStill ==
  ASSUME NEW q \in Proc, Works(q), StillWorks(q), UNCHANGED <<ofile, ftable>>
  PROVE  Works(q)'
  <1>1. CASE pc'[q] = pc[q] /\ io'[q] = io[q]
    BY <1>1, Zenon DEF Works
  <1>2. CASE pc[q] \in Working /\ pc'[q] = "user" /\ io'[q] = Idle
    BY <1>2, Zenon DEF Works, Working, Reading, Writing
  <1>3. CASE pc[q] \in Reading /\ pc'[q] \in Reading /\ io'[q].pipe = io[q].pipe
    <2>1. (pc[q] \in Writing) = FALSE /\ (pc'[q] \in Writing) = FALSE /\ pc[q] \in Working
      BY <1>3 DEF Working, Reading, Writing
    <2> QED
      BY <1>3, <2>1, Zenon DEF Works, Working
  <1>4. CASE pc[q] \in Writing /\ pc'[q] \in Writing /\ io'[q].pipe = io[q].pipe
    <2>1. (pc[q] \in Writing) = TRUE /\ (pc'[q] \in Writing) = TRUE /\ pc[q] \in Working
      BY <1>4, Zenon DEF Working
    <2> QED
      BY <1>4, <2>1, Zenon DEF Works, Working
  <1> QED
    BY <1>1, <1>2, <1>3, <1>4, Zenon DEF StillWorks

LEMMA Worked ==
  ASSUME IInv, UNCHANGED <<procs, tables, todo, ff>>, Types', PipeInv',
         \A q \in Proc : StillWorks(q), \A x \in Page : FlagsStay(x)
  PROVE  IInv'
  <1>1. LocalInv'
    <2>1. \A q \in Proc : \/ pc'[q] = pc[q]
                          \/ pc[q] \in Working \cup {"user"} /\ pc'[q] \in Working \cup {"user"}
      BY Zenon DEF StillWorks, Working
    <2> QED
      BY <2>1, LocalKept, Zenon DEF IInv, LocalInv, procs, tables
  <1>2. FileInv'
    <2>1. \A q \in Proc : pc'[q] = "pipe" => pc[q] = "pipe"
      BY Zenon DEF StillWorks, Reading, Writing
    <2> QED
      BY <2>1, Zenon DEF IInv, FileInv, tables
  <1>3. EndInv'
    BY EndKept, Zenon DEF IInv, FlagsStay, tables
  <1>4. IoInv'
    BY WorksStill, Zenon DEF IInv, IoInv, tables
  <1>5. RefCounts' /\ IrefInv'
    BY Zenon DEF IInv, RefCounts, IrefInv, InodeFiles, InodeCopies, tables
  <1> QED
    BY <1>1, <1>2, <1>3, <1>4, <1>5, Zenon DEF IInv

\* Who holds no lock: nobody is between a test and sleep() on the pipe.
LEMMA NobodyLocks ==
  ASSUME LockInv, NEW x \in Page, pipe[x].lock = None
  PROVE  \A q \in Proc : pc[q] \in Locking => io[q].pipe # x
  <1>1. None \notin Proc
    BY FilesAssumption, Zenon DEF None
  <1> QED
    BY <1>1 DEF LockInv

LEMMA SleepKeeps ==
  ASSUME IInv, NEW p \in Proc, sleep(p)
  PROVE  IInv'
  <1> DEFINE x == io[p].pipe
  <1>1. pc[p] \in Locking /\ pc[p] \in Working
    BY Zenon DEF sleep, Locking, Working, Reading, Writing
  <1>2. x \in Page /\ pipe[x].used
    BY <1>1, WorkerHasPipe, Zenon
  <1>3. /\ pc'[p] = IF pc[p] = "read-sleep" THEN "read-asleep" ELSE "write-asleep"
        /\ \A q \in Proc \ {p} : pc'[q] = pc[q]
        /\ UNCHANGED <<procs, tables, todo, ff, io>>
    BY Zenon DEF sleep, Goto, IInv, Types
  <1>4. /\ pipe'[x] = [pipe[x] EXCEPT !.lock = None]
        /\ \A y \in Page \ {x} : pipe'[y] = pipe[y]
    BY <1>2, Zenon DEF sleep, IInv, Types
  <1>5. pipe[x] \in PipeType
    BY <1>2, Zenon DEF IInv, Types
  <1>6. /\ pipe'[x] \in PipeType /\ pipe'[x].lock = None /\ pipe'[x].left = pipe[x].left
        /\ pipe'[x].nread = pipe[x].nread /\ pipe'[x].nwrite = pipe[x].nwrite
        /\ pipe'[x].readopen = pipe[x].readopen /\ pipe'[x].writeopen = pipe[x].writeopen
        /\ pipe'[x].used = pipe[x].used
    BY <1>4, <1>5, Zenon DEF PipeType
  <1>7. Types'
    <2>1. pipe' \in [Page -> PipeType]
      BY <1>2, <1>4, <1>6, Zenon DEF sleep, IInv, Types
    <2>2. pc' \in [Proc -> Label]
      BY Zenon DEF sleep, Goto, IInv, Types, Label, Working, Reading, Writing
    <2> QED
      BY <1>3, <2>1, <2>2, Zenon DEF IInv, Types, procs, tables
  <1>8. \A q \in Proc : StillWorks(q)
    BY <1>1, <1>3, Zenon DEF StillWorks, Locking, Reading, Writing
  <1>9. \A y \in Page : FlagsStay(y)
    BY <1>2, <1>4, <1>6, Zenon DEF FlagsStay
  <1>10. \A y \in Page : Held(y)' = Held(y) /\ pipe'[y].left = pipe[y].left
    BY <1>4, <1>6, Zenon DEF Held
  <1> HIDE DEF x
  <1>11. LockInv'
    <2>1. LockInv /\ UNCHANGED io /\ \A y \in Page : pipe[y].lock \in Proc \cup {None}
      BY <1>3, Zenon DEF IInv, PipeInv, Types, PipeType
    <2>2. pc'[p] \notin Locking
      BY <1>3, Zenon DEF Locking
    <2>3. \A y \in Page \ {x} : pipe[y].lock # p
      BY <2>1, FilesAssumption, Zenon DEF LockInv, x, None
    <2>4. \A q \in Proc \ {p} : pc[q] \in Locking => io[q].pipe # x /\ io[q].pipe \in Page
      <3>1. pipe[x].lock = p
        BY <1>1, <2>1, Zenon DEF LockInv, x
      <3>2. \A q \in Proc : pc[q] \in Locking => pc[q] \in Working
        BY Zenon DEF Locking, Working, Reading, Writing
      <3> QED
        BY <2>1, <3>1, <3>2, WorkerHasPipe, Zenon DEF LockInv
    <2>5. ASSUME NEW y \in Page, pipe'[y].lock # None
          PROVE  pc'[pipe'[y].lock] \in Locking /\ io'[pipe'[y].lock].pipe = y
      <3>1. y # x /\ pipe'[y] = pipe[y]
        BY <1>4, <1>6, <2>5, Zenon
      <3> QED
        BY <1>3, <2>1, <2>3, <2>5, <3>1 DEF LockInv
    <2>6. ASSUME NEW q \in Proc, pc'[q] \in Locking PROVE pipe'[io'[q].pipe].lock = q
      <3>1. q # p /\ pc[q] \in Locking
        BY <1>3, <2>2, <2>6, Zenon
      <3> QED
        BY <1>4, <2>1, <2>4, <3>1 DEF LockInv
    <2> QED
      BY <2>5, <2>6, Zenon DEF LockInv
  <1>12. SleepInv'
    <2>1. ASSUME NEW q \in Proc, pc'[q] \in Sleeping PROVE io[q].pipe \in Page /\ pc[q] \in Sleeping
      <3>1. pc[q] \in Working /\ pc[q] \in Sleeping
        BY <1>1, <1>3, <2>1, Zenon DEF Sleeping, Locking, Working, Reading, Writing
      <3> QED
        BY <3>1, WorkerHasPipe, Zenon
    <2>2. SleepInv /\ UNCHANGED io /\ PIPESIZE # 0
      BY <1>3, FilesAssumption, Zenon DEF IInv, PipeInv
    <2>3. ASSUME NEW q \in Proc, pc'[q] = "read-sleep"
          PROVE  pipe'[io'[q].pipe].writeopen /\ Held(io[q].pipe)' = 0
      <3>1. pc[q] = "read-sleep" /\ io[q].pipe \in Page
        BY <1>3, <2>1, <2>3, Zenon DEF Sleeping, Locking
      <3> QED
        BY <1>9, <1>10, <2>2, <3>1, Zenon DEF SleepInv, FlagsStay
    <2>4. ASSUME NEW q \in Proc, pc'[q] = "read-asleep"
          PROVE  pipe'[io'[q].pipe].writeopen /\ (Held(io[q].pipe)' = 0 \/ pipe'[io'[q].pipe].left)
      <3>1. pc[q] \in {"read-sleep", "read-asleep"} /\ io[q].pipe \in Page
        BY <1>1, <1>3, <2>1, <2>4, Zenon DEF Sleeping, Locking
      <3> QED
        BY <1>9, <1>10, <2>2, <3>1, Zenon DEF SleepInv, FlagsStay
    <2>5. ASSUME NEW q \in Proc, pc'[q] \in {"write-sleep", "write-asleep"}
          PROVE  /\ pipe'[io'[q].pipe].readopen /\ Held(io[q].pipe)' = PIPESIZE
                 /\ \A r \in Proc : ~(pc'[r] = "read-asleep" /\ io'[r].pipe = io'[q].pipe)
      <3>1. pc[q] \in {"write-sleep", "write-asleep"} /\ io[q].pipe \in Page
        BY <1>1, <1>3, <2>1, <2>5, Zenon DEF Sleeping, Locking
      <3>2. /\ pipe[io[q].pipe].readopen /\ Held(io[q].pipe) = PIPESIZE
            /\ \A r \in Proc : ~(pc[r] = "read-asleep" /\ io[r].pipe = io[q].pipe)
        BY <2>2, <3>1, Zenon DEF SleepInv
      <3>3. pc[p] = "read-sleep" => Held(io[p].pipe) = 0
        BY <2>2, Zenon DEF SleepInv
      <3>4. \A r \in Proc : ~(pc'[r] = "read-asleep" /\ io[r].pipe = io[q].pipe)
        BY <1>1, <1>3, <2>2, <3>2, <3>3, Zenon DEF Locking
      <3> QED
        BY <1>9, <1>10, <2>2, <3>1, <3>2, <3>4, Zenon DEF FlagsStay
    <2> QED
      BY <2>2, <2>3, <2>4, <2>5, Zenon DEF SleepInv
  <1>13. PipeInv'
    BY <1>10, <1>11, <1>12, Zenon DEF IInv, PipeInv, HeldInv
  <1> QED
    BY <1>3, <1>7, <1>8, <1>9, <1>13, Worked, Zenon

LEMMA IdleIo ==
  Idle \in IoType
  BY DEF Idle, IoType

\* What a turn of piperead() or pipewrite() by p on x may do to the sleepers, and what it must.
Wakes(p) ==
  \A q \in Proc \ {p} : /\ io'[q] = io[q]
                        /\ \/ pc'[q] = pc[q]
                           \/ pc[q] = "read-asleep" /\ pc'[q] = "read"
                           \/ pc[q] = "write-asleep" /\ pc'[q] = "write"

Leaves(p, x) ==
  \/ pc'[p] = "user" /\ io'[p] = Idle /\ pipe'[x].lock = None
  \/ pc[p] = "read" /\ pc'[p] = "read-sleep" /\ io'[p].pipe = x /\ pipe'[x].lock = p
  \/ pc[p] = "write" /\ pc'[p] = "write-sleep" /\ io'[p].pipe = x /\ pipe'[x].lock = p

Reasons(p, x) ==
  /\ pc'[p] = "read-sleep" => pipe[x].writeopen /\ Held(x)' = 0
  /\ pc'[p] = "write-sleep" => /\ pipe[x].readopen /\ Held(x)' = PIPESIZE
                               /\ \A q \in Proc : ~(pc'[q] = "read-asleep" /\ io[q].pipe = x)
  /\ \A q \in Proc : pc'[q] = "read-asleep" /\ io[q].pipe = x => Held(x)' = 0 \/ pipe'[x].left
  /\ \A q \in Proc : pc'[q] = "write-asleep" /\ io[q].pipe = x => Held(x)' = PIPESIZE

LEMMA Slept ==
  ASSUME IInv, UNCHANGED <<procs, tables, todo, ff>>, Types', NEW p \in Proc, NEW x \in Page,
         pipe[x].lock = None, pc[p] \in {"read", "write"}, io[p].pipe = x,
         \A y \in Page \ {x} : pipe'[y] = pipe[y],
         Wakes(p), Leaves(p, x), Reasons(p, x), FlagsStay(x), Held(x)' \in 0..PIPESIZE
  PROVE  IInv'
  <1> USE DEF Wakes, Leaves, Reasons
  <1>1. \A q \in Proc : pc[q] \in Locking => io[q].pipe # x
    BY NobodyLocks, Zenon DEF IInv, PipeInv
  <1>2. \A y \in Page \ {x} : Held(y)' = Held(y)
    BY Zenon DEF Held
  <1>3. \A q \in Proc : StillWorks(q)
    BY Zenon DEF StillWorks, Working, Reading, Writing
  <1>4. \A y \in Page : FlagsStay(y)
    BY Zenon DEF FlagsStay
  <1>5. LockInv'
    <2>1. LockInv /\ \A y \in Page : pipe[y].lock \in Proc \cup {None}
      BY Zenon DEF IInv, PipeInv, Types, PipeType
    <2>2. ASSUME NEW y \in Page, pipe'[y].lock # None
          PROVE  pc'[pipe'[y].lock] \in Locking /\ io'[pipe'[y].lock].pipe = y
      <3>1. CASE y = x
        BY <2>2, <3>1, Zenon DEF Locking
      <3>2. CASE y # x
        <4>1. pipe'[y].lock = pipe[y].lock /\ pipe[y].lock \in Proc
          BY <2>1, <2>2, <3>2
        <4>2. pc[pipe[y].lock] \in Locking /\ io[pipe[y].lock].pipe = y
          BY <2>1, <2>2, <4>1, Zenon DEF LockInv
        <4>3. pipe[y].lock # p
          BY <4>2, Zenon DEF Locking
        <4> QED
          BY <4>1, <4>2, <4>3 DEF Locking
      <3> QED
        BY <3>1, <3>2, Zenon
    <2>3. ASSUME NEW q \in Proc, pc'[q] \in Locking PROVE pipe'[io'[q].pipe].lock = q
      <3>1. CASE q = p
        BY <2>3, <3>1, Zenon DEF Locking
      <3>2. CASE q # p
        <4>1. pc[q] \in Locking /\ io'[q] = io[q]
          BY <2>3, <3>2, Zenon DEF Locking
        <4>2. io[q].pipe \in Page \ {x}
          BY <1>1, <4>1, WorkerHasPipe, Zenon DEF Locking, Working, Reading, Writing
        <4> QED
          BY <2>1, <4>1, <4>2 DEF LockInv
      <3> QED
        BY <3>1, <3>2, Zenon
    <2> QED
      BY <2>2, <2>3, Zenon DEF LockInv
  <1>6. HeldInv'
    BY <1>2 DEF IInv, PipeInv, HeldInv
  <1>7. SleepInv'
    <2>1. SleepInv
      BY Zenon DEF IInv, PipeInv
    <2>2. ASSUME NEW q \in Proc \ {p}, pc'[q] \in Sleeping
          PROVE  pc'[q] = pc[q] /\ io'[q] = io[q] /\ io[q].pipe \in Page
      <3>1. pc'[q] = pc[q] /\ io'[q] = io[q] /\ pc[q] \in Working
        BY <2>2, Zenon DEF Sleeping, Locking, Working, Reading, Writing
      <3> QED
        BY <3>1, WorkerHasPipe, Zenon
    <2>3. ASSUME NEW q \in Proc, pc'[q] = "read-sleep"
          PROVE  pipe'[io'[q].pipe].writeopen /\ Held(io[q].pipe)' = 0
      <3>1. CASE q = p
        BY <2>3, <3>1, Zenon DEF FlagsStay
      <3>2. CASE q # p
        <4>1. pc[q] = "read-sleep" /\ io'[q] = io[q] /\ io[q].pipe \in Page \ {x}
          BY <1>1, <2>2, <2>3, <3>2 DEF Sleeping, Locking
        <4> QED
          BY <1>2, <2>1, <4>1 DEF SleepInv
      <3> QED
        BY <3>1, <3>2, Zenon
    <2>4. ASSUME NEW q \in Proc, pc'[q] = "read-asleep"
          PROVE  pipe'[io'[q].pipe].writeopen /\ (Held(io[q].pipe)' = 0 \/ pipe'[io'[q].pipe].left)
      <3>1. q # p
        BY <2>4, Zenon
      <3>2. pc[q] = "read-asleep" /\ io'[q] = io[q] /\ io[q].pipe \in Page
        BY <2>2, <2>4, <3>1, Zenon DEF Sleeping
      <3>3. pipe[io[q].pipe].writeopen /\ (Held(io[q].pipe) = 0 \/ pipe[io[q].pipe].left)
        BY <2>1, <3>2, Zenon DEF SleepInv
      <3>4. CASE io[q].pipe = x
        BY <2>4, <3>2, <3>3, <3>4 DEF FlagsStay
      <3>5. CASE io[q].pipe # x
        BY <1>2, <3>2, <3>3, <3>5
      <3> QED
        BY <3>4, <3>5, Zenon
    <2>5. ASSUME NEW q \in Proc, pc'[q] \in {"write-sleep", "write-asleep"}
          PROVE  /\ pipe'[io'[q].pipe].readopen /\ Held(io[q].pipe)' = PIPESIZE
                 /\ \A r \in Proc : ~(pc'[r] = "read-asleep" /\ io'[r].pipe = io'[q].pipe)
      <3>1. \A r \in Proc : pc'[r] = "read-asleep" => r # p /\ pc[r] = "read-asleep" /\ io'[r] = io[r]
        BY <2>2, Zenon DEF Sleeping
      <3>2. CASE q = p
        BY <2>5, <3>1, <3>2 DEF FlagsStay
      <3>3. CASE q # p
        <4>1. pc'[q] = pc[q] /\ io'[q] = io[q] /\ io[q].pipe \in Page
          BY <2>2, <2>5, <3>3, Zenon DEF Sleeping, Locking
        <4>2. /\ pipe[io[q].pipe].readopen /\ Held(io[q].pipe) = PIPESIZE
              /\ \A r \in Proc : ~(pc[r] = "read-asleep" /\ io[r].pipe = io[q].pipe)
          BY <2>1, <2>5, <4>1, Zenon DEF SleepInv
        <4>3. \A r \in Proc : ~(pc'[r] = "read-asleep" /\ io'[r].pipe = io'[q].pipe)
          BY <3>1, <4>1, <4>2
        <4>4. CASE io[q].pipe = x
          <5>1. pc'[q] = "write-asleep"
            BY <1>1, <2>5, <4>1, <4>4, Zenon DEF Locking
          <5> QED
            BY <4>1, <4>2, <4>3, <4>4, <5>1 DEF FlagsStay
        <4>5. CASE io[q].pipe # x
          BY <1>2, <4>1, <4>2, <4>3, <4>5
        <4> QED
          BY <4>4, <4>5, Zenon
      <3> QED
        BY <3>2, <3>3, Zenon
    <2> QED
      BY <2>3, <2>4, <2>5, Zenon DEF SleepInv
  <1> QED
    BY <1>3, <1>4, <1>5, <1>6, <1>7, Worked, Zenon DEF PipeInv

LEMMA PipereadKeeps ==
  ASSUME IInv, NEW p \in Proc, NEW x, x = io[p].pipe, piperead(p)
  PROVE  IInv'
  <1> DEFINE k == Least(io[p].n, Held(x))
  <1>1. pc[p] = "read" /\ pc[p] \in Working /\ pipe[x].lock = None
    BY Zenon DEF piperead, Working, Reading
  <1>2. x \in Page /\ pipe[x].used
    BY <1>1, WorkerHasPipe, Zenon
  <1>3. UNCHANGED <<procs, tables, todo, ff>>
    BY Zenon DEF piperead
  <1>4. /\ pipe[x] \in PipeType /\ io[p] \in IoType /\ Held(x) \in 0..PIPESIZE
        /\ pc \in [Proc -> Label] /\ pipe \in [Page -> PipeType] /\ io \in [Proc -> IoType]
    BY <1>2, Zenon DEF IInv, Types, PipeInv, HeldInv
  <1>5. /\ \A q \in Proc : pc[q] = "read-asleep" /\ io[q].pipe = x => Held(x) = 0 \/ pipe[x].left
        /\ \A q \in Proc : pc[q] = "write-asleep" /\ io[q].pipe = x => Held(x) = PIPESIZE
    BY Zenon DEF IInv, PipeInv, SleepInv
  <1>6. CASE /\ ReadWaits(x) /\ pipe' = [pipe EXCEPT ![x].lock = p] /\ Goto(p, "read-sleep")
             /\ UNCHANGED io
    <2>1. /\ pc'[p] = "read-sleep" /\ \A q \in Proc \ {p} : pc'[q] = pc[q] /\ io'[q] = io[q]
          /\ pc' \in [Proc -> Label] /\ io'[p].pipe = x
      BY <1>4, <1>6, Zenon DEF Goto, Label, Working, Reading
    <2>2. pipe'[x] = [pipe[x] EXCEPT !.lock = p] /\ \A y \in Page \ {x} : pipe'[y] = pipe[y]
      BY <1>2, <1>4, <1>6, Zenon
    <2>3. /\ pipe'[x] \in PipeType /\ pipe'[x].lock = p /\ pipe'[x].left = pipe[x].left
          /\ pipe'[x].nread = pipe[x].nread /\ pipe'[x].nwrite = pipe[x].nwrite
          /\ FlagsStay(x)
      <3> DEFINE e == [pipe[x] EXCEPT !.lock = p]
      <3>1. /\ e \in PipeType /\ e.lock = p /\ e.left = pipe[x].left
            /\ e.nread = pipe[x].nread /\ e.nwrite = pipe[x].nwrite /\ e.used = pipe[x].used
            /\ e.readopen = pipe[x].readopen /\ e.writeopen = pipe[x].writeopen
        BY <1>4, Zenon DEF PipeType
      <3> HIDE DEF e
      <3>2. pipe'[x] = e
        BY <2>2, Zenon DEF e
      <3> QED
        BY <1>2, <3>1, <3>2, Zenon DEF FlagsStay
    <2>4. Types'
      <3>1. pipe' \in [Page -> PipeType]
        BY <1>2, <1>4, <1>6, <2>2, <2>3, Zenon
      <3> QED
        BY <1>3, <1>6, <2>1, <3>1, Zenon DEF IInv, Types, procs, tables
    <2>5. Held(x)' = Held(x) /\ Held(x) = 0 /\ pipe[x].writeopen
      <3>1. Held(x)' = Held(x)
        BY <1>6, <2>3, Zenon DEF Held
      <3> QED
        BY <1>6, <3>1, Zenon DEF ReadWaits
    <2>6. \A q \in Proc : pc'[q] = "write-asleep" /\ io[q].pipe = x => Held(x)' = PIPESIZE
      BY <1>5, <2>1, <2>5, Zenon
    <2> QED
      <3>1. /\ \A q \in Proc : ~(pc'[q] = "write-sleep" /\ q = p)
            /\ \A q \in Proc : pc'[q] = "read-asleep" /\ io[q].pipe = x => Held(x)' = 0 \/ pipe'[x].left
        BY <2>1, <2>5, Zenon
      <3>2. Held(x)' \in 0..PIPESIZE
        BY <1>4, <2>5, Zenon
      <3> QED
        <4>1. Wakes(p) /\ Leaves(p, x)
          BY <1>1, <2>1, <2>3, Zenon DEF Wakes, Leaves
        <4>2. Reasons(p, x)
          BY <2>1, <2>5, <2>6, <3>1, Zenon DEF Reasons
        <4> QED
          BY <1>1, <1>2, <1>3, <2>2, <2>3, <2>4, <3>2, <4>1, <4>2, Slept, Zenon
  <1>7. CASE io' = [io EXCEPT ![p] = Idle] /\ Goto(p, "user") /\ UNCHANGED pipe
    <2>1. /\ pc'[p] = "user" /\ io'[p] = Idle
          /\ \A q \in Proc \ {p} : pc'[q] = pc[q] /\ io'[q] = io[q]
          /\ pc' \in [Proc -> Label]
      BY <1>4, <1>7, Zenon DEF Goto, Label
    <2>2. Types'
      <3>1. io' \in [Proc -> IoType]
        BY <1>4, <1>7, IdleIo, Zenon
      <3> QED
        BY <1>3, <1>7, <2>1, <3>1, Zenon DEF IInv, Types, procs, tables
    <2>3. \A q \in Proc : StillWorks(q)
      BY <1>1, <2>1, Zenon DEF StillWorks
    <2>4. \A y \in Page : FlagsStay(y)
      BY <1>7, Zenon DEF FlagsStay
    <2>5. PipeInv'
      <3>1. \A q \in Proc : SleepsOn(q)
        BY <1>1, <2>1, Zenon DEF SleepsOn, Locking, Sleeping
      <3> QED
        BY <1>7, <3>1, PipeKept, Zenon DEF IInv
    <2> QED
      BY <1>3, <2>2, <2>3, <2>4, <2>5, Worked, Zenon
  <1>8. CASE /\ io' = [io EXCEPT ![p] = Idle] /\ pipe' = [pipe EXCEPT ![x] = Taken(x, k)]
             /\ pc' = [WakeWriters(x) EXCEPT ![p] = "user"]
    <2>1. k \in Nat /\ k <= Held(x)
      BY <1>4 DEF Least, IoType
    <2>2. pipe'[x] = Taken(x, k) /\ \A y \in Page \ {x} : pipe'[y] = pipe[y]
      BY <1>2, <1>4, <1>8, Zenon
    <2>3. Taken(x, k) \in PipeType /\ AsBefore(Taken(x, k), pipe[x])
      BY <1>2, <2>1, TakenPipe, Zenon DEF IInv
    <2>4. Held(x)' = Held(x) - k
      <3>1. (Taken(x, k).nwrite - Taken(x, k).nread) % CounterMod = Held(x) - k
        BY <1>2, <2>1, TakenPipe, Zenon DEF IInv
      <3>2. \A y : Held(y)' = (pipe'[y].nwrite - pipe'[y].nread) % CounterMod
        BY Zenon DEF Held
      <3> QED
        BY <2>2, <3>1, <3>2, Zenon
    <2>5. /\ pc'[p] = "user" /\ io'[p] = Idle
          /\ \A q \in Proc \ {p} : /\ io'[q] = io[q]
                                   /\ pc'[q] = IF pc[q] = "write-asleep" /\ io[q].pipe = x THEN "write" ELSE pc[q]
      BY <1>4, <1>8, Zenon DEF WakeWriters
    <2>6. Types'
      <3>1. io' \in [Proc -> IoType]
        BY <1>4, <1>8, IdleIo, Zenon
      <3>2. pipe' \in [Page -> PipeType]
        BY <1>2, <1>4, <1>8, <2>3, Zenon
      <3>3. pc' \in [Proc -> Label]
        BY <1>4, <1>8, Zenon DEF WakeWriters, Label, Working, Writing
      <3> QED
        BY <1>3, <3>1, <3>2, <3>3, Zenon DEF IInv, Types, procs, tables
    <2>7. /\ FlagsStay(x) /\ pipe'[x].lock = None /\ pipe'[x].left = pipe[x].left
      BY <1>1, <1>2, <2>2, <2>3, Zenon DEF AsBefore, FlagsStay
    <2> HIDE DEF k
    <2>8. Held(x)' \in 0..PIPESIZE
      BY <1>4, <2>1, <2>4, FilesAssumption
    <2>9. \A q \in Proc : pc'[q] = "read-asleep" /\ io[q].pipe = x => Held(x)' = 0 \/ pipe'[x].left
      <3>1. \A q \in Proc : pc'[q] = "read-asleep" => pc[q] = "read-asleep"
        BY <2>5, Zenon
      <3>2. Held(x) = 0 => Held(x)' = 0
        BY <2>1, <2>4
      <3> QED
        BY <1>5, <2>7, <3>1, <3>2, Zenon
    <2>10. \A q \in Proc : ~(pc'[q] = "write-asleep" /\ io[q].pipe = x)
      BY <2>5, Zenon
    <2>11. Wakes(p) /\ Leaves(p, x)
      BY <2>5, <2>7, Zenon DEF Wakes, Leaves
    <2>12. Reasons(p, x)
      BY <2>5, <2>9, <2>10, Zenon DEF Reasons
    <2> QED
      BY <1>1, <1>2, <1>3, <2>2, <2>6, <2>7, <2>8, <2>11, <2>12, Slept, Zenon
  <1> QED
    BY <1>6, <1>7, <1>8, Zenon DEF piperead

LEMMA PipewriteKeeps ==
  ASSUME IInv, NEW p \in Proc, NEW x, x = io[p].pipe, pipewrite(p)
  PROVE  IInv'
  <1> DEFINE b == io[p].bytes
             k == Least(Len(b), Room(x))
             s == SubSeq(b, 1, k)
             rest == SubSeq(b, k + 1, Len(b))
             after == Put(x, s)
  <1>1. pc[p] = "write" /\ pc[p] \in Working /\ pipe[x].lock = None
    BY Zenon DEF pipewrite, Working, Writing
  <1>2. x \in Page /\ pipe[x].used
    BY <1>1, WorkerHasPipe, Zenon
  <1>3. UNCHANGED <<procs, tables, todo, ff>>
    BY Zenon DEF pipewrite
  <1>4. /\ io[p] \in IoType /\ Held(x) \in 0..PIPESIZE
        /\ pc \in [Proc -> Label] /\ pipe \in [Page -> PipeType] /\ io \in [Proc -> IoType]
    BY <1>2, Zenon DEF IInv, Types, PipeInv, HeldInv
  <1>5. \A q \in Proc : pc[q] = "write-asleep" /\ io[q].pipe = x => Held(x) = PIPESIZE
    BY Zenon DEF IInv, PipeInv, SleepInv
  <1>6. b \in Seq(Byte) /\ Len(b) \in Nat
    BY <1>4 DEF IoType
  <1>7. /\ k \in 0..Len(b) /\ Held(x) + k <= PIPESIZE /\ (Held(x) = PIPESIZE => k = 0)
        /\ k # Len(b) => Held(x) + k = PIPESIZE
    <2> DEFINE n == Len(b)
    <2>1. n \in Nat
      BY <1>6, Zenon
    <2> HIDE DEF n, b
    <2> QED
      BY <1>4, <2>1, FilesAssumption DEF Least, Room, n
  <1>8. /\ s \in Seq(Byte) /\ Len(s) = k /\ rest \in Seq(Byte)
        /\ rest = <<>> <=> k = Len(b)
    <2> HIDE DEF b, k
    <2> QED
      BY <1>6, <1>7, Cut, Zenon
  <1> HIDE DEF b, k, s, rest
  <1>9. /\ after \in PipeType /\ AsBefore(after, pipe[x])
        /\ (after.nwrite - after.nread) % CounterMod = Held(x) + k
    BY <1>2, <1>7, <1>8, PutPipe, Zenon DEF IInv
  <1> HIDE DEF after
  <1>10. \A y : Held(y)' = (pipe'[y].nwrite - pipe'[y].nread) % CounterMod
    BY Zenon DEF Held
  <1>11. CASE /\ pipe' = [pipe EXCEPT ![x] = [after EXCEPT !.left = (rest # <<>>)]]
              /\ io' = [io EXCEPT ![p] = Idle]
              /\ pc' = [(IF rest = <<>> THEN WakeReaders(x) ELSE pc) EXCEPT ![p] = "user"]
    <2> DEFINE e == [after EXCEPT !.left = (rest # <<>>)]
    <2>1. /\ e \in PipeType /\ e.lock = after.lock /\ e.left = (rest # <<>>)
          /\ e.nread = after.nread /\ e.nwrite = after.nwrite /\ e.used = after.used
          /\ e.readopen = after.readopen /\ e.writeopen = after.writeopen
      BY <1>9, Zenon DEF PipeType
    <2>2. pipe' = [pipe EXCEPT ![x] = e]
      BY <1>11, Zenon
    <2> HIDE DEF e
    <2>3. pipe'[x] = e /\ \A y \in Page \ {x} : pipe'[y] = pipe[y]
      BY <1>2, <1>4, <2>2, Zenon
    <2>4. Held(x)' = Held(x) + k
      BY <1>9, <1>10, <2>1, <2>3, Zenon
    <2>5. /\ pc'[p] = "user" /\ io'[p] = Idle
          /\ \A q \in Proc \ {p} : /\ io'[q] = io[q]
                                   /\ pc'[q] = IF rest = <<>> /\ pc[q] = "read-asleep" /\ io[q].pipe = x
                                               THEN "read" ELSE pc[q]
      BY <1>4, <1>11, Zenon DEF WakeReaders
    <2>6. Types'
      <3>1. io' \in [Proc -> IoType]
        BY <1>4, <1>11, IdleIo, Zenon
      <3>2. pipe' \in [Page -> PipeType]
        BY <1>2, <1>4, <2>1, <2>2, Zenon
      <3>3. pc' \in [Proc -> Label]
        BY <1>4, <1>11, Zenon DEF WakeReaders, Label, Working, Reading
      <3> QED
        BY <1>3, <3>1, <3>2, <3>3, Zenon DEF IInv, Types, procs, tables
    <2>7. FlagsStay(x) /\ pipe'[x].lock = None
      BY <1>1, <1>2, <1>9, <2>1, <2>3, Zenon DEF AsBefore, FlagsStay
    <2>8. Held(x)' \in 0..PIPESIZE
      BY <1>4, <1>7, <2>4, FilesAssumption
    <2>9. \A q \in Proc : pc'[q] = "read-asleep" /\ io[q].pipe = x => pipe'[x].left
      <3>1. \A q \in Proc : pc'[q] = "read-asleep" /\ io[q].pipe = x => rest # <<>>
        BY <2>5, Zenon
      <3> QED
        BY <2>1, <2>3, <3>1, Zenon
    <2>10. \A q \in Proc : pc'[q] = "write-asleep" /\ io[q].pipe = x => Held(x)' = PIPESIZE
      <3>1. \A q \in Proc : pc'[q] = "write-asleep" => pc[q] = "write-asleep"
        BY <2>5, Zenon
      <3>2. Held(x) = PIPESIZE => Held(x)' = PIPESIZE
        BY <1>4, <1>7, <2>4
      <3> QED
        BY <1>5, <3>1, <3>2, Zenon
    <2>11. Wakes(p) /\ Leaves(p, x)
      BY <2>5, <2>7, Zenon DEF Wakes, Leaves
    <2>12. Reasons(p, x)
      BY <2>5, <2>9, <2>10, Zenon DEF Reasons
    <2> QED
      BY <1>1, <1>2, <1>3, <2>3, <2>6, <2>7, <2>8, <2>11, <2>12, Slept, Zenon
  <1>12. CASE /\ rest # <<>> /\ pipe[x].readopen
              /\ pipe' = [pipe EXCEPT ![x] = [after EXCEPT !.lock = p, !.left = FALSE]]
              /\ io' = [io EXCEPT ![p].bytes = rest]
              /\ pc' = [WakeReaders(x) EXCEPT ![p] = "write-sleep"]
    <2> DEFINE e == [after EXCEPT !.lock = p, !.left = FALSE]
    <2>1. /\ e \in PipeType /\ e.lock = p
          /\ e.nread = after.nread /\ e.nwrite = after.nwrite /\ e.used = after.used
          /\ e.readopen = after.readopen /\ e.writeopen = after.writeopen
      BY <1>9, Zenon DEF PipeType
    <2>2. pipe' = [pipe EXCEPT ![x] = e]
      BY <1>12, Zenon
    <2> HIDE DEF e
    <2>3. pipe'[x] = e /\ \A y \in Page \ {x} : pipe'[y] = pipe[y]
      BY <1>2, <1>4, <2>2, Zenon
    <2>4. Held(x)' = PIPESIZE
      <3>1. Held(x)' = Held(x) + k
        BY <1>9, <1>10, <2>1, <2>3, Zenon
      <3> QED
        BY <1>7, <1>8, <1>12, <3>1, Zenon
    <2>5. /\ pc'[p] = "write-sleep"
          /\ \A q \in Proc \ {p} : /\ io'[q] = io[q]
                                   /\ pc'[q] = IF pc[q] = "read-asleep" /\ io[q].pipe = x THEN "read" ELSE pc[q]
      BY <1>4, <1>12, Zenon DEF WakeReaders
    <2>6. io' \in [Proc -> IoType] /\ io'[p].pipe = x
      <3> DEFINE d == [io[p] EXCEPT !.bytes = rest]
      <3>1. d \in IoType /\ d.pipe = x
        BY <1>4, <1>8, Zenon DEF IoType
      <3>2. io' = [io EXCEPT ![p] = d]
        BY <1>4, <1>12, Zenon
      <3> HIDE DEF d
      <3> QED
        BY <1>4, <3>1, <3>2, Zenon
    <2>7. Types'
      <3>1. pipe' \in [Page -> PipeType]
        BY <1>2, <1>4, <2>1, <2>2, Zenon
      <3>2. pc' \in [Proc -> Label]
        BY <1>4, <1>12, Zenon DEF WakeReaders, Label, Working, Reading, Writing
      <3> QED
        BY <1>3, <2>6, <3>1, <3>2, Zenon DEF IInv, Types, procs, tables
    <2>8. FlagsStay(x) /\ pipe'[x].lock = p
      BY <1>1, <1>2, <1>9, <2>1, <2>3, Zenon DEF AsBefore, FlagsStay
    <2>9. \A q \in Proc : ~(pc'[q] = "read-asleep" /\ io[q].pipe = x)
      BY <2>5, Zenon
    <2>10. Held(x)' \in 0..PIPESIZE
      BY <2>4, FilesAssumption
    <2>11. Wakes(p) /\ Leaves(p, x)
      BY <1>1, <2>5, <2>6, <2>8, Zenon DEF Wakes, Leaves
    <2>12. Reasons(p, x)
      BY <1>12, <2>4, <2>5, <2>9, Zenon DEF Reasons
    <2> QED
      BY <1>1, <1>2, <1>3, <2>3, <2>7, <2>8, <2>10, <2>11, <2>12, Slept, Zenon
  <1> QED
    BY <1>11, <1>12, Zenon DEF pipewrite, b, k, s, rest, after

-----------------------------------------------------------------------------
(* pipeclose(), and the whole *)

LEMMA PipecloseKeeps ==
  ASSUME IInv, NEW p \in Proc, NEW x, x = ff[p].pipe, NEW w, w = ff[p].writable, pipeclose(p)
  PROVE  IInv'
  <1> DEFINE after == EndClosed(pipe[x], w)
             e == IF after.readopen \/ after.writeopen THEN after ELSE Free
  <1>1. pc[p] = "last" /\ pipe[x].lock = None /\ UNCHANGED <<procs, tables, todo, io>>
    BY Zenon DEF pipeclose
  <1>2. ff[p].type = "FD_PIPE" /\ x \in Page /\ w \in BOOLEAN /\ IsEnd(ff[p], x, w)
    BY Zenon DEF pipeclose, IInv, FileInv, PipeSound, Types, FileType, IsEnd
  <1>3. /\ \A q \in Proc \ {p} : pc'[q] = IF \/ w /\ pc[q] = "read-asleep" /\ io[q].pipe = x
                                             \/ ~w /\ pc[q] = "write-asleep" /\ io[q].pipe = x
                                          THEN (IF w THEN "read" ELSE "write") ELSE pc[q]
        /\ pc'[p] = Onward(p, ofile[p], todo[p]) /\ pc'[p] \in {"close", "exit", "user"}
    BY OnwardLabel, Zenon DEF pipeclose, IInv, Types, WakeReaders, WakeWriters
  <1>4. ff'[p] = Closed /\ \A q \in Proc \ {p} : ff'[q] = ff[q]
    BY Zenon DEF pipeclose, IInv, Types
  <1>5. pipe'[x] = e /\ pipe' = [pipe EXCEPT ![x] = e] /\ \A y \in Page \ {x} : pipe'[y] = pipe[y]
    BY <1>2, Zenon DEF pipeclose, IInv, Types
  <1>6. pipe[x] \in PipeType /\ Flags(x) /\ OneEnd(x, w) /\ Held(x) \in 0..PIPESIZE
    BY <1>2, Zenon DEF IInv, Types, EndInv, PipeInv, HeldInv
  <1>7. pipe[x].used
    BY <1>2, <1>6, Zenon DEF Flags, Ends
  <1>8. Free \in PipeType /\ Free.lock = None /\ Free.nread = 0 /\ Free.nwrite = 0
        /\ Free.used = FALSE /\ Free.readopen = FALSE /\ Free.writeopen = FALSE
    <2>1. 0 \in 0..(CounterMod - 1)
      BY FilesAssumption
    <2> QED
      BY <2>1, Zenon DEF Free, PipeType, None
  <1>9. /\ after \in PipeType /\ after.lock = None /\ after.used = pipe[x].used
        /\ after.nread = pipe[x].nread /\ after.nwrite = pipe[x].nwrite
        /\ after.readopen = (pipe[x].readopen /\ w) /\ after.writeopen = (pipe[x].writeopen /\ ~w)
    BY <1>1, <1>2, <1>6, Zenon DEF EndClosed, PipeType
  <1> HIDE DEF after
  <1>10. /\ e \in PipeType /\ e.lock = None
         /\ e.readopen = (pipe[x].readopen /\ w) /\ e.writeopen = (pipe[x].writeopen /\ ~w)
         /\ e.used = (e.readopen \/ e.writeopen) /\ (~e.used => e = Free)
    <2>1. CASE after.readopen \/ after.writeopen
      <3>1. e = after
        BY <2>1, Zenon
      <3> HIDE DEF e
      <3> QED
        BY <1>7, <1>9, <2>1, <3>1, Zenon
    <2>2. CASE ~(after.readopen \/ after.writeopen)
      <3>1. e = Free
        BY <2>2, Zenon
      <3> HIDE DEF e
      <3> QED
        BY <1>8, <1>9, <2>2, <3>1, Zenon
    <2> QED
      BY <2>1, <2>2, Zenon
  <1>11. Held(x)' \in 0..PIPESIZE /\ \A y \in Page \ {x} : Held(y)' = Held(y)
    <2>1. Held(x)' = (e.nwrite - e.nread) % CounterMod
      BY <1>5, Zenon DEF Held
    <2>2. (after.nwrite - after.nread) % CounterMod = Held(x)
      BY <1>9, Zenon DEF Held
    <2>3. (Free.nwrite - Free.nread) % CounterMod = 0
      BY <1>8, FilesAssumption
    <2>4. Held(x)' \in {Held(x), 0}
      BY <2>1, <2>2, <2>3, Zenon
    <2>5. 0 \in 0..PIPESIZE
      BY FilesAssumption
    <2>6. \A y \in Page \ {x} : Held(y)' = Held(y)
      BY <1>5, Zenon DEF Held
    <2> QED
      BY <1>6, <2>4, <2>5, <2>6, Zenon
  <1> HIDE DEF e
  <1>12. Types'
    <2>1. pipe' \in [Page -> PipeType]
      BY <1>5, <1>10, Zenon DEF IInv, Types
    <2>2. pc' \in [Proc -> Label]
      <3>1. Onward(p, ofile[p], todo[p]) \in Label /\ "read" \in Label /\ "write" \in Label
        BY OnwardLabel, Zenon DEF Label, Working, Reading, Writing
      <3> QED
        BY <3>1, Zenon DEF pipeclose, WakeReaders, WakeWriters, IInv, Types
    <2>3. ff' \in [Proc -> FileType]
      <3>1. Closed \in FileType
        BY Zenon DEF Closed, FileType
      <3> QED
        BY <3>1, Zenon DEF pipeclose, IInv, Types
    <2> QED
      BY <1>1, <2>1, <2>2, <2>3, Zenon DEF IInv, Types, procs, tables
  <1>13. LocalInv'
    <2>1. Local(p)'
      <3>1. p \in exiting => todo[p] = NoFiles
        BY Zenon DEF IInv, LocalInv, Local
      <3> QED
        BY <1>1, <1>3, <1>4, <3>1, OnwardLocal, Zenon DEF procs, tables
    <2>2. ASSUME NEW q \in Proc \ {p} PROVE Local(q)'
      <3>1. \/ pc'[q] = pc[q]
            \/ pc[q] \in Working \cup {"user"} /\ pc'[q] \in Working \cup {"user"}
        BY <1>3, Zenon DEF Working, Reading, Writing
      <3> QED
        BY <1>1, <1>4, <3>1, LocalKept, Zenon DEF IInv, LocalInv, procs, tables
    <2> QED
      BY <2>1, <2>2, Zenon DEF LocalInv
  <1>14. FileInv'
    <2>1. PipeSound(Closed) /\ UNCHANGED <<ftable, todo>>
      BY <1>1, Zenon DEF PipeSound, Closed, tables
    <2>2. \A q \in Proc : pc'[q] = "pipe" => pc[q] = "pipe"
      BY <1>3, Zenon
    <2> QED
      BY <1>4, <2>1, <2>2, Zenon DEF IInv, FileInv
  <1>15. EndInv'
    <2>1. UNCHANGED ftable
      BY <1>1, Zenon DEF tables
    <2>2. \A y, v : ~IsEnd(Closed, y, v)
      BY Zenon DEF IsEnd, Closed
    <2>3. \A y, v : y # x \/ v # w => ~IsEnd(ff[p], y, v)
      BY Zenon DEF IsEnd
    <2>4. /\ \A f \in File : ~IsEnd(ftable[f], x, w)
          /\ \A q \in Proc \ {p} : ~IsEnd(ff[q], x, w)
      BY <1>2, <1>6, Zenon DEF OneEnd
    <2>5. ASSUME NEW y, NEW v, OneEnd(y, v) PROVE OneEnd(y, v)'
      BY <1>4, <2>1, <2>2, <2>5, Zenon DEF OneEnd
    <2>6. ASSUME NEW y, NEW v, y # x \/ v # w PROVE Ends(y, v)' <=> Ends(y, v)
      BY <1>4, <2>1, <2>2, <2>3, <2>6, Zenon DEF Ends
    <2>7. ~Ends(x, w)'
      BY <1>4, <2>1, <2>2, <2>4, Zenon DEF Ends
    <2>8. Flags(x)'
      <3>1. CASE w = TRUE
        <4>1. ~Ends(x, TRUE)' /\ (Ends(x, FALSE)' <=> Ends(x, FALSE))
          BY <2>6, <2>7, <3>1, Zenon
        <4>2. pipe[x].readopen = Ends(x, FALSE)
          BY <1>6, Zenon DEF Flags
        <4> QED
          BY <1>5, <1>10, <3>1, <4>1, <4>2, Zenon DEF Flags, Ends
      <3>2. CASE w = FALSE
        <4>1. ~Ends(x, FALSE)' /\ (Ends(x, TRUE)' <=> Ends(x, TRUE))
          BY <2>6, <2>7, <3>2, Zenon
        <4>2. pipe[x].writeopen = Ends(x, TRUE)
          BY <1>6, Zenon DEF Flags
        <4> QED
          BY <1>5, <1>10, <3>2, <4>1, <4>2, Zenon DEF Flags, Ends
      <3> QED
        BY <1>2, <3>1, <3>2, Zenon
    <2>9. ASSUME NEW y \in Page \ {x} PROVE Flags(y)'
      <3>1. (Ends(y, TRUE)' <=> Ends(y, TRUE)) /\ (Ends(y, FALSE)' <=> Ends(y, FALSE)) /\ Flags(y)
        BY <2>6, Zenon DEF IInv, EndInv
      <3> QED
        BY <1>5, <3>1, Zenon DEF Flags, Ends
    <2> QED
      BY <1>2, <2>5, <2>8, <2>9, Zenon DEF IInv, EndInv
  <1>16. IoInv'
    <2>1. ASSUME NEW q \in Proc \ {p} PROVE Works(q)'
      <3>1. StillWorks(q)
        BY <1>1, <1>3, Zenon DEF StillWorks, Reading, Writing
      <3> QED
        BY <1>1, <3>1, WorksStill, Zenon DEF IInv, IoInv, tables
    <2>2. Works(p)'
      BY <1>1, <1>3, Zenon DEF IInv, IoInv, Works, Working, Reading, Writing
    <2> QED
      BY <2>1, <2>2, Zenon DEF IoInv
  <1>17. PipeInv'
    <2>1. ASSUME NEW q \in Proc, pc'[q] \in Sleeping
          PROVE  /\ q # p /\ pc'[q] = pc[q] /\ io[q].pipe \in Page \ {x}
      <3>1. q # p /\ pc'[q] = pc[q] /\ pc[q] \in Working
        BY <1>3, <2>1, Zenon DEF Sleeping, Locking, Working, Reading, Writing
      <3>2. io[q].pipe \in Page /\ ~IsEnd(ff[p], io[q].pipe, pc[q] \in Writing)
        BY <3>1, WorkerHasPipe, Zenon
      <3>3. ASSUME io[q].pipe = x PROVE FALSE
        <4>1. pc[q] \notin Locking
          BY <1>1, <1>2, <3>3, NobodyLocks, Zenon DEF IInv, PipeInv
        <4>2. CASE pc[q] = "read-asleep"
          <5>1. (pc[q] \in Writing) = FALSE
            BY <4>2 DEF Writing
          <5>2. w = TRUE
            BY <1>2, <3>2, <3>3, <5>1, Zenon
          <5> QED
            BY <1>3, <2>1, <3>1, <3>3, <4>2, <5>2, Zenon
        <4>3. CASE pc[q] = "write-asleep"
          <5>1. (pc[q] \in Writing) = TRUE
            BY <4>3, Zenon DEF Writing
          <5>2. w = FALSE
            BY <1>2, <3>2, <3>3, <5>1, Zenon
          <5> QED
            BY <1>3, <2>1, <3>1, <3>3, <4>3, <5>2, Zenon
        <4> QED
          BY <2>1, <3>1, <4>1, <4>2, <4>3, Zenon DEF Sleeping
      <3> QED
        BY <3>1, <3>2, <3>3, Zenon
    <2>2. UNCHANGED io /\ pc[p] \notin Locking
      BY <1>1, Zenon DEF Locking
    <2>3. LockInv'
      <3>1. LockInv /\ \A y \in Page : pipe[y].lock \in Proc \cup {None}
        BY Zenon DEF IInv, PipeInv, Types, PipeType
      <3>2. ASSUME NEW y \in Page, pipe'[y].lock # None
            PROVE  pc'[pipe'[y].lock] \in Locking /\ io'[pipe'[y].lock].pipe = y
        <4>1. y # x /\ pipe'[y] = pipe[y] /\ pipe[y].lock \in Proc
          BY <1>5, <1>10, <3>1, <3>2, Zenon
        <4>2. pc[pipe[y].lock] \in Locking /\ io[pipe[y].lock].pipe = y
          BY <3>1, <3>2, <4>1, Zenon DEF LockInv
        <4>3. pc'[pipe[y].lock] = pc[pipe[y].lock]
          BY <1>3, <2>2, <4>1, <4>2, Zenon DEF Locking
        <4> QED
          BY <2>2, <4>1, <4>2, <4>3, Zenon
      <3>3. ASSUME NEW q \in Proc, pc'[q] \in Locking PROVE pipe'[io'[q].pipe].lock = q
        <4>1. pc'[q] = pc[q] /\ io[q].pipe \in Page \ {x}
          BY <2>1, <3>3, Zenon DEF Sleeping
        <4> QED
          BY <1>5, <2>2, <3>1, <3>3, <4>1, Zenon DEF LockInv
      <3> QED
        BY <3>2, <3>3, Zenon DEF LockInv
    <2>4. HeldInv'
      BY <1>11, Zenon DEF IInv, PipeInv, HeldInv
    <2>5. SleepInv'
      <3>1. \A q \in Proc : pc'[q] \in Sleeping =>
              /\ pc'[q] = pc[q] /\ pipe'[io[q].pipe] = pipe[io[q].pipe]
              /\ Held(io[q].pipe)' = Held(io[q].pipe)
        BY <1>5, <1>11, <2>1, <2>2, Zenon
      <3> QED
        BY <2>2, <3>1 DEF IInv, PipeInv, SleepInv, Sleeping, Locking
    <2> QED
      BY <2>3, <2>4, <2>5, Zenon DEF PipeInv
  <1>18. RefCounts'
    BY <1>1, Zenon DEF IInv, RefCounts, tables
  <1>19. IrefInv'
    <2>1. \A q \in Proc : ff'[q].type = "FD_INODE" <=> ff[q].type = "FD_INODE"
      BY <1>2, <1>4 DEF Closed
    <2> QED
      BY <1>1, <2>1, IrefKept, Zenon DEF IInv, tables
  <1> QED
    BY <1>12, <1>13, <1>14, <1>15, <1>16, <1>17, <1>18, <1>19, Zenon DEF IInv

LEMMA StepKeeps ==
  ASSUME Counting, IInv, [FilesNext]_filesvars
  PROVE  IInv'
  <1>1. CASE UNCHANGED filesvars
    BY <1>1, Same, Zenon DEF filesvars, procs
  <1>2. ASSUME NEW p \in Proc, User(p), SysCall(p) PROVE IInv'
    <2>1. pc[p] = "user"
      BY <1>2, Zenon DEF User
    <2>2. CASE sys_open(p)
      BY <2>1, <2>2, OpenKeeps, Zenon
    <2>3. CASE sys_pipe(p)
      BY <2>1, <2>3, PipeKeeps, Zenon
    <2>4. CASE wait(p)
      BY <2>4, WaitKeeps, Zenon
    <2>5. ASSUME NEW fd \in Fd, sys_dup(p, fd) PROVE IInv'
      BY <2>1, <2>5, DupKeeps, Zenon
    <2>6. ASSUME NEW fd \in Fd, sys_close(p, fd) PROVE IInv'
      BY <2>1, <2>6, CloseKeeps, Zenon
    <2>7. ASSUME NEW fd \in Fd, \/ \E n \in Nat : sys_read(p, fd, n)
                                \/ \E s \in Seq(Byte) : sys_write(p, fd, s)
          PROVE  IInv'
      BY <2>1, <2>7, ReadWriteKeep, Zenon
    <2>8. ASSUME NEW c \in Unused, fork(p, c) PROVE IInv'
      BY <2>1, <2>8, ForkKeeps, Zenon
    <2> QED
      BY <1>2, <2>2, <2>3, <2>4, <2>5, <2>6, <2>7, <2>8, Zenon DEF SysCall
  <1>3. ASSUME NEW p \in Proc, Kernel(p) PROVE IInv'
    <2>1. CASE piperead(p)
      BY <2>1, PipereadKeeps, Zenon
    <2>2. CASE pipewrite(p)
      BY <2>2, PipewriteKeeps, Zenon
    <2>3. CASE pipeclose(p)
      BY <2>3, PipecloseKeeps, Zenon
    <2> QED
      BY <1>3, <2>1, <2>2, <2>3, PipeRestKeeps, FilecloseKeeps, CloseinodeKeeps, SleepKeeps,
         ExitKeeps, Zenon DEF Kernel
  <1>4. ASSUME NEW p \in Proc, exit(p) PROVE IInv'
    BY <1>4, ExitKeeps, Zenon
  <1>5. ASSUME NEW p \in Proc, kill(p) PROVE IInv'
    BY <1>5, KillKeeps, Zenon
  <1> QED
    BY <1>1, <1>2, <1>3, <1>4, <1>5, Zenon DEF FilesNext

-----------------------------------------------------------------------------
(* The ring as a sequence of bytes *)

LEMMA Divided ==
  ASSUME NEW a \in Int
  PROVE  /\ a % PIPESIZE \in 0..(PIPESIZE - 1) /\ a \div PIPESIZE \in Int
         /\ a = PIPESIZE * (a \div PIPESIZE) + (a % PIPESIZE)
  BY FilesAssumption

LEMMA Remainder ==
  ASSUME NEW a \in Int, NEW q \in Int, NEW r \in 0..(PIPESIZE - 1), a = PIPESIZE * q + r
  PROVE  a % PIPESIZE = r
  <1> DEFINE P == PIPESIZE  d == (a \div P) - q  m == a % P
  <1>1. P \in Nat /\ P > 0
    BY FilesAssumption
  <1>2. m \in 0..(P - 1) /\ a \div P \in Int /\ a = P * (a \div P) + m
    BY Divided
  <1>3. d \in Int /\ P * d = r - m
    <2> DEFINE e == a \div P
    <2>1. e \in Int /\ a = P * e + m
      BY <1>2
    <2> HIDE DEF P, m, e
    <2>2. P * (e - q) = r - m
      BY <1>1, <1>2, <2>1 DEF P
    <2> QED
      BY <2>1, <2>2 DEF e
  <1> HIDE DEF P, d, m
  <1>4. r \in Int /\ m \in Int /\ r - m < P /\ r - m > -P
    BY <1>1, <1>2 DEF P
  <1>5. d >= 1 => P * d >= P
    BY <1>1, <1>3
  <1>6. d <= -1 => P * d <= -P
    BY <1>1, <1>3
  <1>7. d = 0
    BY <1>1, <1>3, <1>4, <1>5, <1>6
  <1>8. r - m = 0
    BY <1>1, <1>3, <1>7
  <1> QED
    BY <1>4, <1>8 DEF m, P

LEMMA Wrapped ==
  ASSUME NEW a \in Int, NEW b \in Int
  PROVE  /\ ((a % PIPESIZE) - b) % PIPESIZE = (a - b) % PIPESIZE
         /\ (a + CounterMod) % PIPESIZE = a % PIPESIZE
         /\ (a - CounterMod) % PIPESIZE = a % PIPESIZE
  <1> DEFINE P == PIPESIZE  m == a % P  e == a \div P  n == (a - b) % P  f == (a - b) \div P
             c == CounterMod \div P
  <1>1. P \in Nat /\ P > 0 /\ CounterMod \in Int
    BY FilesAssumption
  <1>2. m \in 0..(P - 1) /\ e \in Int /\ a = P * e + m
    BY Divided
  <1>3. n \in 0..(P - 1) /\ f \in Int /\ a - b = P * f + n
    BY Divided
  <1>4. c \in Int /\ CounterMod = P * c
    BY Divided, FilesAssumption
  <1> HIDE DEF P, m, e, n, f, c
  <1>5. m - b \in Int /\ f - e \in Int /\ m - b = P * (f - e) + n
    BY <1>1, <1>2, <1>3
  <1>6. (m - b) % PIPESIZE = n
    BY <1>3, <1>5, Remainder DEF P
  <1>7. a + CounterMod \in Int /\ e + c \in Int /\ a + CounterMod = P * (e + c) + m
    BY <1>1, <1>2, <1>4
  <1>8. a - CounterMod \in Int /\ e - c \in Int /\ a - CounterMod = P * (e - c) + m
    BY <1>1, <1>2, <1>4
  <1>9. (a + CounterMod) % PIPESIZE = m
    BY <1>2, <1>7, Remainder DEF P
  <1>10. (a - CounterMod) % PIPESIZE = m
    BY <1>2, <1>8, Remainder DEF P
  <1> QED
    BY <1>6, <1>9, <1>10 DEF m, n, P

LEMMA Small ==
  ASSUME NEW j \in (-PIPESIZE)..(PIPESIZE - 1)
  PROVE  j % PIPESIZE = IF j < 0 THEN j + PIPESIZE ELSE j
  <1>1. PIPESIZE \in Nat
    BY FilesAssumption
  <1>2. CASE j < 0
    <2>1. j \in Int /\ -1 \in Int /\ j + PIPESIZE \in 0..(PIPESIZE - 1) /\ j = PIPESIZE * (-1) + (j + PIPESIZE)
      BY <1>1, <1>2
    <2>2. j % PIPESIZE = j + PIPESIZE
      BY ONLY <2>1, Remainder
    <2> QED
      BY <1>2, <2>2
  <1>3. CASE ~(j < 0)
    <2>1. j \in Int /\ 0 \in Int /\ j \in 0..(PIPESIZE - 1) /\ j = PIPESIZE * 0 + j
      BY <1>1, <1>3
    <2>2. j % PIPESIZE = j
      BY ONLY <2>1, Remainder
    <2> QED
      BY <1>3, <2>2
  <1> QED
    BY <1>2, <1>3

HeldIn(e) == (e.nwrite - e.nread) % CounterMod
Stored(e) == [i \in 1..HeldIn(e) |-> e.data[(e.nread + i - 1) % PIPESIZE]]

LEMMA StoredSeq ==
  ASSUME NEW e \in PipeType
  PROVE  Stored(e) \in Seq(Byte \cup {None}) /\ Len(Stored(e)) = HeldIn(e) /\ HeldIn(e) \in Nat
  <1>1. /\ e.nread \in 0..(CounterMod - 1) /\ e.nwrite \in 0..(CounterMod - 1)
        /\ e.data \in [0..(PIPESIZE - 1) -> Byte \cup {None}]
    BY Zenon DEF PipeType
  <1>2. HeldIn(e) \in Nat
    <2>1. HeldIn(e) \in 0..(CounterMod - 1)
      BY <1>1, HeldMoves DEF HeldIn
    <2> QED
      BY <2>1, FilesAssumption
  <1>3. ASSUME NEW i \in 1..HeldIn(e) PROVE e.data[(e.nread + i - 1) % PIPESIZE] \in Byte \cup {None}
    <2>1. e.nread + i - 1 \in Int
      BY <1>1, <1>2
    <2> QED
      BY <1>1, <2>1, Divided
  <1> DEFINE h == HeldIn(e)  v(i) == e.data[(e.nread + i - 1) % PIPESIZE]
  <1>4. Stored(e) = [i \in 1..h |-> v(i)]
    BY Zenon DEF Stored
  <1>5. h \in Nat /\ \A i \in 1..h : v(i) \in Byte \cup {None}
    BY <1>2, <1>3, Zenon
  <1> HIDE DEF h, v
  <1>6. [i \in 1..h |-> v(i)] \in Seq(Byte \cup {None}) /\ Len([i \in 1..h |-> v(i)]) = h
    BY <1>5
  <1> QED
    BY <1>4, <1>5, <1>6, Zenon DEF h

\* The slot of a byte does not depend on where the counter wraps.
LEMMA Slot ==
  ASSUME NEW c \in 0..(CounterMod - 1), NEW k \in 0..PIPESIZE, NEW j \in Int
  PROVE  (((c + k) % CounterMod) + j) % PIPESIZE = (c + k + j) % PIPESIZE
  <1>1. CounterMod \in Nat /\ PIPESIZE \in Nat /\ CounterMod > PIPESIZE
    BY FilesAssumption
  <1>2. (c + k) % CounterMod = IF c + k < CounterMod THEN c + k ELSE c + k - CounterMod
    BY <1>1, Turn
  <1>3. CASE c + k < CounterMod
    BY <1>2, <1>3
  <1>4. CASE ~(c + k < CounterMod)
    <2>1. ((c + k) % CounterMod) + j = (c + k + j) - CounterMod /\ c + k + j \in Int
      BY <1>1, <1>2, <1>4
    <2>2. ((c + k + j) - CounterMod) % PIPESIZE = (c + k + j) % PIPESIZE
      BY <2>1, Wrapped
    <2> QED
      BY <2>1, <2>2
  <1> QED
    BY <1>3, <1>4

LEMMA TakenStored ==
  ASSUME Types, NEW x \in Page, NEW k \in Nat, k <= Held(x), Held(x) \in 0..PIPESIZE
  PROVE  Stored(Taken(x, k)) = SubSeq(Stored(pipe[x]), k + 1, Len(Stored(pipe[x])))
  <1> DEFINE r == pipe[x].nread  h == Held(x)  t == Stored(Taken(x, k))  s == Stored(pipe[x])
             n == (r + k) % CounterMod
  <1>1. /\ pipe[x] \in PipeType /\ r \in 0..(CounterMod - 1)
        /\ pipe[x].data \in [0..(PIPESIZE - 1) -> Byte \cup {None}]
    BY Zenon DEF Types, PipeType
  <1>2. PIPESIZE \in Nat /\ PIPESIZE > 0
    BY FilesAssumption
  <1>3. HeldIn(Taken(x, k)) = h - k /\ HeldIn(pipe[x]) = h /\ Taken(x, k) \in PipeType
    BY TakenPipe, Zenon DEF HeldIn, Held
  <1>4. t \in Seq(Byte \cup {None}) /\ Len(t) = h - k /\ s \in Seq(Byte \cup {None}) /\ Len(s) = h
    BY <1>1, <1>3, StoredSeq, Zenon
  <1>5. ASSUME NEW i \in 1..(h - k) PROVE t[i] = s[k + i]
    <2> DEFINE j == (r + (k + i) - 1) % PIPESIZE
    <2>1. i \in Int /\ r \in Int /\ k \in 0..PIPESIZE /\ k + i \in 1..h
      BY <1>1, <1>2, <1>5
    <2>2. (n + i - 1) % PIPESIZE = j
      <3>1. n \in Int /\ i - 1 \in Int
        BY <1>1, <2>1, HeldMoves
      <3>2. (n + (i - 1)) % PIPESIZE = (r + k + (i - 1)) % PIPESIZE
        BY <1>1, <2>1, <3>1, Slot, Zenon
      <3> HIDE DEF n, r
      <3>3. n + (i - 1) = n + i - 1 /\ r + k + (i - 1) = r + (k + i) - 1
        BY <2>1, <3>1
      <3> QED
        BY <3>2, <3>3, Zenon
    <2>3. j \in 0..(PIPESIZE - 1)
      BY <2>1, Divided
    <2>4. (j - r) % PIPESIZE = k + i - 1
      <3>1. (j - r) % PIPESIZE = ((r + (k + i) - 1) - r) % PIPESIZE
        <4>1. r + (k + i) - 1 \in Int
          BY <2>1
        <4> QED
          BY <2>1, <4>1, Wrapped, Zenon
      <3>2. (r + (k + i) - 1) - r = k + i - 1 /\ k + i - 1 \in (-PIPESIZE)..(PIPESIZE - 1) /\ k + i - 1 >= 0
        BY <1>2, <2>1
      <3> QED
        BY <3>1, <3>2, Small
    <2>5. t[i] = Taken(x, k).data[(Taken(x, k).nread + i - 1) % PIPESIZE]
      BY <1>3, Zenon DEF Stored
    <2>6. Taken(x, k).nread = n
      BY <1>1, Zenon DEF Taken, PipeType
    <2>7. Taken(x, k).data = [l \in 0..(PIPESIZE - 1) |->
            IF (l - r) % PIPESIZE < k THEN None ELSE pipe[x].data[l]]
      BY <1>1, Zenon DEF Taken, PipeType
    <2> HIDE DEF j, n, t, s
    <2>8. t[i] = Taken(x, k).data[j]
      BY <2>2, <2>5, <2>6, Zenon
    <2>9. ~((j - r) % PIPESIZE < k)
      BY <2>1, <2>4
    <2>10. t[i] = pipe[x].data[j]
      BY <2>3, <2>7, <2>8, <2>9, Zenon
    <2>11. s[k + i] = pipe[x].data[j]
      BY <1>3, <2>1, Zenon DEF Stored, s, j
    <2> QED
      BY <2>10, <2>11, Zenon
  <1> HIDE DEF t, s, h
  <1>6. h \in Nat /\ k <= h
    BY <1>2 DEF h
  <1>7. SubSeq(s, k + 1, Len(s)) \in Seq(Byte \cup {None}) /\ Len(SubSeq(s, k + 1, Len(s))) = h - k
    BY <1>4, <1>6
  <1>8. \A i \in 1..(h - k) : SubSeq(s, k + 1, Len(s))[i] = s[k + i]
    BY <1>4, <1>6
  <1>9. t = SubSeq(s, k + 1, Len(s))
    BY <1>4, <1>5, <1>7, <1>8
  <1> QED
    BY <1>9, Zenon DEF t, s

\* The slot of a byte, counted from where the writer is.
LEMMA Offset ==
  ASSUME NEW r \in 0..(CounterMod - 1), NEW w \in 0..(CounterMod - 1), NEW i \in Int
  PROVE  (((r + i - 1) % PIPESIZE) - w) % PIPESIZE = (i - 1 - ((w - r) % CounterMod)) % PIPESIZE
  <1> DEFINE h == (w - r) % CounterMod
  <1>1. CounterMod \in Nat /\ CounterMod > 0
    BY FilesAssumption
  <1>2. h = IF w - r < 0 THEN w - r + CounterMod ELSE w - r
    BY <1>1, Turn
  <1>3. r + i - 1 \in Int /\ w \in Int
    BY <1>1
  <1>4. (((r + i - 1) % PIPESIZE) - w) % PIPESIZE = ((r + i - 1) - w) % PIPESIZE
    BY <1>3, Wrapped, Zenon
  <1> HIDE DEF h
  <1>5. CASE w - r < 0
    <2>1. (r + i - 1) - w = (i - 1 - h) + CounterMod /\ i - 1 - h \in Int
      BY <1>1, <1>2, <1>5
    <2>2. ((i - 1 - h) + CounterMod) % PIPESIZE = (i - 1 - h) % PIPESIZE
      BY <2>1, Wrapped, Zenon
    <2> QED
      BY <1>4, <2>1, <2>2, Zenon DEF h
  <1>6. CASE ~(w - r < 0)
    <2>1. (r + i - 1) - w = i - 1 - h
      BY <1>1, <1>2, <1>6
    <2> QED
      BY <1>4, <2>1, Zenon DEF h
  <1> QED
    BY <1>5, <1>6, Zenon

LEMMA Appended ==
  ASSUME NEW B, NEW s \in Seq(B), NEW b \in Seq(B), NEW t \in Seq(B), Len(t) = Len(s) + Len(b),
         \A i \in 1..(Len(s) + Len(b)) : t[i] = IF i <= Len(s) THEN s[i] ELSE b[i - Len(s)]
  PROVE  t = s \o b
  <1>1. s \o b \in Seq(B) /\ Len(s \o b) = Len(s) + Len(b)
    OBVIOUS
  <1>2. \A i \in 1..(Len(s) + Len(b)) : (s \o b)[i] = IF i <= Len(s) THEN s[i] ELSE b[i - Len(s)]
    OBVIOUS
  <1> QED
    BY <1>1, <1>2

LEMMA PutStored ==
  ASSUME Types, NEW x \in Page, NEW b \in Seq(Byte), Held(x) \in 0..PIPESIZE, Held(x) + Len(b) <= PIPESIZE
  PROVE  Stored(Put(x, b)) = Stored(pipe[x]) \o b
  <1> DEFINE r == pipe[x].nread  w == pipe[x].nwrite  h == Held(x)  t == Stored(Put(x, b))
             s == Stored(pipe[x])  m == Len(b)
  <1>1. /\ pipe[x] \in PipeType /\ r \in 0..(CounterMod - 1) /\ w \in 0..(CounterMod - 1)
        /\ pipe[x].data \in [0..(PIPESIZE - 1) -> Byte \cup {None}]
    BY Zenon DEF Types, PipeType
  <1>2. PIPESIZE \in Nat /\ PIPESIZE > 0 /\ m \in Nat /\ h \in 0..PIPESIZE
    BY FilesAssumption
  <1>3. HeldIn(Put(x, b)) = h + m /\ HeldIn(pipe[x]) = h /\ Put(x, b) \in PipeType
    BY PutPipe, Zenon DEF HeldIn, Held
  <1>4. t \in Seq(Byte \cup {None}) /\ Len(t) = h + m /\ s \in Seq(Byte \cup {None}) /\ Len(s) = h
    BY <1>1, <1>3, StoredSeq, Zenon
  <1>5. ASSUME NEW i \in 1..(h + m) PROVE t[i] = IF i <= h THEN s[i] ELSE b[i - h]
    <2> DEFINE j == (r + i - 1) % PIPESIZE  g == (j - w) % PIPESIZE
    <2>1. i \in Int /\ r \in Int /\ w \in Int /\ r + i - 1 \in Int
      BY <1>1, <1>2
    <2>2. j \in 0..(PIPESIZE - 1)
      BY <2>1, Divided
    <2>3. g = (i - 1 - h) % PIPESIZE
      BY <1>1, <2>1, Offset, Zenon DEF Held
    <2>4. i - 1 - h \in (-PIPESIZE)..(PIPESIZE - 1)
      BY <1>2, <2>1
    <2>5. g = IF i - 1 - h < 0 THEN i - 1 - h + PIPESIZE ELSE i - 1 - h
      BY <2>3, <2>4, Small
    <2>6. t[i] = Put(x, b).data[(Put(x, b).nread + i - 1) % PIPESIZE]
      BY <1>3, Zenon DEF Stored
    <2>7. Put(x, b).nread = r
      BY <1>1, Zenon DEF Put, PipeType
    <2>8. Put(x, b).data = [l \in 0..(PIPESIZE - 1) |->
            IF (l - w) % PIPESIZE < m THEN b[((l - w) % PIPESIZE) + 1] ELSE pipe[x].data[l]]
      BY <1>1, Zenon DEF Put, PipeType
    <2>9. t[i] = IF g < m THEN b[g + 1] ELSE pipe[x].data[j]
      BY <2>2, <2>6, <2>7, <2>8, Zenon
    <2> HIDE DEF j, g, t, s, h, m
    <2>10. CASE i <= h
      <3>1. ~(g < m)
        BY <1>2, <2>1, <2>5, <2>10 DEF h, m
      <3>2. i \in 1..h
        BY <1>2, <2>10
      <3>3. s[i] = pipe[x].data[j]
        BY <1>3, <3>2, Zenon DEF Stored, s, j, h
      <3> QED
        BY <2>9, <2>10, <3>1, <3>3, Zenon
    <2>11. CASE ~(i <= h)
      <3>1. g < m /\ g + 1 = i - h
        BY <1>2, <2>1, <2>5, <2>11
      <3> QED
        BY <2>9, <2>11, <3>1, Zenon
    <2> QED
      BY <2>10, <2>11, Zenon
  <1> HIDE DEF t, s, h, m
  <1>6. b \in Seq(Byte \cup {None})
    OBVIOUS
  <1>7. t = s \o b
    BY <1>4, <1>5, <1>6, Appended, Zenon DEF m
  <1> QED
    BY <1>7, Zenon DEF t, s

-----------------------------------------------------------------------------
(* Every step on the pipes is a step of ByteStream *)

streamvars == <<Queue, ReadOpen, WriteOpen, got>>
Streams == [Stream!Next]_streamvars

\* A step after which every pipe has its contents and its ends, though perhaps not its lock.
SameStream(x) ==
  /\ Contents(x)' = Contents(x)
  /\ pipe'[x].readopen = pipe[x].readopen /\ pipe'[x].writeopen = pipe[x].writeopen
LEMMA QuietStep ==
  ASSUME \A x \in Page : SameStream(x), got' = got \/ \E p \in Proc : Fresh(p)
  PROVE  Streams
  <1>1. Queue' = Queue /\ ReadOpen' = ReadOpen /\ WriteOpen' = WriteOpen
    BY Zenon DEF SameStream, Queue, ReadOpen, WriteOpen
  <1>2. CASE got' = got
    BY <1>1, <1>2, Zenon DEF Streams, streamvars
  <1>3. CASE \E p \in Proc : Fresh(p)
    BY <1>1, <1>3, Zenon DEF Streams, Stream!Next, Stream!Forget, Fresh, Nothing, None,
       Stream!Nothing
  <1> QED
    BY <1>2, <1>3, Zenon

\* What the abstract state is after one pipe has changed.
LEMMA OnePipe ==
  ASSUME Types, NEW x \in Page, NEW e \in PipeType, pipe' = [pipe EXCEPT ![x] = e]
  PROVE  /\ Queue[x] = Stored(pipe[x]) /\ Queue' = [Queue EXCEPT ![x] = Stored(e)]
         /\ \A y \in Page : y # x => SameStream(y)
         /\ Contents(x)' = Stored(e) /\ Contents(x) = Stored(pipe[x])
         /\ pipe'[x] = e /\ \A y \in Page : y # x => pipe'[y] = pipe[y]
  <1>1. pipe'[x] = e /\ \A y \in Page : y # x => pipe'[y] = pipe[y]
    BY Zenon DEF Types
  <1>2. \A y : Contents(y) = Stored(pipe[y]) /\ Contents(y)' = Stored(pipe'[y])
    BY Zenon DEF Contents, Stored, Held, HeldIn
  <1>3. \A y \in Page : y # x => SameStream(y)
    BY <1>1, <1>2, Zenon DEF SameStream
  <1>4. Queue = [y \in Page |-> Contents(y)] /\ Queue' = [y \in Page |-> Contents(y)']
    BY Zenon DEF Queue
  <1>5. Queue' = [Queue EXCEPT ![x] = Stored(e)]
    <2>1. \A y \in Page : Contents(y)' = IF y = x THEN Stored(e) ELSE Queue[y]
      <3>1. \A y \in Page : Queue[y] = Contents(y)
        BY <1>4, Zenon
      <3>2. Contents(x)' = Stored(e)
        BY <1>1, <1>2, Zenon
      <3>3. \A y \in Page : y # x => Contents(y)' = Contents(y)
        BY <1>3, Zenon DEF SameStream
      <3> QED
        BY <3>1, <3>2, <3>3, Zenon
    <2>2. Queue' = [y \in Page |-> IF y = x THEN Stored(e) ELSE Queue[y]]
      BY <1>4, <2>1, Zenon
    <2> QED
      BY <1>4, <2>2
  <1> QED
    BY <1>1, <1>2, <1>3, <1>5, Zenon DEF Queue

\* Bytes, counters and flags are all that matters of a pipe.
Matters(e, d) ==
  /\ e.nread = d.nread /\ e.nwrite = d.nwrite /\ e.data = d.data
  /\ e.readopen = d.readopen /\ e.writeopen = d.writeopen
LEMMA LockStep ==
  ASSUME Types, NEW x \in Page, NEW e \in PipeType, pipe' = [pipe EXCEPT ![x] = e],
         Matters(e, pipe[x]), UNCHANGED got
  PROVE  Streams
  <1>1. Stored(e) = Stored(pipe[x])
    BY Zenon DEF Matters, Stored, HeldIn
  <1>2. SameStream(x)
    BY <1>1, OnePipe, Zenon DEF SameStream, Matters
  <1>3. \A y \in Page : SameStream(y)
    BY <1>2, OnePipe, Zenon
  <1> QED
    BY <1>3, QuietStep, Zenon

LEMMA StillStep ==
  ASSUME UNCHANGED pipe, got' = got \/ \E p \in Proc : Fresh(p)
  PROVE  Streams
  <1>1. \A x \in Page : SameStream(x)
    BY Zenon DEF SameStream, Contents, Held
  <1> QED
    BY <1>1, QuietStep, Zenon

\* Both ends of the empty pipe that pipealloc() found open.
LEMMA FreeEmpty ==
  /\ Stored(Free) = <<>> /\ Stored(Opened) = <<>>
  /\ ~Free.readopen /\ ~Free.writeopen /\ Opened.readopen /\ Opened.writeopen
  <1>1. /\ Free.nread = 0 /\ Free.nwrite = 0 /\ Opened.nread = 0 /\ Opened.nwrite = 0
        /\ ~Free.readopen /\ ~Free.writeopen /\ Opened.readopen /\ Opened.writeopen
    BY Zenon DEF Free, Opened
  <1>2. (0 - 0) % CounterMod = 0
    BY FilesAssumption
  <1>3. \A e : e.nread = 0 /\ e.nwrite = 0 => HeldIn(e) = 0
    BY <1>2, Zenon DEF HeldIn
  <1>4. \A e : HeldIn(e) = 0 => Stored(e) = <<>>
    BY DEF Stored
  <1> QED
    BY <1>1, <1>3, <1>4, Zenon

LEMMA AllocStep ==
  ASSUME IInv, NEW x \in kalloc, pipe' = [pipe EXCEPT ![x] = Opened], UNCHANGED got
  PROVE  Streams
  <1>1. x \in Page /\ pipe[x] = Free
    BY Zenon DEF kalloc, IInv, EndInv, Flags
  <1>2. Opened \in PipeType /\ Types
    <2>1. Types /\ pipe[x] \in PipeType
      BY <1>1, Zenon DEF IInv, Types
    <2> QED
      BY <1>1, <2>1, Zenon DEF PipeType, Opened
  <1>3. ~Free.readopen /\ ~Free.writeopen /\ Opened.readopen /\ Opened.writeopen
    BY FreeEmpty, Zenon
  <1>4. Stored(Opened) = Stored(pipe[x])
    BY <1>1, FreeEmpty, Zenon
  <1>5. Queue' = Queue
    <2>1. Queue' = [Queue EXCEPT ![x] = Queue[x]]
      BY <1>1, <1>2, <1>4, OnePipe, Zenon
    <2> QED
      BY <2>1, Zenon DEF Queue
  <1>6. /\ pipe'[x] = Opened /\ \A y \in Page : y # x => pipe'[y] = pipe[y]
    BY <1>1, <1>2, OnePipe, Zenon
  <1>7. x \notin ReadOpen \cup WriteOpen
    BY <1>1, <1>3, Zenon DEF ReadOpen, WriteOpen
  <1>8. ReadOpen' = ReadOpen \cup {x} /\ WriteOpen' = WriteOpen \cup {x}
    BY <1>1, <1>3, <1>6, Zenon DEF ReadOpen, WriteOpen
  <1>9. Stream!Open(x)
    BY <1>5, <1>7, <1>8, Zenon DEF Stream!Open
  <1> QED
    BY <1>1, <1>9, Zenon DEF Streams, Stream!Next

\* What piperead() takes is the front of the stream.
LEMMA ReadStep ==
  ASSUME IInv, NEW p \in Proc, NEW x, x = io[p].pipe, NEW n, n = io[p].n, NEW k, k = Least(n, Held(x)),
         pc[p] = "read", ~ReadWaits(x), pipe' = [pipe EXCEPT ![x] = Taken(x, k)],
         got' = [got EXCEPT ![p] = Returned(x, n)]
  PROVE  Streams
  <1> DEFINE s == Stored(pipe[x])
  <1>1. x \in Page /\ pipe[x].readopen
    BY WorkerHasPipe, Zenon DEF Working, Reading
  <1>2. Types /\ pipe[x] \in PipeType /\ Held(x) \in 0..PIPESIZE /\ n \in Nat
    BY <1>1, Zenon DEF IInv, Types, PipeInv, HeldInv, IoType
  <1>3. k \in Nat /\ k <= Held(x) /\ (k = 0 => n = 0 \/ Held(x) = 0)
    BY <1>2, FilesAssumption DEF Least
  <1>4. Taken(x, k) \in PipeType /\ AsBefore(Taken(x, k), pipe[x])
    BY <1>1, <1>2, <1>3, TakenPipe, Zenon
  <1>5. Stored(Taken(x, k)) = SubSeq(s, k + 1, Len(s))
    BY <1>1, <1>2, <1>3, TakenStored, Zenon
  <1>6. s \in Seq(Byte \cup {None}) /\ Len(s) = Held(x) /\ s = Queue[x] /\ s = Contents(x)
    BY <1>1, <1>2, <1>4, StoredSeq, OnePipe, Zenon DEF HeldIn, Held
  <1>7. Queue' = [Queue EXCEPT ![x] = SubSeq(s, k + 1, Len(s))]
    <2>1. Queue' = [Queue EXCEPT ![x] = Stored(Taken(x, k))]
      BY <1>1, <1>2, <1>4, OnePipe, Zenon
    <2> QED
      BY <1>5, <2>1, Zenon
  <1>8. ReadOpen' = ReadOpen /\ WriteOpen' = WriteOpen
    <2>1. pipe'[x] = Taken(x, k) /\ \A y \in Page : y # x => pipe'[y] = pipe[y]
      BY <1>1, <1>2, <1>4, OnePipe, Zenon
    <2>2. \A y \in Page : /\ pipe'[y].readopen = pipe[y].readopen
                        /\ pipe'[y].writeopen = pipe[y].writeopen
      BY <1>4, <2>1, Zenon DEF AsBefore
    <2> QED
      BY <2>2, Zenon DEF ReadOpen, WriteOpen
  <1> HIDE DEF s
  <1>9. CASE n = 0
    <2>1. k = 0
      BY <1>2, <1>9, FilesAssumption DEF Least
    <2>2. SubSeq(s, k + 1, Len(s)) = s
      BY <1>6, <2>1
    <2>3. Queue' = Queue
      BY <1>1, <1>6, <1>7, <2>2, Zenon DEF Queue
    <2> QED
      BY <1>8, <1>9, <2>3, Zenon DEF Streams, Stream!Next, Stream!Forget, Returned, Nothing, None,
         Stream!Nothing
  <1>10. CASE n # 0
    <2>1. got' = [got EXCEPT ![p] = [pipe |-> x, bytes |-> SubSeq(Queue[x], 1, k)]]
      BY <1>6, <1>10, Zenon DEF Returned
    <2>2. k \in 0..Len(Queue[x])
      BY <1>2, <1>3, <1>6
    <2>3. Queue' = [Queue EXCEPT ![x] = SubSeq(@, k + 1, Len(@))]
      BY <1>6, <1>7, Zenon
    <2>4. k = 0 => x \notin WriteOpen /\ Queue[x] = <<>>
      <3>1. k = 0 => Held(x) = 0
        BY <1>3, <1>10, Zenon
      <3>2. Held(x) = 0 => s = <<>>
        BY <1>6
      <3> QED
        BY <1>6, <3>1, <3>2, Zenon DEF ReadWaits, WriteOpen
    <2>5. x \in ReadOpen
      BY <1>1, Zenon DEF ReadOpen
    <2>6. Stream!Read(x)
      BY <1>8, <2>1, <2>2, <2>3, <2>4, <2>5, Zenon DEF Stream!Read
    <2> QED
      BY <1>1, <2>6, Zenon DEF Streams, Stream!Next
  <1> QED
    BY <1>9, <1>10, Zenon

\* What pipewrite() stores goes to the end of it.
LEMMA WriteStep ==
  ASSUME IInv, NEW p \in Proc, NEW x, x = io[p].pipe, pc[p] = "write", NEW b \in Seq(Byte),
         Held(x) + Len(b) <= PIPESIZE,
         NEW e \in PipeType, Matters(e, Put(x, b)), pipe' = [pipe EXCEPT ![x] = e], UNCHANGED got
  PROVE  Streams
  <1> DEFINE s == Stored(pipe[x])
  <1>1. x \in Page /\ pipe[x].writeopen
    BY WorkerHasPipe, Zenon DEF Working, Writing
  <1>2. Types /\ pipe[x] \in PipeType /\ Held(x) \in 0..PIPESIZE
    BY <1>1, Zenon DEF IInv, Types, PipeInv, HeldInv
  <1>3. AsBefore(Put(x, b), pipe[x])
    BY <1>1, <1>2, PutPipe, Zenon
  <1>4. Stored(e) = s \o b
    <2>1. Stored(e) = Stored(Put(x, b))
      BY Zenon DEF Matters, Stored, HeldIn
    <2> QED
      BY <1>1, <1>2, <2>1, PutStored, Zenon
  <1>5. s \in Seq(Byte \cup {None}) /\ Len(s) = Held(x) /\ s = Queue[x]
    BY <1>1, <1>2, StoredSeq, OnePipe, Zenon DEF HeldIn, Held
  <1>6. Queue' = [Queue EXCEPT ![x] = @ \o b]
    <2>1. Queue' = [Queue EXCEPT ![x] = Stored(e)]
      BY <1>1, <1>2, OnePipe, Zenon
    <2> QED
      BY <1>4, <1>5, <2>1, Zenon
  <1>7. ReadOpen' = ReadOpen /\ WriteOpen' = WriteOpen
    <2>1. pipe'[x] = e /\ \A y \in Page : y # x => pipe'[y] = pipe[y]
      BY <1>1, <1>2, OnePipe, Zenon
    <2>2. \A y \in Page : /\ pipe'[y].readopen = pipe[y].readopen
                        /\ pipe'[y].writeopen = pipe[y].writeopen
      BY <1>3, <2>1, Zenon DEF AsBefore, Matters
    <2> QED
      BY <2>2, Zenon DEF ReadOpen, WriteOpen
  <1> HIDE DEF s
  <1>8. CASE Len(b) = 0
    <2>1. s \o b = s
      BY <1>5, <1>8
    <2>2. Queue' = Queue
      BY <1>1, <1>5, <1>6, <2>1, Zenon DEF Queue
    <2> QED
      BY <1>7, <2>2, Zenon DEF Streams, streamvars
  <1>9. CASE Len(b) # 0
    <2>1. Len(b) \in 1..PIPESIZE /\ b \in [1..Len(b) -> Byte] /\ Len(Queue[x]) + Len(b) <= PIPESIZE
      BY <1>2, <1>5, <1>9, FilesAssumption
    <2>2. x \in WriteOpen
      BY <1>1, Zenon DEF WriteOpen
    <2>3. Stream!Write(x)
      BY <1>6, <1>7, <2>1, <2>2, Zenon DEF Stream!Write
    <2> QED
      BY <1>1, <2>3, Zenon DEF Streams, Stream!Next
  <1> QED
    BY <1>8, <1>9, Zenon

\* pipeclose() closes an end that was open, and empties the pipe with the second one.
LEMMA CloseStep ==
  ASSUME IInv, NEW p \in Proc, NEW x, x = ff[p].pipe, NEW w, w = ff[p].writable,
         NEW d, d = EndClosed(pipe[x], w), NEW e, e = IF d.readopen \/ d.writeopen THEN d ELSE Free,
         ff[p].type = "FD_PIPE", pipe' = [pipe EXCEPT ![x] = e], UNCHANGED got
  PROVE  Streams
  <1>1. x \in Page /\ w \in BOOLEAN /\ IsEnd(ff[p], x, w)
    BY Zenon DEF IInv, FileInv, PipeSound, Types, FileType, IsEnd
  <1>2. Types /\ pipe \in [Page -> PipeType] /\ pipe[x] \in PipeType /\ Flags(x)
    BY <1>1, Zenon DEF IInv, EndInv, Types
  <1>3. (w => pipe[x].writeopen) /\ (~w => pipe[x].readopen)
    BY <1>1, <1>2, Zenon DEF Flags, Ends
  <1>4. /\ d.nread = pipe[x].nread /\ d.nwrite = pipe[x].nwrite /\ d.data = pipe[x].data
        /\ d.readopen = (pipe[x].readopen /\ w) /\ d.writeopen = (pipe[x].writeopen /\ ~w)
    BY <1>1, <1>2, Zenon DEF EndClosed, PipeType
  <1>5. pipe'[x] = e /\ \A y \in Page : y # x => pipe'[y] = pipe[y]
    BY <1>1, <1>2, Zenon
  <1>6. pipe'[x].readopen = (pipe[x].readopen /\ w) /\ pipe'[x].writeopen = (pipe[x].writeopen /\ ~w)
    <2>1. CASE d.readopen \/ d.writeopen
      <3>1. e = d
        BY <2>1, Zenon
      <3> QED
        BY <1>4, <1>5, <3>1, Zenon
    <2>2. CASE ~(d.readopen \/ d.writeopen)
      <3>1. e.readopen = FALSE /\ e.writeopen = FALSE
        BY <2>2, Zenon DEF Free
      <3>2. (pipe[x].readopen /\ w) = FALSE /\ (pipe[x].writeopen /\ ~w) = FALSE
        BY <1>4, <2>2, Zenon
      <3> QED
        BY <1>5, <3>1, <3>2, Zenon
    <2> QED
      BY <2>1, <2>2, Zenon
  <1>7. \/ x \in WriteOpen /\ WriteOpen' = WriteOpen \ {x} /\ ReadOpen' = ReadOpen
        \/ x \in ReadOpen /\ ReadOpen' = ReadOpen \ {x} /\ WriteOpen' = WriteOpen
    BY <1>1, <1>3, <1>5, <1>6, Zenon DEF ReadOpen, WriteOpen
  <1>8. \A y : Contents(y) = Stored(pipe[y]) /\ Contents(y)' = Stored(pipe'[y])
    BY Zenon DEF Contents, Stored, Held, HeldIn
  <1>9. Queue' = IF x \in ReadOpen' \cup WriteOpen' THEN Queue ELSE [Queue EXCEPT ![x] = <<>>]
    <2>1. CASE d.readopen \/ d.writeopen
      <3>1. Stored(e) = Stored(pipe[x])
        BY <1>4, <2>1, Zenon DEF Stored, HeldIn
      <3>2. \A y \in Page : Contents(y)' = Contents(y)
        BY <1>5, <1>8, <3>1, Zenon
      <3>3. x \in ReadOpen' \cup WriteOpen'
        BY <1>1, <1>4, <1>6, <2>1, Zenon DEF ReadOpen, WriteOpen
      <3> QED
        BY <3>2, <3>3, Zenon DEF Queue
    <2>2. CASE ~(d.readopen \/ d.writeopen)
      <3>1. Contents(x)' = <<>>
        BY <1>5, <1>8, <2>2, FreeEmpty, Zenon
      <3>2. \A y \in Page : y # x => Contents(y)' = Contents(y)
        BY <1>5, <1>8, Zenon
      <3>3. x \notin ReadOpen' \cup WriteOpen'
        BY <1>4, <1>6, <2>2, Zenon DEF ReadOpen, WriteOpen
      <3>4. Queue' = [Queue EXCEPT ![x] = <<>>]
        <4>1. \A y \in Page : Queue[y] = Contents(y)
          BY Zenon DEF Queue
        <4>2. \A y \in Page : Contents(y)' = IF y = x THEN <<>> ELSE Queue[y]
          BY <3>1, <3>2, <4>1, Zenon
        <4>3. Queue' = [y \in Page |-> IF y = x THEN <<>> ELSE Queue[y]]
          BY <4>2, Zenon DEF Queue
        <4>4. Queue = [y \in Page |-> Queue[y]]
          BY Zenon DEF Queue
        <4> QED
          BY <4>3, <4>4
      <3> QED
        BY <3>3, <3>4, Zenon
    <2> QED
      BY <2>1, <2>2, Zenon
  <1>10. Stream!Close(x)
    BY <1>7, <1>9, Zenon DEF Stream!Close
  <1> QED
    BY <1>1, <1>10, Zenon DEF Streams, Stream!Next

LEMMA PipereadStreams ==
  ASSUME IInv, NEW p \in Proc, piperead(p)
  PROVE  Streams
  <1> DEFINE x == io[p].pipe
  <1>1. CASE pipe' = [pipe EXCEPT ![x].lock = p] /\ got' = got
    <2>1. pc[p] \in Working
      BY Zenon DEF piperead, Working, Reading
    <2>2. x \in Page /\ Types /\ pipe \in [Page -> PipeType]
      BY <2>1, WorkerHasPipe, Zenon DEF IInv, Types
    <2> DEFINE e == [pipe[x] EXCEPT !.lock = p]
    <2>3. e \in PipeType /\ Matters(e, pipe[x])
      BY <2>2, Zenon DEF PipeType, Matters
    <2>4. pipe' = [pipe EXCEPT ![x] = e]
      BY <1>1, Zenon
    <2> HIDE DEF e, x
    <2> QED
      BY <1>1, <2>2, <2>3, <2>4, LockStep, Zenon
  <1>2. CASE UNCHANGED <<pipe, got>>
    BY <1>2, StillStep, Zenon
  <1>3. CASE ~ReadWaits(x) /\ got' = [got EXCEPT ![p] = Returned(x, io[p].n)]
             /\ pipe' = [pipe EXCEPT ![x] = Taken(x, Least(io[p].n, Held(x)))]
    BY <1>3, ReadStep, Zenon DEF piperead
  <1> QED
    BY <1>1, <1>2, <1>3, Zenon DEF piperead

LEMMA PipewriteStreams ==
  ASSUME IInv, NEW p \in Proc, NEW x, x = io[p].pipe, pipewrite(p)
  PROVE  Streams
  <1> DEFINE b == io[p].bytes
             k == Least(Len(b), Room(x))
             s == SubSeq(b, 1, k)
             rest == SubSeq(b, k + 1, Len(b))
             after == Put(x, s)
             e == IF rest = <<>> \/ ~pipe[x].readopen \/ p \in killed
                  THEN [after EXCEPT !.left = (rest # <<>>)]
                  ELSE [after EXCEPT !.lock = p, !.left = FALSE]
  <1>1. pc[p] = "write" /\ pc[p] \in Working /\ UNCHANGED got
    BY Zenon DEF pipewrite, Working, Writing
  <1>2. x \in Page /\ Types /\ io[p] \in IoType /\ Held(x) \in 0..PIPESIZE
    BY <1>1, WorkerHasPipe, Zenon DEF IInv, Types, PipeInv, HeldInv
  <1>3. b \in Seq(Byte) /\ Len(b) \in Nat
    BY <1>2 DEF IoType
  <1>4. k \in 0..Len(b) /\ Held(x) + k <= PIPESIZE
    <2> DEFINE n == Len(b)
    <2>1. n \in Nat
      BY <1>3, Zenon
    <2> HIDE DEF n, b
    <2> QED
      BY <1>2, <2>1, FilesAssumption DEF Least, Room, n
  <1>5. pipe' = [pipe EXCEPT ![x] = e]
    BY Zenon DEF pipewrite
  <1>6. s \in Seq(Byte) /\ Len(s) = k
    <2> HIDE DEF b, k
    <2> QED
      BY <1>3, <1>4, Cut, Zenon
  <1> HIDE DEF b, k, s, rest
  <1>7. after \in PipeType
    BY <1>2, <1>4, <1>6, PutPipe, Zenon
  <1>8. e \in PipeType /\ Matters(e, after)
    <2> HIDE DEF after
    <2>1. CASE e = [after EXCEPT !.left = (rest # <<>>)]
      <3> HIDE DEF e
      <3> QED
        BY <1>7, <2>1, Zenon DEF PipeType, Matters
    <2>2. CASE e = [after EXCEPT !.lock = p, !.left = FALSE]
      <3> HIDE DEF e
      <3> QED
        BY <1>7, <2>2, Zenon DEF PipeType, Matters
    <2> QED
      BY <2>1, <2>2, Zenon
  <1> HIDE DEF e
  <1> QED
    BY <1>1, <1>4, <1>5, <1>6, <1>8, WriteStep, Zenon

LEMMA SleepStreams ==
  ASSUME IInv, NEW p \in Proc, sleep(p)
  PROVE  Streams
  <1> DEFINE x == io[p].pipe
             e == [pipe[x] EXCEPT !.lock = None]
  <1>1. pc[p] \in Working /\ pipe' = [pipe EXCEPT ![x] = e] /\ UNCHANGED got
    BY Zenon DEF sleep, Working, Reading, Writing
  <1>2. x \in Page /\ Types /\ pipe \in [Page -> PipeType]
    BY <1>1, WorkerHasPipe, Zenon DEF IInv, Types
  <1>3. e \in PipeType /\ Matters(e, pipe[x])
    BY <1>2, Zenon DEF PipeType, Matters
  <1> HIDE DEF e, x
  <1> QED
    BY <1>1, <1>2, <1>3, LockStep, Zenon

LEMMA KernelStreams ==
  ASSUME IInv, NEW p \in Proc, Kernel(p)
  PROVE  Streams
  <1>1. CASE sys_pipe_rest(p)
    <2>1. UNCHANGED got
      BY <1>1, Zenon DEF sys_pipe_rest
    <2>2. CASE UNCHANGED pipe
      BY <2>1, <2>2, StillStep, Zenon
    <2>3. CASE \E x \in kalloc : pipe' = [pipe EXCEPT ![x] = Opened]
      BY <2>1, <2>3, AllocStep, Zenon
    <2> QED
      BY <1>1, <2>2, <2>3, Zenon DEF sys_pipe_rest, NoFile, NoPage, pipealloc
  <1>2. CASE fileclose(p) \/ closeinode(p) \/ exit_rest(p)
    BY <1>2, StillStep, Zenon DEF fileclose, closeinode, exit_rest
  <1>3. CASE pipeclose(p)
    BY <1>3, CloseStep, Zenon DEF pipeclose
  <1> QED
    BY <1>1, <1>2, <1>3, PipereadStreams, PipewriteStreams, SleepStreams, Zenon DEF Kernel

LEMMA CallStreams ==
  ASSUME NEW p \in Proc, SysCall(p) \/ exit(p) \/ kill(p)
  PROVE  Streams
  <1>1. CASE kill(p)
    BY <1>1, StillStep, Zenon DEF kill
  <1>2. CASE exit(p) \/ sys_open(p) \/ sys_pipe(p) \/ wait(p)
    BY <1>2, StillStep, Zenon DEF exit, sys_open, sys_pipe, wait
  <1>3. CASE \E fd \in Fd : \/ sys_dup(p, fd) \/ sys_close(p, fd)
                            \/ \E n \in Nat : sys_read(p, fd, n)
                            \/ \E s \in Seq(Byte) : sys_write(p, fd, s)
    BY <1>3, StillStep, Zenon DEF sys_dup, sys_close, sys_read, sys_write, StartIo
  <1>4. CASE \E c \in Unused : fork(p, c)
    BY <1>4, StillStep, Zenon DEF fork
  <1> QED
    BY <1>1, <1>2, <1>3, <1>4, Zenon DEF SysCall

\* Every step is a step of ByteStream, or leaves its variables as they are.
LEMMA StepStreams ==
  ASSUME IInv, [FilesNext]_filesvars
  PROVE  Streams
  <1>1. CASE UNCHANGED filesvars
    BY <1>1, StillStep, Zenon DEF filesvars
  <1>2. CASE FilesNext
    BY <1>2, KernelStreams, CallStreams, Zenon DEF FilesNext
  <1> QED
    BY <1>1, <1>2, Zenon

LEMMA InitStreams ==
  ASSUME FilesInit
  PROVE  Stream!Init
  <1>1. \A x \in Page : pipe[x] = Free /\ Contents(x) = Stored(pipe[x])
    BY Zenon DEF FilesInit, Contents, Stored, Held, HeldIn
  <1>2. Queue = [x \in Page |-> <<>>] /\ ReadOpen = {} /\ WriteOpen = {}
    <2>1. \A x \in Page : Contents(x) = <<>> /\ ~pipe[x].readopen /\ ~pipe[x].writeopen
      BY <1>1, FreeEmpty, Zenon
    <2> QED
      BY <2>1, Zenon DEF Queue, ReadOpen, WriteOpen
  <1> QED
    BY <1>2, Zenon DEF FilesInit, Stream!Init, Nothing, None, Stream!Nothing

=============================================================================
