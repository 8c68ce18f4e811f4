----------------------------- MODULE FilesTable -----------------------------
(***************************************************************************)
(* The invariant of descriptors, file table and pipes, and why the calls   *)
(* that count references keep it.  It says who refers to which file, which *)
(* file is which end of which pipe, who works on a pipe and why a sleeper  *)
(* sleeps.  There is one lemma per system call or step of one.             *)
(***************************************************************************)
EXTENDS Files, TLAPS

\* o2 is o with v written in one entry, or with one row copied to another.
Sets(A, o, p, a, v, o2) ==
  \A q \in Proc, b \in A : o2[q][b] = IF q = p /\ b = a THEN v ELSE o[q][b]
Copies(A, o, p, c, o2) == \A q \in Proc, b \in A : o2[q][b] = IF q = c THEN o[p][b] ELSE o[q][b]
One(v, f) == IF v = f THEN 1 ELSE 0

\* The laws of counting that the steps rely on, in ofile and in todo, in one process's
\* descriptors, and for sets of files and of processes.  (FilesProofs proves them.)
Tables == {Fd, {1, 2}}
ZeroLaw ==
  \A A \in Tables : \A o, f :
    RefsIn(A, o, f) \in Nat /\ (RefsIn(A, o, f) = 0 <=> \A p \in Proc, a \in A : o[p][a] # f)
SetLaw ==
  \A A \in Tables : \A o, o2, v, f : \A p \in Proc, a \in A :
    Sets(A, o, p, a, v, o2) => RefsIn(A, o2, f) = RefsIn(A, o, f) - One(o[p][a], f) + One(v, f)
CopyLaw ==
  \A o, o2, f : \A p, c \in Proc :
    p # c /\ (\A a \in Fd : o[c][a] # f) /\ Copies(Fd, o, p, c, o2) =>
      RefsIn(Fd, o2, f) = RefsIn(Fd, o, f) + Refs(o[p], f)
RowLaw == \A o, f : Refs(o, f) \in Nat /\ ((\A fd \in Fd : o[fd] # f) => Refs(o, f) = 0)
SizeLaw ==
  \A S : S \in SUBSET File \/ S \in SUBSET Proc =>
    /\ Cardinality(S) \in Nat
    /\ \A x : /\ x \in S => Cardinality(S \ {x}) = Cardinality(S) - 1
              /\ x \notin S => Cardinality(S \cup {x}) = Cardinality(S) + 1
Counting == ZeroLaw /\ SetLaw /\ CopyLaw /\ RowLaw /\ SizeLaw

LEMMA TablesOf ==
  Fd \in Tables /\ {1, 2} \in Tables
  BY Zenon DEF Tables

LEMMA RefsNat ==
  ASSUME Counting, NEW A \in Tables, NEW o, NEW f
  PROVE  RefsIn(A, o, f) \in Nat
  BY Zenon DEF Counting, ZeroLaw

LEMMA RefsZero ==
  ASSUME Counting, NEW A \in Tables, NEW o, NEW f
  PROVE  RefsIn(A, o, f) = 0 <=> \A p \in Proc, a \in A : o[p][a] # f
  BY Zenon DEF Counting, ZeroLaw

LEMMA RefsSet ==
  ASSUME Counting, NEW A \in Tables, NEW o, NEW p \in Proc, NEW a \in A, NEW v, NEW f, NEW o2,
         Sets(A, o, p, a, v, o2)
  PROVE  RefsIn(A, o2, f) = RefsIn(A, o, f) - One(o[p][a], f) + One(v, f)
  <1>1. \A u, u2, w, g : \A q \in Proc, b \in A :
          Sets(A, u, q, b, w, u2) => RefsIn(A, u2, g) = RefsIn(A, u, g) - One(u[q][b], g) + One(w, g)
    BY Zenon DEF Counting, SetLaw
  <1>2. \A u2, w, g : \A q \in Proc, b \in A :
          Sets(A, o, q, b, w, u2) => RefsIn(A, u2, g) = RefsIn(A, o, g) - One(o[q][b], g) + One(w, g)
    BY <1>1, Zenon
  <1>3. \A w, g : \A q \in Proc, b \in A :
          Sets(A, o, q, b, w, o2) => RefsIn(A, o2, g) = RefsIn(A, o, g) - One(o[q][b], g) + One(w, g)
    BY <1>2, Zenon
  <1>4. \A q \in Proc, b \in A :
          Sets(A, o, q, b, v, o2) => RefsIn(A, o2, f) = RefsIn(A, o, f) - One(o[q][b], f) + One(v, f)
    BY <1>3, Zenon
  <1> QED
    BY <1>4, Zenon

LEMMA RefsCopy ==
  ASSUME Counting, NEW o, NEW p \in Proc, NEW c \in Proc, p # c, NEW f, NEW o2,
         \A a \in Fd : o[c][a] # f, Copies(Fd, o, p, c, o2)
  PROVE  RefsIn(Fd, o2, f) = RefsIn(Fd, o, f) + Refs(o[p], f) /\ Refs(o[p], f) \in Nat
  BY Zenon DEF Counting, CopyLaw, RowLaw

-----------------------------------------------------------------------------
(* The inductive invariant *)

Reading == {"read", "read-sleep", "read-asleep"}
Writing == {"write", "write-sleep", "write-asleep"}
Working == Reading \cup Writing
Locking == {"read-sleep", "write-sleep"}
Sleeping == Locking \cup {"read-asleep", "write-asleep"}

FileType == [ref : Nat, type : {"FD_NONE", "FD_PIPE", "FD_INODE"}, pipe : Page \cup {None},
             readable : BOOLEAN, writable : BOOLEAN]
PipeType == [used : BOOLEAN, data : [0..(PIPESIZE - 1) -> Byte \cup {None}],
             nread : 0..(CounterMod - 1), nwrite : 0..(CounterMod - 1),
             readopen : BOOLEAN, writeopen : BOOLEAN, lock : Proc \cup {None}, left : BOOLEAN]
IoType == [pipe : Page \cup {None}, n : Nat, bytes : Seq(Byte)]
Label == {"unused", "user", "pipe", "close", "last", "exit", "zombie"} \cup Working

Types ==
  /\ pc \in [Proc -> Label]
  /\ killed \subseteq Proc /\ exiting \subseteq Proc
  /\ ofile \in [Proc -> [Fd -> File \cup {None}]]
  /\ ftable \in [File -> FileType]
  /\ pipe \in [Page -> PipeType]
  /\ todo \in [Proc -> [{1, 2} -> File \cup {None}]]
  /\ ff \in [Proc -> FileType]
  /\ io \in [Proc -> IoType]

\* Where a process has files to close, a copy of one, or descriptors.
Local(p) ==
  /\ pc[p] \notin {"pipe", "close", "last"} \/ p \in exiting => todo[p] = NoFiles
  /\ pc[p] = "pipe" => todo[p][1] # None /\ todo[p][2] = None
  /\ pc[p] # "last" => ff[p] = Closed
  /\ p \in exiting => pc[p] \in {"close", "last", "exit", "zombie"}
  /\ pc[p] \in {"unused", "exit", "zombie"} => Open(ofile[p]) = {}
LocalInv == \A p \in Proc : Local(p)

\* What a free entry, the first entry of a pipe() under way and the end of a pipe look like.
PipeSound(e) == e.type = "FD_PIPE" => e.pipe \in Page /\ e.readable = ~e.writable
FileInv ==
  /\ \A f \in File : ftable[f].ref = 0 => ftable[f] = Closed
  /\ \A p \in Proc : pc[p] = "pipe" =>
       ftable[todo[p][1]].ref = 1 /\ ftable[todo[p][1]].type = "FD_NONE"
  /\ \A f \in File : PipeSound(ftable[f])
  /\ \A p \in Proc : PipeSound(ff[p])

\* An end of a pipe has one file, in the table or on its way out, and is open while it has.
IsEnd(e, x, w) == e.type = "FD_PIPE" /\ e.pipe = x /\ e.writable = w
Ends(x, w) == \/ \E f \in File : IsEnd(ftable[f], x, w)
              \/ \E p \in Proc : IsEnd(ff[p], x, w)
OneEnd(x, w) ==
  /\ \A f, g \in File : IsEnd(ftable[f], x, w) /\ IsEnd(ftable[g], x, w) => f = g
  /\ \A f \in File, p \in Proc : ~(IsEnd(ftable[f], x, w) /\ IsEnd(ff[p], x, w))
  /\ \A p, q \in Proc : IsEnd(ff[p], x, w) /\ IsEnd(ff[q], x, w) => p = q
Flags(x) ==
  /\ pipe[x].writeopen = Ends(x, TRUE)
  /\ pipe[x].readopen = Ends(x, FALSE)
  /\ pipe[x].used = (pipe[x].readopen \/ pipe[x].writeopen)
  /\ ~pipe[x].used => pipe[x] = Free
EndInv == \A x \in Page : OneEnd(x, TRUE) /\ OneEnd(x, FALSE) /\ Flags(x)

\* Who reads or writes a pipe has a descriptor for the end of it.
Works(p) ==
  /\ pc[p] \notin Working => io[p] = Idle
  /\ pc[p] \in Working => \E fd \in Fd : /\ ofile[p][fd] # None
                                         /\ IsEnd(ftable[ofile[p][fd]], io[p].pipe, pc[p] \in Writing)
IoInv == \A p \in Proc : Works(p)

\* The lock of a pipe is held between a test and the sleep() it leads to.
LockInv ==
  /\ \A x \in Page : pipe[x].lock # None =>
       pc[pipe[x].lock] \in Locking /\ io[pipe[x].lock].pipe = x
  /\ \A p \in Proc : pc[p] \in Locking => pipe[io[p].pipe].lock = p

\* Who sleeps, or is about to, has a reason.
SleepInv ==
  \A p \in Proc :
    /\ pc[p] = "read-sleep" => pipe[io[p].pipe].writeopen /\ Held(io[p].pipe) = 0
    /\ pc[p] = "read-asleep" => /\ pipe[io[p].pipe].writeopen
                                /\ Held(io[p].pipe) = 0 \/ pipe[io[p].pipe].left
    /\ pc[p] \in {"write-sleep", "write-asleep"} =>
         /\ pipe[io[p].pipe].readopen /\ Held(io[p].pipe) = PIPESIZE
         /\ \A q \in Proc : ~(pc[q] = "read-asleep" /\ io[q].pipe = io[p].pipe)

HeldInv == \A x \in Page : Held(x) \in 0..PIPESIZE

\* InodeRefs without its conditions, which LocalInv and FileInv make superfluous.
InodeFiles == {f \in File : ftable[f].type = "FD_INODE"}
InodeCopies == {p \in Proc : ff[p].type = "FD_INODE"}
IrefInv == iref = Cardinality(InodeFiles) + Cardinality(InodeCopies)

PipeInv == LockInv /\ HeldInv /\ SleepInv
IInv == /\ Types /\ LocalInv /\ FileInv /\ EndInv /\ IoInv
        /\ PipeInv /\ RefCounts /\ IrefInv

-----------------------------------------------------------------------------
(* What keeps each part of it *)

LEMMA LocalKept ==
  ASSUME NEW q \in Proc, Local(q), todo'[q] = todo[q], ofile'[q] = ofile[q], ff'[q] = ff[q],
         q \in exiting' <=> q \in exiting,
         \/ pc'[q] = pc[q]
         \/ pc[q] \in Working \cup {"user"} /\ pc'[q] \in Working \cup {"user"}
  PROVE  Local(q)'
  BY Zenon DEF Local, Working, Reading, Writing

LEMMA EndKept ==
  ASSUME EndInv,
         \A f \in File, x \in Page, w \in BOOLEAN : IsEnd(ftable'[f], x, w) = IsEnd(ftable[f], x, w),
         \A p \in Proc, x \in Page, w \in BOOLEAN : IsEnd(ff'[p], x, w) = IsEnd(ff[p], x, w),
         \A x \in Page : /\ pipe'[x].readopen = pipe[x].readopen
                         /\ pipe'[x].writeopen = pipe[x].writeopen
                         /\ pipe'[x].used = pipe[x].used
                         /\ ~pipe[x].used => pipe'[x] = pipe[x]
  PROVE  EndInv'
  <1> SUFFICES ASSUME NEW x \in Page PROVE (OneEnd(x, TRUE) /\ OneEnd(x, FALSE) /\ Flags(x))'
    BY Zenon DEF EndInv
  <1>1. ASSUME NEW w \in BOOLEAN, OneEnd(x, w) PROVE OneEnd(x, w)' /\ Ends(x, w)' = Ends(x, w)
    BY <1>1 DEF OneEnd, Ends
  <1>2. OneEnd(x, TRUE) /\ OneEnd(x, FALSE) /\ Flags(x)
    BY Zenon DEF EndInv
  <1>3. Ends(x, TRUE)' = Ends(x, TRUE) /\ Ends(x, FALSE)' = Ends(x, FALSE)
    BY <1>1, <1>2, Zenon
  <1> QED
    BY <1>1, <1>2, <1>3, Zenon DEF Flags

SleepsOn(q) == \/ pc'[q] = pc[q] /\ io'[q] = io[q]
               \/ pc[q] \notin Locking /\ pc'[q] \notin Sleeping

LEMMA PipeKept ==
  ASSUME PipeInv, Types, UNCHANGED pipe, \A q \in Proc : SleepsOn(q)
  PROVE  PipeInv'
  <1>1. \A x : Held(x)' = Held(x)
    BY Zenon DEF Held
  <1>2. LockInv'
    BY DEF PipeInv, LockInv, Locking, Sleeping, SleepsOn, Types, PipeType
  <1>3. HeldInv'
    BY <1>1, Zenon DEF PipeInv, HeldInv
  <1>4. SleepInv'
    BY <1>1, Zenon DEF PipeInv, SleepInv, Locking, Sleeping, SleepsOn
  <1> QED
    BY <1>2, <1>3, <1>4, Zenon DEF PipeInv

LEMMA IrefKept ==
  ASSUME IrefInv, UNCHANGED iref,
         \A f \in File : ftable'[f].type = "FD_INODE" <=> ftable[f].type = "FD_INODE",
         \A p \in Proc : ff'[p].type = "FD_INODE" <=> ff[p].type = "FD_INODE"
  PROVE  IrefInv'
  BY Zenon DEF IrefInv, InodeFiles, InodeCopies

\* Whoever works on a pipe finds its end open.
LEMMA WorkerHasPipe ==
  ASSUME IInv, NEW p \in Proc, pc[p] \in Working
  PROVE  /\ io[p].pipe \in Page /\ pipe[io[p].pipe].used
         /\ pc[p] \in Writing => pipe[io[p].pipe].writeopen
         /\ pc[p] \in Reading => pipe[io[p].pipe].readopen
         /\ \A q \in Proc : ~IsEnd(ff[q], io[p].pipe, pc[p] \in Writing)
  <1>1. PICK fd \in Fd : ofile[p][fd] # None /\ IsEnd(ftable[ofile[p][fd]], io[p].pipe, pc[p] \in Writing)
    BY Zenon DEF IInv, IoInv, Works
  <1>2. ofile[p][fd] \in File
    BY <1>1 DEF IInv, Types
  <1>3. io[p].pipe \in Page
    BY <1>1, <1>2, Zenon DEF IInv, FileInv, PipeSound, IsEnd
  <1>4. /\ OneEnd(io[p].pipe, TRUE) /\ OneEnd(io[p].pipe, FALSE) /\ Flags(io[p].pipe)
    BY <1>3, Zenon DEF IInv, EndInv
  <1>5. CASE pc[p] \in Writing
    <2>1. pc[p] \notin Reading /\ (pc[p] \in Writing) = TRUE
      BY <1>5, Zenon DEF Reading, Writing
    <2> QED
      BY <1>1, <1>2, <1>3, <1>4, <2>1, Zenon DEF Flags, Ends, OneEnd
  <1>6. CASE pc[p] \notin Writing
    <2>1. (pc[p] \in Writing) = FALSE
      BY <1>6
    <2> QED
      BY <1>1, <1>2, <1>3, <1>4, <2>1, <1>6, Zenon DEF Flags, Ends, OneEnd
  <1> QED
    BY <1>5, <1>6, Zenon

LEMMA OnlyTodo ==
  ASSUME Counting, Types, RefCounts, NEW p \in Proc, NEW i \in {1, 2}, NEW f \in File,
         todo[p][i] = f, ftable[f].ref <= 1
  PROVE  /\ ftable[f].ref = 1
         /\ \A q \in Proc, fd \in Fd : ofile[q][fd] # f
         /\ \A q \in Proc, j \in {1, 2} : q # p \/ j # i => todo[q][j] # f
  <1> DEFINE t == [todo EXCEPT ![p][i] = None]
  <1>1. Sets({1, 2}, todo, p, i, None, t)
    BY Zenon DEF Types, Sets
  <1>2. ftable[f].ref = RefsIn(Fd, ofile, f) + RefsIn({1, 2}, todo, f) /\ ftable[f].ref \in Nat
    BY Zenon DEF RefCounts, Types, FileType
  <1>3. /\ RefsIn(Fd, ofile, f) \in Nat /\ RefsIn({1, 2}, todo, f) \in Nat
        /\ RefsIn({1, 2}, t, f) \in Nat
    BY TablesOf, RefsNat, Zenon
  <1>4. todo \in [Proc -> [{1, 2} -> File \cup {None}]]
    BY Zenon DEF Types
  <1>5. f # None
    BY DEF File, None
  <1>6. RefsIn({1, 2}, t, f) = RefsIn({1, 2}, todo, f) - 1
    <2>1. RefsIn({1, 2}, t, f) = RefsIn({1, 2}, todo, f) - One(todo[p][i], f) + One(None, f)
      <3> HIDE DEF t
      <3> QED
        BY <1>1, TablesOf, RefsSet
    <2> QED
      BY <2>1, <1>3, <1>5 DEF One
  <1>7. ftable[f].ref = 1 /\ RefsIn(Fd, ofile, f) = 0 /\ RefsIn({1, 2}, t, f) = 0
    BY <1>2, <1>3, <1>6
  <1>8. \A q \in Proc, j \in {1, 2} : t[q][j] # f
    <2> HIDE DEF t
    <2> QED
      BY <1>7, TablesOf, RefsZero
  <1>9. \A q \in Proc, fd \in Fd : ofile[q][fd] # f
    BY <1>7, TablesOf, RefsZero
  <1>10. \A q \in Proc, j \in {1, 2} : q # p \/ j # i => t[q][j] = todo[q][j]
    BY <1>4, Zenon
  <1> QED
    BY <1>7, <1>8, <1>9, <1>10

LEMMA OnlyFd ==
  ASSUME Counting, Types, RefCounts, NEW p \in Proc, NEW i \in Fd, NEW f \in File,
         ofile[p][i] = f, ftable[f].ref <= 1
  PROVE  /\ ftable[f].ref = 1
         /\ \A q \in Proc, fd \in Fd : q # p \/ fd # i => ofile[q][fd] # f
         /\ \A q \in Proc, j \in {1, 2} : todo[q][j] # f
  <1> DEFINE t == [ofile EXCEPT ![p][i] = None]
  <1>1. Sets(Fd, ofile, p, i, None, t)
    BY Zenon DEF Types, Sets
  <1>2. ftable[f].ref = RefsIn(Fd, ofile, f) + RefsIn({1, 2}, todo, f) /\ ftable[f].ref \in Nat
    BY Zenon DEF RefCounts, Types, FileType
  <1>3. /\ RefsIn(Fd, ofile, f) \in Nat /\ RefsIn({1, 2}, todo, f) \in Nat
        /\ RefsIn(Fd, t, f) \in Nat
    BY TablesOf, RefsNat, Zenon
  <1>4. ofile \in [Proc -> [Fd -> File \cup {None}]]
    BY Zenon DEF Types
  <1>5. f # None
    BY DEF File, None
  <1>6. RefsIn(Fd, t, f) = RefsIn(Fd, ofile, f) - 1
    <2>1. RefsIn(Fd, t, f) = RefsIn(Fd, ofile, f) - One(ofile[p][i], f) + One(None, f)
      <3> HIDE DEF t
      <3> QED
        BY <1>1, TablesOf, RefsSet
    <2> QED
      BY <2>1, <1>3, <1>5 DEF One
  <1>7. ftable[f].ref = 1 /\ RefsIn({1, 2}, todo, f) = 0 /\ RefsIn(Fd, t, f) = 0
    BY <1>2, <1>3, <1>6
  <1>8. \A q \in Proc, fd \in Fd : t[q][fd] # f
    <2> HIDE DEF t
    <2> QED
      BY <1>7, TablesOf, RefsZero
  <1>9. \A q \in Proc, j \in {1, 2} : todo[q][j] # f
    BY <1>7, TablesOf, RefsZero
  <1>10. \A q \in Proc, fd \in Fd : q # p \/ fd # i => t[q][fd] = ofile[q][fd]
    BY <1>4, Zenon
  <1> QED
    BY <1>7, <1>8, <1>9, <1>10

\* A file with a reference has an entry, and a free entry has no reference.
LEMMA Unreferenced ==
  ASSUME Counting, Types, RefCounts, NEW f \in File, ftable[f].ref = 0
  PROVE  /\ RefsIn(Fd, ofile, f) = 0 /\ RefsIn({1, 2}, todo, f) = 0
         /\ \A q \in Proc, fd \in Fd : ofile[q][fd] # f
         /\ \A q \in Proc, j \in {1, 2} : todo[q][j] # f
  <1>1. 0 = RefsIn(Fd, ofile, f) + RefsIn({1, 2}, todo, f)
    BY Zenon DEF RefCounts
  <1>2. RefsIn(Fd, ofile, f) \in Nat /\ RefsIn({1, 2}, todo, f) \in Nat
    BY TablesOf, RefsNat, Zenon
  <1>3. RefsIn(Fd, ofile, f) = 0 /\ RefsIn({1, 2}, todo, f) = 0
    BY <1>1, <1>2
  <1> QED
    BY <1>3, TablesOf, RefsZero

\* A step that leaves the files and the pipes alone.
LEMMA Calm ==
  ASSUME IInv, UNCHANGED <<tables, pipe, todo, ff>>, Types', LocalInv', IoInv', PipeInv',
         \A p \in Proc : pc'[p] = "pipe" => pc[p] = "pipe"
  PROVE  IInv'
  <1>1. FileInv'
    BY Zenon DEF IInv, FileInv, tables
  <1>2. EndInv'
    BY Zenon DEF IInv, EndInv, OneEnd, Flags, Ends, tables
  <1>3. RefCounts' /\ IrefInv'
    BY Zenon DEF IInv, RefCounts, IrefInv, InodeFiles, InodeCopies, tables
  <1> QED
    BY <1>1, <1>2, <1>3, Zenon DEF IInv

-----------------------------------------------------------------------------
(* Calls that leave the files alone *)

\* The test of fileread() or filewrite() tells the ends of a pipe apart.
Permits(e, ok, l) == ok /\ PipeSound(e) /\ e.type = "FD_PIPE" => (e.writable <=> l = "write")

LEMMA EndPermits ==
  ASSUME NEW e
  PROVE  Permits(e, e.readable, "read") /\ Permits(e, e.writable, "write")
  BY Zenon DEF Permits, PipeSound

LEMMA StartIoKeeps ==
  ASSUME IInv, NEW p \in Proc, pc[p] = "user", NEW fd \in Fd, NEW ok, NEW l \in {"read", "write"},
         NEW n \in Nat, NEW s \in Seq(Byte), StartIo(p, ofile[p][fd], ok, l, n, s),
         Permits(ftable[ofile[p][fd]], ok, l)
  PROVE  IInv'
  <1> DEFINE f == ofile[p][fd]
  <1>1. CASE UNCHANGED <<pc, io>>
    <2>1. Types' /\ LocalInv' /\ IoInv'
      BY <1>1, Zenon DEF IInv, StartIo, procs, tables, Types, LocalInv, Local, IoInv, Works
    <2>2. PipeInv'
      <3>1. \A q \in Proc : SleepsOn(q)
        BY <1>1, Zenon DEF SleepsOn
      <3> QED
        BY <3>1, PipeKept, Zenon DEF IInv, StartIo
    <2> QED
      BY <1>1, <2>1, <2>2, Calm, Zenon DEF StartIo
  <1>2. CASE /\ f # None /\ ok /\ ftable[f].type = "FD_PIPE"
             /\ io' = [io EXCEPT ![p] = [pipe |-> ftable[f].pipe, n |-> n, bytes |-> s]]
             /\ Goto(p, l)
    <2>1. f \in File /\ PipeSound(ftable[f]) /\ ftable[f].writable \in BOOLEAN
      BY <1>2 DEF IInv, Types, FileInv, FileType
    <2>2. IsEnd(ftable[f], ftable[f].pipe, l = "write") /\ ftable[f].pipe \in Page
      BY <1>2, <2>1, Zenon DEF PipeSound, IsEnd, Permits
    <2>3. Types'
      BY <1>2, <2>1, <2>2, Zenon DEF IInv, StartIo, procs, tables, Types, Goto, IoType, Label,
         Working, Reading, Writing
    <2>4. /\ pc'[p] = l /\ io'[p].pipe = ftable[f].pipe
          /\ \A q \in Proc \ {p} : pc'[q] = pc[q] /\ io'[q] = io[q]
      BY <1>2, Zenon DEF IInv, Types, Goto
    <2>5. LocalInv'
      BY <2>4, LocalKept, Zenon DEF IInv, StartIo, procs, tables, LocalInv, Working, Reading,
         Writing
    <2>6. IoInv'
      <3>1. Works(p)'
        <4>1. /\ pc'[p] \in Working /\ (pc'[p] \in Writing) = (l = "write")
              /\ ofile' = ofile /\ ftable' = ftable
          BY <2>4 DEF Working, Reading, Writing, StartIo, tables
        <4> QED
          BY <1>2, <2>1, <2>2, <2>4, <4>1, Zenon DEF Works
      <3>2. ASSUME NEW q \in Proc \ {p} PROVE Works(q)'
        BY <2>4, Zenon DEF IInv, IoInv, Works, StartIo, tables
      <3> QED
        BY <3>1, <3>2, Zenon DEF IoInv
    <2>7. PipeInv'
      <3>1. \A q \in Proc : SleepsOn(q)
        BY <2>4, Zenon DEF SleepsOn, Locking, Sleeping
      <3> QED
        BY <3>1, PipeKept, Zenon DEF IInv, StartIo
    <2> QED
      BY <2>3, <2>4, <2>5, <2>6, <2>7, Calm, Zenon DEF StartIo
  <1> QED
    BY <1>1, <1>2, Zenon DEF StartIo

LEMMA ReadWriteKeep ==
  ASSUME IInv, NEW p \in Proc, pc[p] = "user", NEW fd \in Fd,
         \/ \E n \in Nat : sys_read(p, fd, n)
         \/ \E s \in Seq(Byte) : sys_write(p, fd, s)
  PROVE  IInv'
  <1>1. <<>> \in Seq(Byte) /\ 0 \in Nat
    OBVIOUS
  <1>2. ASSUME NEW n \in Nat, sys_read(p, fd, n) PROVE IInv'
    <2>1. StartIo(p, ofile[p][fd], ftable[ofile[p][fd]].readable, "read", n, <<>>)
      BY <1>2, Zenon DEF sys_read
    <2> QED
      BY <1>1, <2>1, EndPermits, StartIoKeeps, Zenon
  <1>3. ASSUME NEW s \in Seq(Byte), sys_write(p, fd, s) PROVE IInv'
    <2>1. StartIo(p, ofile[p][fd], ftable[ofile[p][fd]].writable, "write", 0, s)
      BY <1>3, Zenon DEF sys_write
    <2> QED
      BY <1>1, <2>1, EndPermits, StartIoKeeps, Zenon
  <1> QED
    BY <1>2, <1>3, Zenon

LEMMA WaitKeeps ==
  ASSUME IInv, NEW p \in Proc, wait(p)
  PROVE  IInv'
  <1>1. /\ UNCHANGED <<tables, pipe, todo, ff, io>>
        /\ \A q \in Proc : \/ pc'[q] = pc[q] /\ (q \in exiting' <=> q \in exiting)
                           \/ pc[q] = "zombie" /\ pc'[q] = "unused" /\ q \notin exiting'
    BY Zenon DEF wait, Children, Goto, IInv, Types, procs
  <1>2. Types'
    BY <1>1, Zenon DEF IInv, Types, wait, Goto, procs, tables, Children, Label
  <1>3. LocalInv'
    BY <1>1, Zenon DEF IInv, LocalInv, Local, tables
  <1>4. IoInv'
    BY <1>1, Zenon DEF IInv, IoInv, Works, tables, Working, Reading, Writing
  <1>5. PipeInv'
    <2>1. \A q \in Proc : SleepsOn(q)
      BY <1>1, Zenon DEF SleepsOn, Locking, Sleeping
    <2> QED
      BY <1>1, <2>1, PipeKept, Zenon DEF IInv
  <1> QED
    BY <1>1, <1>2, <1>3, <1>4, <1>5, Calm, Zenon

LEMMA ExitKeeps ==
  ASSUME IInv, NEW p \in Proc, exit(p) \/ exit_rest(p)
  PROVE  IInv'
  <1>1. /\ UNCHANGED <<tables, pipe, todo, ff, io>>
        /\ \A q \in Proc \ {p} : pc'[q] = pc[q] /\ (q \in exiting' <=> q \in exiting)
        /\ \/ pc[p] = "user" /\ pc'[p] \in {"exit", "close"}
           \/ pc[p] = "exit" /\ pc'[p] = "zombie"
        /\ pc'[p] \in {"exit", "zombie"} => Open(ofile[p]) = {}
    BY Zenon DEF exit, exit_rest, Goto, IInv, Types, LocalInv, Local
  <1>2. Types'
    BY <1>1, Zenon DEF IInv, Types, exit, exit_rest, Goto, tables, Label
  <1>3. LocalInv'
    <2>1. Local(p)'
      BY <1>1, Zenon DEF IInv, LocalInv, Local, tables
    <2>2. ASSUME NEW q \in Proc \ {p} PROVE Local(q)'
      BY <1>1, LocalKept, Zenon DEF IInv, LocalInv, tables
    <2> QED
      BY <2>1, <2>2, Zenon DEF LocalInv
  <1>4. IoInv'
    BY <1>1, Zenon DEF IInv, IoInv, Works, tables, Working, Reading, Writing
  <1>5. PipeInv'
    <2>1. \A q \in Proc : SleepsOn(q)
      BY <1>1, Zenon DEF SleepsOn, Locking, Sleeping
    <2> QED
      BY <1>1, <2>1, PipeKept, Zenon DEF IInv
  <1> QED
    BY <1>1, <1>2, <1>3, <1>4, <1>5, Calm, Zenon

LEMMA KillKeeps ==
  ASSUME IInv, NEW p \in Proc, kill(p)
  PROVE  IInv'
  <1>1. /\ UNCHANGED <<exiting, tables, pipe, todo, ff, io>>
        /\ \A q \in Proc : \/ pc'[q] = pc[q]
                           \/ pc[q] = "read-asleep" /\ pc'[q] = "read"
                           \/ pc[q] = "write-asleep" /\ pc'[q] = "write"
    BY Zenon DEF kill, Goto, IInv, Types
  <1>2. Types'
    BY <1>1, Zenon DEF IInv, Types, kill, Goto, tables, Label, Working, Reading, Writing
  <1>3. LocalInv'
    BY <1>1, LocalKept, Zenon DEF IInv, LocalInv, tables, Working, Reading, Writing
  <1>4. IoInv'
    BY <1>1 DEF IInv, IoInv, Works, tables, Working, Reading, Writing
  <1>5. PipeInv'
    <2>1. \A q \in Proc : SleepsOn(q)
      BY <1>1, Zenon DEF SleepsOn, Locking, Sleeping
    <2> QED
      BY <1>1, <2>1, PipeKept, Zenon DEF IInv
  <1> QED
    BY <1>1, <1>2, <1>3, <1>4, <1>5, Calm, Zenon

-----------------------------------------------------------------------------
(* Calls that count references *)

\* A step after which the entries of the file table differ in ref only.
Alike(e, d) == /\ e.type = d.type /\ e.pipe = d.pipe
               /\ e.readable = d.readable /\ e.writable = d.writable

StaysPut(q) ==
  \/ pc'[q] = pc[q] /\ ofile'[q] = ofile[q]
  \/ pc[q] \notin Working /\ pc'[q] \notin Working

EndsStay ==
  \A x, w : \A q \in Proc, fd \in Fd :
    ofile[q][fd] # None /\ IsEnd(ftable[ofile[q][fd]], x, w) => IsEnd(ftable'[ofile[q][fd]], x, w)

LEMMA IoMoved ==
  ASSUME IoInv, UNCHANGED io, \A q \in Proc : StaysPut(q), EndsStay
  PROVE  IoInv'
  <1> SUFFICES ASSUME NEW q \in Proc PROVE Works(q)'
    BY Zenon DEF IoInv
  <1>1. Works(q)
    BY Zenon DEF IoInv
  <1>2. CASE pc'[q] = pc[q] /\ ofile'[q] = ofile[q]
    BY <1>1, <1>2, Zenon DEF Works, EndsStay
  <1>3. CASE pc[q] \notin Working /\ pc'[q] \notin Working
    BY <1>1, <1>3, Zenon DEF Works
  <1> QED
    BY <1>2, <1>3, Zenon DEF StaysPut

LEMMA Recounted ==
  ASSUME IInv, Types', LocalInv', RefCounts', UNCHANGED <<iref, pipe, ff, io>>,
         \A g \in File : Alike(ftable'[g], ftable[g]) /\ (ftable'[g].ref = 0 => ftable'[g] = Closed),
         \A q \in Proc : StaysPut(q),
         \A q \in Proc : pc'[q] = "pipe" => ftable'[todo'[q][1]].ref = 1 /\ ftable'[todo'[q][1]].type = "FD_NONE"
  PROVE  IInv'
  <1>1. FileInv'
    BY DEF IInv, FileInv, PipeSound, Alike
  <1>2. \A x, w : \A f \in File : IsEnd(ftable'[f], x, w) = IsEnd(ftable[f], x, w)
    BY Zenon DEF Alike, IsEnd
  <1>3. EndInv'
    BY <1>2, EndKept, Zenon DEF IInv
  <1>4. IoInv'
    <2>1. EndsStay
      BY <1>2 DEF EndsStay, IInv, Types
    <2> QED
      BY <2>1, IoMoved, Zenon DEF IInv
  <1>5. PipeInv'
    <2>1. \A q \in Proc : SleepsOn(q)
      BY Zenon DEF StaysPut, SleepsOn, Working, Reading, Writing, Locking, Sleeping
    <2> QED
      BY <2>1, PipeKept, Zenon DEF IInv
  <1>6. IrefInv'
    BY IrefKept, Zenon DEF IInv, Alike
  <1> QED
    BY <1>1, <1>3, <1>4, <1>5, <1>6, Zenon DEF IInv

LEMMA Same ==
  ASSUME IInv, UNCHANGED <<pc, killed, exiting, tables, pipe, todo, ff, io>>
  PROVE  IInv'
  <1>1. Types' /\ LocalInv' /\ IoInv'
    BY Zenon DEF IInv, Types, LocalInv, Local, IoInv, Works, tables
  <1>2. PipeInv'
    <2>1. \A q \in Proc : SleepsOn(q)
      BY Zenon DEF SleepsOn
    <2> QED
      BY <2>1, PipeKept, Zenon DEF IInv
  <1> QED
    BY <1>1, <1>2, Calm, Zenon

\* The count of every file after an entry of a table has been written.
LEMMA FdWritten ==
  ASSUME Counting, Types, NEW p \in Proc, NEW fd \in Fd, NEW v, ofile' = [ofile EXCEPT ![p][fd] = v]
  PROVE  \A g \in File : /\ RefsIn(Fd, ofile', g) = RefsIn(Fd, ofile, g) - One(ofile[p][fd], g) + One(v, g)
                         /\ RefsIn(Fd, ofile, g) \in Nat
  <1>1. Sets(Fd, ofile, p, fd, v, ofile')
    BY Zenon DEF Types, Sets
  <1> QED
    BY <1>1, TablesOf, RefsSet, RefsNat

LEMMA TodoWritten ==
  ASSUME Counting, NEW p \in Proc, NEW i \in {1, 2}, NEW v, Sets({1, 2}, todo, p, i, v, todo')
  PROVE  \A g \in File :
           /\ RefsIn({1, 2}, todo', g) = RefsIn({1, 2}, todo, g) - One(todo[p][i], g) + One(v, g)
           /\ RefsIn({1, 2}, todo, g) \in Nat
  BY TablesOf, RefsSet, RefsNat

\* The table after the count of one entry has been written.
LEMMA RefWritten ==
  ASSUME Types, NEW f \in File, NEW r \in Nat, ftable' = [ftable EXCEPT ![f].ref = r]
  PROVE  /\ ftable' \in [File -> FileType]
         /\ \A g \in File : Alike(ftable'[g], ftable[g]) /\ (g # f => ftable'[g] = ftable[g])
         /\ ftable'[f].ref = r
  <1> DEFINE e == [ftable[f] EXCEPT !.ref = r]
  <1>1. ftable[f] \in FileType
    BY Zenon DEF Types
  <1>2. e \in FileType /\ Alike(e, ftable[f]) /\ e.ref = r
    BY <1>1, Zenon DEF FileType, Alike
  <1>3. ftable' = [ftable EXCEPT ![f] = e] /\ ftable \in [File -> FileType]
    BY Zenon DEF Types
  <1> HIDE DEF e
  <1> QED
    BY <1>2, <1>3, Zenon DEF Alike

LEMMA DupKeeps ==
  ASSUME Counting, IInv, NEW p \in Proc, pc[p] = "user", NEW fd \in Fd, sys_dup(p, fd)
  PROVE  IInv'
  <1> DEFINE f == ofile[p][fd]
  <1>1. CASE UNCHANGED <<ofile, ftable>>
    BY <1>1, Same, Zenon DEF sys_dup, procs, tables
  <1>2. CASE f # None /\ fdalloc(p, f) /\ ftable' = filedup(f)
    <2>1. PICK e \in Fd : ofile[p][e] = None /\ ofile' = [ofile EXCEPT ![p][e] = f]
      BY <1>2, Zenon DEF fdalloc, IsMin, FreeFds
    <2>2. f \in File /\ f # None
      BY <1>2 DEF IInv, Types
    <2>3. ftable[f].ref + 1 \in Nat /\ \A g \in File : ftable[g].ref \in Nat
      BY <2>2 DEF IInv, Types, FileType
    <2>4. ftable' = [ftable EXCEPT ![f].ref = ftable[f].ref + 1]
      BY <1>2, <2>2, Zenon DEF IInv, Types, filedup
    <2>5. \A g \in File : /\ Alike(ftable'[g], ftable[g]) /\ ftable'[g].ref = ftable[g].ref + One(f, g)
                          /\ g # f => ftable'[g] = ftable[g]
      <3>1. /\ \A g \in File : Alike(ftable'[g], ftable[g]) /\ (g # f => ftable'[g] = ftable[g])
            /\ ftable'[f].ref = ftable[f].ref + 1
        BY <2>2, <2>3, <2>4, RefWritten DEF IInv
      <3> QED
        BY <2>3, <3>1 DEF One
    <2>6. Types'
      <3>1. ftable' \in [File -> FileType]
        BY <2>2, <2>3, <2>4, RefWritten, Zenon DEF IInv
      <3>2. ofile' \in [Proc -> [Fd -> File \cup {None}]]
        BY <2>1, <2>2, Zenon DEF IInv, Types
      <3> QED
        BY <3>1, <3>2, Zenon DEF IInv, Types, sys_dup, procs
    <2>7. \A q \in Proc \ {p} : ofile'[q] = ofile[q]
      BY <2>1
    <2>8. LocalInv'
      BY <2>7, Zenon DEF IInv, LocalInv, Local, sys_dup, procs
    <2>9. RefCounts'
      <3>1. \A g \in File : /\ RefsIn(Fd, ofile', g) = RefsIn(Fd, ofile, g) - One(ofile[p][e], g) + One(f, g)
                            /\ RefsIn(Fd, ofile, g) \in Nat
        BY <2>1, FdWritten, Zenon DEF IInv
      <3>2. \A g \in File : RefsIn({1, 2}, todo, g) \in Nat
        BY TablesOf, RefsNat, Zenon
      <3>3. \A g \in File : One(ofile[p][e], g) = 0 /\ One(f, g) \in Nat
        BY <2>1 DEF One, File, None
      <3>4. UNCHANGED todo
        BY Zenon DEF sys_dup
      <3> QED
        BY <2>5, <3>1, <3>2, <3>3, <3>4 DEF IInv, RefCounts
    <2>10. ASSUME NEW q \in Proc, pc[q] = "pipe" PROVE todo[q][1] \in File \ {f}
      <3>1. todo[q][1] \in File /\ ftable[todo[q][1]].ref = 1
        BY <2>10 DEF IInv, FileInv, LocalInv, Local, Types
      <3> QED
        BY <3>1, OnlyTodo DEF IInv
    <2>11. \A q \in Proc : pc'[q] = "pipe" => ftable'[todo'[q][1]].ref = 1 /\ ftable'[todo'[q][1]].type = "FD_NONE"
      BY <2>5, <2>10, Zenon DEF IInv, FileInv, sys_dup
    <2>12. \A g \in File : ftable'[g].ref = 0 => ftable'[g] = Closed
      <3>1. ftable'[f].ref # 0
        BY <2>2, <2>5 DEF IInv, Types, FileType, One
      <3> QED
        BY <2>5, <3>1, Zenon DEF IInv, FileInv
    <2>13. \A q \in Proc : StaysPut(q)
      BY <2>7, Zenon DEF StaysPut, sys_dup, Working, Reading, Writing
    <2> QED
      BY <2>5, <2>6, <2>8, <2>9, <2>11, <2>12, <2>13, Recounted, Zenon DEF sys_dup
  <1> QED
    BY <1>1, <1>2, Zenon DEF sys_dup

\* The first file of a pipe() under way is nobody else's.
LEMMA Pending ==
  ASSUME Counting, IInv, NEW q \in Proc, pc[q] = "pipe"
  PROVE  /\ todo[q][1] \in File /\ todo[q][2] = None /\ q \notin exiting
         /\ ftable[todo[q][1]].ref = 1 /\ ftable[todo[q][1]].type = "FD_NONE"
         /\ \A r \in Proc, fd \in Fd : ofile[r][fd] # todo[q][1]
         /\ \A r \in Proc, j \in {1, 2} : r # q \/ j # 1 => todo[r][j] # todo[q][1]
  <1>1. /\ todo[q][1] \in File /\ todo[q][2] = None /\ q \notin exiting
        /\ ftable[todo[q][1]].ref = 1 /\ ftable[todo[q][1]].type = "FD_NONE"
    BY DEF IInv, FileInv, LocalInv, Local, Types
  <1> QED
    BY <1>1, OnlyTodo DEF IInv

LEMMA PipeKeeps ==
  ASSUME Counting, IInv, NEW p \in Proc, pc[p] = "user", sys_pipe(p)
  PROVE  IInv'
  <1>1. CASE UNCHANGED <<pc, ftable, todo>>
    BY <1>1, Same, Zenon DEF sys_pipe, procs, tables
  <1>2. ASSUME NEW f \in File, filealloc(f), ftable' = [ftable EXCEPT ![f].ref = 1],
               todo' = [todo EXCEPT ![p] = <<f, None>>], Goto(p, "pipe")
        PROVE  IInv'
    <2>1. ftable[f].ref = 0 /\ ftable[f] = Closed
      BY <1>2, Zenon DEF filealloc, IsMin, FreeFiles, IInv, FileInv
    <2>2. /\ \A g \in File : Alike(ftable'[g], ftable[g]) /\ (g # f => ftable'[g] = ftable[g])
          /\ ftable'[f].ref = 1
      BY <1>2, RefWritten, Zenon DEF IInv
    <2>3. /\ pc' \in [Proc -> Label] /\ pc'[p] = "pipe" /\ todo'[p] = <<f, None>>
          /\ \A q \in Proc \ {p} : pc'[q] = pc[q] /\ todo'[q] = todo[q]
      BY <1>2, Zenon DEF IInv, Types, Goto, Label
    <2>4. Types'
      <3>1. ftable' \in [File -> FileType]
        BY <1>2, RefWritten, Zenon DEF IInv
      <3>2. todo' \in [Proc -> [{1, 2} -> File \cup {None}]]
        BY <1>2 DEF IInv, Types
      <3> QED
        BY <2>3, <3>1, <3>2, Zenon DEF IInv, Types, sys_pipe, procs
    <2>5. todo[p] = NoFiles /\ p \notin exiting /\ ff[p] = Closed
      BY Zenon DEF IInv, LocalInv, Local
    <2>6. LocalInv'
      <3>1. Local(p)'
        BY <2>3, <2>5 DEF Local, sys_pipe, procs, File, None
      <3>2. ASSUME NEW q \in Proc \ {p} PROVE Local(q)'
        BY <2>3, LocalKept, Zenon DEF IInv, LocalInv, sys_pipe, procs
      <3> QED
        BY <3>1, <3>2, Zenon DEF LocalInv
    <2>7. RefCounts'
      <3>1. Sets({1, 2}, todo, p, 1, f, todo')
        BY <2>3, <2>5 DEF Sets, NoFiles
      <3>2. \A g \in File :
              /\ RefsIn({1, 2}, todo', g) = RefsIn({1, 2}, todo, g) - One(todo[p][1], g) + One(f, g)
              /\ RefsIn({1, 2}, todo, g) \in Nat
        BY <3>1, TodoWritten, Zenon
      <3>3. \A g \in File : One(todo[p][1], g) = 0 /\ One(f, g) \in Nat
        BY <2>5 DEF One, File, None, NoFiles
      <3>4. \A g \in File : RefsIn(Fd, ofile, g) \in Nat
        BY TablesOf, RefsNat, Zenon
      <3>5. \A g \in File : ftable'[g].ref = ftable[g].ref + One(f, g) /\ ftable[g].ref \in Nat
        BY <2>1, <2>2 DEF One, IInv, Types, FileType
      <3>6. UNCHANGED ofile
        BY Zenon DEF sys_pipe
      <3> QED
        BY <3>2, <3>3, <3>4, <3>5, <3>6 DEF IInv, RefCounts
    <2>8. \A q \in Proc : pc'[q] = "pipe" => ftable'[todo'[q][1]].ref = 1 /\ ftable'[todo'[q][1]].type = "FD_NONE"
      <3>1. ftable'[todo'[p][1]].ref = 1 /\ ftable'[todo'[p][1]].type = "FD_NONE"
        BY <2>1, <2>2, <2>3 DEF Alike, Closed
      <3>2. ASSUME NEW q \in Proc \ {p}, pc'[q] = "pipe"
            PROVE  ftable'[todo'[q][1]].ref = 1 /\ ftable'[todo'[q][1]].type = "FD_NONE"
        BY <2>1, <2>2, <2>3, <3>2, Pending
      <3> QED
        BY <3>1, <3>2, Zenon
    <2>9. \A g \in File : ftable'[g].ref = 0 => ftable'[g] = Closed
      BY <2>2 DEF IInv, FileInv
    <2>10. \A q \in Proc : StaysPut(q)
      BY <2>3, Zenon DEF StaysPut, sys_pipe, Working, Reading, Writing
    <2> QED
      BY <2>2, <2>4, <2>6, <2>7, <2>8, <2>9, <2>10, Recounted, Zenon DEF sys_pipe
  <1> QED
    BY <1>1, <1>2, Zenon DEF sys_pipe

LEMMA NoFileKeeps ==
  ASSUME IInv, NEW p \in Proc, pc[p] = "pipe", NoFile(p), UNCHANGED <<procs, iref, ff, io>>
  PROVE  IInv'
  <1>1. /\ UNCHANGED <<tables, pipe, todo>>
        /\ pc' \in [Proc -> Label] /\ pc'[p] = "close" /\ \A q \in Proc \ {p} : pc'[q] = pc[q]
    BY Zenon DEF NoFile, tables, Goto, IInv, Types, Label
  <1>2. Types'
    BY <1>1, Zenon DEF IInv, Types, tables, procs
  <1>3. LocalInv'
    <2>1. Local(p)'
      BY <1>1, Zenon DEF IInv, LocalInv, Local, tables, procs
    <2>2. ASSUME NEW q \in Proc \ {p} PROVE Local(q)'
      BY <1>1, LocalKept, Zenon DEF IInv, LocalInv, tables, procs
    <2> QED
      BY <2>1, <2>2, Zenon DEF LocalInv
  <1>4. IoInv'
    BY <1>1, Zenon DEF IInv, IoInv, Works, tables, Working, Reading, Writing
  <1>5. PipeInv'
    <2>1. \A q \in Proc : SleepsOn(q)
      BY <1>1, Zenon DEF SleepsOn, Locking, Sleeping
    <2> QED
      BY <1>1, <2>1, PipeKept, Zenon DEF IInv
  <1>6. \A q \in Proc : pc'[q] = "pipe" => pc[q] = "pipe"
    BY <1>1, Zenon
  <1> QED
    BY <1>1, <1>2, <1>3, <1>4, <1>5, <1>6, Calm, Zenon

LEMMA NoPageKeeps ==
  ASSUME Counting, IInv, NEW p \in Proc, pc[p] = "pipe", NEW wf \in File, filealloc(wf), NoPage(p, wf),
         UNCHANGED <<procs, iref, ff, io>>
  PROVE  IInv'
  <1>1. ftable[wf].ref = 0 /\ ftable[wf] = Closed
    BY Zenon DEF filealloc, IsMin, FreeFiles, IInv, FileInv
  <1>2. /\ \A g \in File : Alike(ftable'[g], ftable[g]) /\ (g # wf => ftable'[g] = ftable[g])
        /\ ftable'[wf].ref = 1
    BY RefWritten, Zenon DEF IInv, NoPage
  <1>3. /\ pc' \in [Proc -> Label] /\ pc'[p] = "close"
        /\ \A q \in Proc \ {p} : pc'[q] = pc[q] /\ todo'[q] = todo[q]
    BY Zenon DEF IInv, Types, Goto, Label, NoPage
  <1>4. Types'
    <2>1. ftable' \in [File -> FileType]
      BY RefWritten, Zenon DEF IInv, NoPage
    <2>2. todo' \in [Proc -> [{1, 2} -> File \cup {None}]]
      BY Zenon DEF IInv, Types, NoPage
    <2> QED
      BY <1>3, <2>1, <2>2, Zenon DEF IInv, Types, NoPage, procs
  <1>5. todo[p][2] = None /\ p \notin exiting /\ ff[p] = Closed
    BY Zenon DEF IInv, LocalInv, Local
  <1>6. LocalInv'
    <2>1. Local(p)'
      BY <1>3, <1>5, Zenon DEF Local, procs
    <2>2. ASSUME NEW q \in Proc \ {p} PROVE Local(q)'
      BY <1>3, LocalKept, Zenon DEF IInv, LocalInv, NoPage, procs
    <2> QED
      BY <2>1, <2>2, Zenon DEF LocalInv
  <1>7. RefCounts'
    <2>1. Sets({1, 2}, todo, p, 2, wf, todo')
      BY Zenon DEF Sets, NoPage, IInv, Types
    <2>2. \A g \in File :
            /\ RefsIn({1, 2}, todo', g) = RefsIn({1, 2}, todo, g) - One(todo[p][2], g) + One(wf, g)
            /\ RefsIn({1, 2}, todo, g) \in Nat
      BY <2>1, TodoWritten, Zenon
    <2>3. \A g \in File : One(todo[p][2], g) = 0 /\ One(wf, g) \in Nat
      BY <1>5 DEF One, File, None
    <2>4. \A g \in File : RefsIn(Fd, ofile, g) \in Nat
      BY TablesOf, RefsNat, Zenon
    <2>5. \A g \in File : ftable'[g].ref = ftable[g].ref + One(wf, g) /\ ftable[g].ref \in Nat
      BY <1>1, <1>2 DEF One, IInv, Types, FileType
    <2>6. UNCHANGED ofile
      BY Zenon DEF NoPage
    <2> QED
      BY <2>2, <2>3, <2>4, <2>5, <2>6 DEF IInv, RefCounts
  <1>8. \A q \in Proc : pc'[q] = "pipe" => ftable'[todo'[q][1]].ref = 1 /\ ftable'[todo'[q][1]].type = "FD_NONE"
    BY <1>1, <1>2, <1>3, Pending
  <1>9. \A g \in File : ftable'[g].ref = 0 => ftable'[g] = Closed
    BY <1>2 DEF IInv, FileInv
  <1>10. \A q \in Proc : StaysPut(q)
    BY <1>3, Zenon DEF StaysPut, NoPage, Working, Reading, Writing
  <1> QED
    BY <1>2, <1>4, <1>6, <1>7, <1>8, <1>9, <1>10, Recounted, Zenon DEF NoPage

LEMMA CloseKeeps ==
  ASSUME Counting, IInv, NEW p \in Proc, pc[p] = "user", NEW fd \in Fd, sys_close(p, fd)
  PROVE  IInv'
  <1> DEFINE f == ofile[p][fd]
  <1>1. CASE UNCHANGED <<pc, todo, ofile>>
    BY <1>1, Same, Zenon DEF sys_close, procs, tables
  <1>2. CASE /\ f # None /\ todo' = [todo EXCEPT ![p] = <<f, None>>]
             /\ ofile' = [ofile EXCEPT ![p][fd] = None] /\ Goto(p, "close")
    <2>1. f \in File
      BY <1>2 DEF IInv, Types
    <2>2. /\ pc' \in [Proc -> Label] /\ pc'[p] = "close" /\ todo'[p] = <<f, None>>
          /\ \A q \in Proc \ {p} : pc'[q] = pc[q] /\ todo'[q] = todo[q] /\ ofile'[q] = ofile[q]
      BY <1>2, Zenon DEF IInv, Types, Goto, Label
    <2>3. Types'
      <3>1. todo' \in [Proc -> [{1, 2} -> File \cup {None}]]
        BY <1>2, <2>1 DEF IInv, Types
      <3>2. ofile' \in [Proc -> [Fd -> File \cup {None}]]
        BY <1>2, Zenon DEF IInv, Types
      <3> QED
        BY <2>2, <3>1, <3>2, Zenon DEF IInv, Types, sys_close, procs
    <2>4. todo[p] = NoFiles /\ p \notin exiting /\ ff[p] = Closed
      BY Zenon DEF IInv, LocalInv, Local
    <2>5. LocalInv'
      <3>1. Local(p)'
        BY <2>2, <2>4, Zenon DEF Local, sys_close, procs
      <3>2. ASSUME NEW q \in Proc \ {p} PROVE Local(q)'
        BY <2>2, LocalKept, Zenon DEF IInv, LocalInv, sys_close, procs
      <3> QED
        BY <3>1, <3>2, Zenon DEF LocalInv
    <2>6. RefCounts'
      <3>1. Sets({1, 2}, todo, p, 1, f, todo')
        BY <2>2, <2>4 DEF Sets, NoFiles
      <3>2. \A g \in File :
              /\ RefsIn({1, 2}, todo', g) = RefsIn({1, 2}, todo, g) - One(todo[p][1], g) + One(f, g)
              /\ RefsIn({1, 2}, todo, g) \in Nat
        BY <3>1, TodoWritten, Zenon
      <3>3. \A g \in File : /\ RefsIn(Fd, ofile', g) = RefsIn(Fd, ofile, g) - One(f, g) + One(None, g)
                            /\ RefsIn(Fd, ofile, g) \in Nat
        BY <1>2, FdWritten, Zenon DEF IInv
      <3>4. \A g \in File : One(todo[p][1], g) = 0 /\ One(None, g) = 0 /\ One(f, g) \in Nat
        BY <2>4 DEF One, File, None, NoFiles
      <3>5. \A g \in File : RefsIn(Fd, ofile', g) + RefsIn({1, 2}, todo', g)
                            = RefsIn(Fd, ofile, g) + RefsIn({1, 2}, todo, g)
        BY <3>2, <3>3, <3>4
      <3>6. UNCHANGED ftable
        BY Zenon DEF sys_close
      <3> QED
        BY <3>5, <3>6, Zenon DEF IInv, RefCounts
    <2>7. \A q \in Proc : pc'[q] = "pipe" => ftable'[todo'[q][1]].ref = 1 /\ ftable'[todo'[q][1]].type = "FD_NONE"
      BY <2>2, Pending, Zenon DEF sys_close
    <2>8. \A g \in File : Alike(ftable'[g], ftable[g]) /\ (ftable'[g].ref = 0 => ftable'[g] = Closed)
      BY Zenon DEF IInv, FileInv, Alike, sys_close
    <2>9. \A q \in Proc : StaysPut(q)
      BY <2>2, Zenon DEF StaysPut, Working, Reading, Writing
    <2> QED
      BY <2>3, <2>5, <2>6, <2>7, <2>8, <2>9, Recounted, Zenon DEF sys_close
  <1> QED
    BY <1>1, <1>2, Zenon DEF sys_close

LEMMA ForkKeeps ==
  ASSUME Counting, IInv, NEW p \in Proc, pc[p] = "user", NEW c \in Unused, fork(p, c)
  PROVE  IInv'
  <1>1. c \in Proc /\ c # p /\ pc[c] = "unused"
    BY Zenon DEF Unused
  <1>2. /\ todo[c] = NoFiles /\ c \notin exiting /\ ff[c] = Closed
        /\ \A fd \in Fd, g \in File : ofile[c][fd] # g
    BY <1>1 DEF IInv, LocalInv, Local, Open, File, None
  <1>3. /\ pc' \in [Proc -> Label] /\ pc'[c] = "user"
        /\ \A q \in Proc \ {c} : pc'[q] = pc[q] /\ ofile'[q] = ofile[q]
    BY <1>1, Zenon DEF fork, IInv, Types, Goto, Label
  <1>4. \A g \in File : /\ RefsIn(Fd, ofile', g) = RefsIn(Fd, ofile, g) + Refs(ofile[p], g)
                        /\ Refs(ofile[p], g) \in Nat
    <2>1. Copies(Fd, ofile, p, c, ofile')
      BY <1>1, Zenon DEF Copies, fork, IInv, Types
    <2> QED
      BY <1>1, <1>2, <2>1, RefsCopy, Zenon
  <1>5. \A g \in File : /\ ftable'[g] \in FileType /\ ftable'[g].ref = ftable[g].ref + Refs(ofile[p], g)
                        /\ Alike(ftable'[g], ftable[g]) /\ ftable[g].ref \in Nat
                        /\ Refs(ofile[p], g) = 0 => ftable'[g] = ftable[g]
    <2> SUFFICES ASSUME NEW g \in File
                 PROVE  /\ ftable'[g] \in FileType /\ ftable'[g].ref = ftable[g].ref + Refs(ofile[p], g)
                        /\ Alike(ftable'[g], ftable[g]) /\ ftable[g].ref \in Nat
                        /\ Refs(ofile[p], g) = 0 => ftable'[g] = ftable[g]
      BY Zenon
    <2>1. ftable[g] \in FileType /\ Refs(ofile[p], g) \in Nat
      BY <1>4, Zenon DEF IInv, Types
    <2>2. ftable'[g] = [ftable[g] EXCEPT !.ref = @ + Refs(ofile[p], g)]
      BY Zenon DEF fork, ForkRefs
    <2> QED
      BY <2>1, <2>2 DEF FileType, Alike
  <1>6. Types'
    <2>1. ftable' \in [File -> FileType]
      BY <1>5, Zenon DEF fork, ForkRefs
    <2>2. ofile' \in [Proc -> [Fd -> File \cup {None}]]
      BY <1>1, Zenon DEF fork, IInv, Types
    <2> QED
      BY <1>3, <2>1, <2>2, Zenon DEF IInv, Types, fork
  <1>7. LocalInv'
    <2>1. Local(c)'
      BY <1>1, <1>2, <1>3, Zenon DEF Local, fork
    <2>2. ASSUME NEW q \in Proc \ {c} PROVE Local(q)'
      BY <1>3, LocalKept, Zenon DEF IInv, LocalInv, fork
    <2> QED
      BY <2>1, <2>2, Zenon DEF LocalInv
  <1>8. RefCounts'
    <2>1. \A g \in File : RefsIn(Fd, ofile, g) \in Nat /\ RefsIn({1, 2}, todo, g) \in Nat
      BY TablesOf, RefsNat, Zenon
    <2>2. UNCHANGED todo
      BY Zenon DEF fork
    <2> QED
      BY <1>4, <1>5, <2>1, <2>2 DEF IInv, RefCounts
  <1>9. \A q \in Proc : pc'[q] = "pipe" => ftable'[todo'[q][1]].ref = 1 /\ ftable'[todo'[q][1]].type = "FD_NONE"
    <2> SUFFICES ASSUME NEW q \in Proc, pc'[q] = "pipe"
                 PROVE  ftable'[todo[q][1]].ref = 1 /\ ftable'[todo[q][1]].type = "FD_NONE"
      BY Zenon DEF fork
    <2>1. pc[q] = "pipe"
      BY <1>1, <1>3, Zenon
    <2>2. {fd \in Fd : ofile[p][fd] = todo[q][1]} = {}
      BY <2>1, Pending, Zenon
    <2>3. Refs(ofile[p], todo[q][1]) = 0
      BY <2>2, Zenon DEF Counting, RowLaw
    <2> QED
      BY <1>5, <2>1, <2>3, Pending, Zenon
  <1>10. \A g \in File : ftable'[g].ref = 0 => ftable'[g] = Closed
    BY <1>4, <1>5 DEF IInv, FileInv
  <1>11. \A q \in Proc : StaysPut(q)
    BY <1>1, <1>3, Zenon DEF StaysPut, Working, Reading, Writing
  <1> QED
    BY <1>5, <1>6, <1>7, <1>8, <1>9, <1>10, <1>11, Recounted, Zenon DEF fork

-----------------------------------------------------------------------------
(* open(), and the closing of a file *)

\* The two sets that iref counts.
LEMMA InodesCount ==
  ASSUME Counting
  PROVE  Cardinality(InodeFiles) \in Nat /\ Cardinality(InodeCopies) \in Nat
  <1>1. InodeFiles \in SUBSET File /\ InodeCopies \in SUBSET Proc
    BY Zenon DEF InodeFiles, InodeCopies
  <1> QED
    BY <1>1, Zenon DEF Counting, SizeLaw

LEMMA InodesChange ==
  ASSUME Counting
  PROVE  /\ \A f : f \in InodeFiles => Cardinality(InodeFiles \ {f}) = Cardinality(InodeFiles) - 1
         /\ \A f : f \notin InodeFiles => Cardinality(InodeFiles \cup {f}) = Cardinality(InodeFiles) + 1
         /\ \A p : p \in InodeCopies => Cardinality(InodeCopies \ {p}) = Cardinality(InodeCopies) - 1
         /\ \A p : p \notin InodeCopies => Cardinality(InodeCopies \cup {p}) = Cardinality(InodeCopies) + 1
  <1>1. InodeFiles \in SUBSET File /\ InodeCopies \in SUBSET Proc
    BY Zenon DEF InodeFiles, InodeCopies
  <1> QED
    BY <1>1, Zenon DEF Counting, SizeLaw

LEMMA OpenKeeps ==
  ASSUME Counting, IInv, NEW p \in Proc, pc[p] = "user", sys_open(p)
  PROVE  IInv'
  <1>1. CASE UNCHANGED tables
    BY <1>1, Same, Zenon DEF sys_open, procs
  <1>2. ASSUME NEW f \in File, filealloc(f), fdalloc(p, f), iref' = iref + 1,
               ftable' = [ftable EXCEPT ![f] = [Console EXCEPT !.ref = 1]]
        PROVE  IInv'
    <2>1. PICK e \in Fd : ofile[p][e] = None /\ ofile' = [ofile EXCEPT ![p][e] = f]
      BY <1>2, Zenon DEF fdalloc, IsMin, FreeFds
    <2>2. ftable[f].ref = 0 /\ ftable[f] = Closed
      BY <1>2, Zenon DEF filealloc, IsMin, FreeFiles, IInv, FileInv
    <2>3. /\ \A g \in File \ {f} : ftable'[g] = ftable[g]
          /\ ftable'[f].ref = 1 /\ ftable'[f].type = "FD_INODE"
      BY <1>2, Zenon DEF IInv, Types, Console
    <2>4. \A q \in Proc \ {p} : ofile'[q] = ofile[q]
      BY <2>1
    <2>5. Types'
      <3>1. ftable' \in [File -> FileType]
        <4>1. [Console EXCEPT !.ref = 1] \in FileType
          BY Zenon DEF Console, FileType
        <4> QED
          BY <1>2, <4>1, Zenon DEF IInv, Types
      <3>2. ofile' \in [Proc -> [Fd -> File \cup {None}]]
        BY <2>1, Zenon DEF IInv, Types
      <3> QED
        BY <3>1, <3>2, Zenon DEF IInv, Types, sys_open, procs
    <2>6. LocalInv'
      BY <2>4, Zenon DEF IInv, LocalInv, Local, sys_open, procs
    <2>7. FileInv'
      <3>1. \A q \in Proc : pc[q] = "pipe" => todo[q][1] \in File \ {f}
        BY <2>2, Pending
      <3> QED
        BY <2>3, <3>1 DEF IInv, FileInv, PipeSound, sys_open
    <2>8. \A x, w : \A g \in File : IsEnd(ftable'[g], x, w) = IsEnd(ftable[g], x, w)
      BY <2>2, <2>3 DEF IsEnd, Closed
    <2>9. EndInv'
      BY <2>8, EndKept, Zenon DEF IInv, sys_open
    <2>10. IoInv'
      <3>1. EndsStay
        BY <2>8 DEF EndsStay, IInv, Types
      <3>2. \A q \in Proc : StaysPut(q)
        BY <2>4, Zenon DEF StaysPut, sys_open, Working, Reading, Writing
      <3> QED
        BY <3>1, <3>2, IoMoved, Zenon DEF IInv, sys_open
    <2>11. PipeInv'
      <3>1. \A q \in Proc : SleepsOn(q)
        BY Zenon DEF SleepsOn, sys_open
      <3> QED
        BY <3>1, PipeKept, Zenon DEF IInv, sys_open
    <2>12. RefCounts'
      <3>1. \A g \in File : /\ RefsIn(Fd, ofile', g) = RefsIn(Fd, ofile, g) - One(ofile[p][e], g) + One(f, g)
                            /\ RefsIn(Fd, ofile, g) \in Nat
        BY <2>1, FdWritten, Zenon DEF IInv
      <3>2. \A g \in File : RefsIn({1, 2}, todo, g) \in Nat
        BY TablesOf, RefsNat, Zenon
      <3>3. \A g \in File : One(ofile[p][e], g) = 0 /\ One(f, g) \in Nat
        BY <2>1 DEF One, File, None
      <3>4. \A g \in File : ftable'[g].ref = ftable[g].ref + One(f, g)
        BY <2>2, <2>3 DEF One, IInv, Types, FileType
      <3>5. UNCHANGED todo
        BY Zenon DEF sys_open
      <3> QED
        BY <3>1, <3>2, <3>3, <3>4, <3>5 DEF IInv, RefCounts
    <2>13. IrefInv'
      <3>1. InodeFiles' = InodeFiles \cup {f} /\ f \notin InodeFiles /\ InodeCopies' = InodeCopies
        BY <2>2, <2>3 DEF InodeFiles, InodeCopies, sys_open, Closed
      <3>2. Cardinality(InodeFiles') = Cardinality(InodeFiles) + 1
        BY <3>1, InodesChange, Zenon
      <3> QED
        BY <1>2, <3>1, <3>2, InodesCount DEF IInv, IrefInv
    <2> QED
      BY <2>5, <2>6, <2>7, <2>9, <2>10, <2>11, <2>12, <2>13, Zenon DEF IInv
  <1> QED
    BY <1>1, <1>2, Zenon DEF sys_open

\* What taking the file to close out of the descriptors or of todo does.
LEMMA ClosingTakes ==
  ASSUME Counting, IInv, NEW p \in Proc, pc[p] = "close", NEW f \in File, Closing(p, f)
  PROVE  /\ ofile' \in [Proc -> [Fd -> File \cup {None}]]
         /\ todo' \in [Proc -> [{1, 2} -> File \cup {None}]]
         /\ \A q \in Proc \ {p} : ofile'[q] = ofile[q] /\ todo'[q] = todo[q]
         /\ p \in exiting => todo'[p] = NoFiles
         /\ \A g \in File : RefsIn(Fd, ofile', g) + RefsIn({1, 2}, todo', g)
                            = RefsIn(Fd, ofile, g) + RefsIn({1, 2}, todo, g) - One(f, g)
         /\ ftable[f].ref <= 1 =>
              /\ ftable[f].ref = 1
              /\ \A q \in Proc \ {p} : (\A fd \in Fd : ofile[q][fd] # f) /\ \A j \in {1, 2} : todo[q][j] # f
  <1>1. /\ \A g \in File : One(None, g) = 0 /\ One(f, g) \in Nat
        /\ \A g \in File : RefsIn(Fd, ofile, g) \in Nat /\ RefsIn({1, 2}, todo, g) \in Nat
    BY TablesOf, RefsNat DEF One, File, None
  <1>2. CASE p \in exiting
    <2>1. PICK fd \in Fd : ofile[p][fd] = f /\ ofile' = [ofile EXCEPT ![p][fd] = None] /\ todo' = todo
      BY <1>2, Zenon DEF Closing
    <2>2. /\ ofile' \in [Proc -> [Fd -> File \cup {None}]]
          /\ \A q \in Proc \ {p} : ofile'[q] = ofile[q] /\ todo'[q] = todo[q]
      BY <2>1, Zenon DEF IInv, Types
    <2>3. todo'[p] = NoFiles /\ todo' \in [Proc -> [{1, 2} -> File \cup {None}]]
      BY <1>2, <2>1, Zenon DEF IInv, LocalInv, Local, Types
    <2>4. \A g \in File : RefsIn(Fd, ofile', g) = RefsIn(Fd, ofile, g) - One(f, g) + One(None, g)
      BY <2>1, FdWritten, Zenon DEF IInv
    <2>5. \A g \in File : RefsIn(Fd, ofile', g) + RefsIn({1, 2}, todo', g)
                          = RefsIn(Fd, ofile, g) + RefsIn({1, 2}, todo, g) - One(f, g)
      <3>1. todo' = todo
        BY <2>1, Zenon
      <3> QED
        BY <1>1, <3>1, <2>4
    <2>6. ftable[f].ref <= 1 =>
            /\ ftable[f].ref = 1
            /\ \A q \in Proc \ {p} : (\A e \in Fd : ofile[q][e] # f) /\ \A j \in {1, 2} : todo[q][j] # f
      BY <2>1, OnlyFd DEF IInv
    <2> QED
      BY <2>2, <2>3, <2>5, <2>6, Zenon
  <1>3. CASE p \notin exiting
    <2>1. PICK i \in {1, 2} : todo[p][i] = f /\ todo' = [todo EXCEPT ![p][i] = None] /\ ofile' = ofile
      BY <1>3, Zenon DEF Closing
    <2>2. /\ todo' \in [Proc -> [{1, 2} -> File \cup {None}]]
          /\ \A q \in Proc \ {p} : ofile'[q] = ofile[q] /\ todo'[q] = todo[q]
      BY <2>1, Zenon DEF IInv, Types
    <2>3. ofile' \in [Proc -> [Fd -> File \cup {None}]]
      BY <2>1, Zenon DEF IInv, Types
    <2>4. \A g \in File : RefsIn({1, 2}, todo', g) = RefsIn({1, 2}, todo, g) - One(f, g) + One(None, g)
      <3>1. Sets({1, 2}, todo, p, i, None, todo')
        BY <2>1, Zenon DEF Sets, IInv, Types
      <3> QED
        BY <2>1, <3>1, TodoWritten, ZenonT(30)
    <2>5. \A g \in File : RefsIn(Fd, ofile', g) + RefsIn({1, 2}, todo', g)
                          = RefsIn(Fd, ofile, g) + RefsIn({1, 2}, todo, g) - One(f, g)
      <3>1. ofile' = ofile
        BY <2>1, Zenon
      <3> QED
        BY <1>1, <3>1, <2>4
    <2>6. ftable[f].ref <= 1 =>
            /\ ftable[f].ref = 1
            /\ \A q \in Proc \ {p} : (\A e \in Fd : ofile[q][e] # f) /\ \A j \in {1, 2} : todo[q][j] # f
      BY <2>1, OnlyTodo DEF IInv
    <2> QED
      BY <1>3, <2>2, <2>3, <2>5, <2>6, Zenon
  <1> QED
    BY <1>2, <1>3, Zenon

LEMMA OnwardLocal ==
  ASSUME NEW p \in Proc, pc'[p] = Onward(p, ofile'[p], todo'[p]), UNCHANGED exiting,
         ff'[p] = Closed, p \in exiting => todo'[p] = NoFiles
  PROVE  Local(p)'
  BY Zenon DEF Local, Onward

LEMMA OnwardLabel ==
  ASSUME NEW p, NEW o, NEW left
  PROVE  Onward(p, o, left) \in {"close", "exit", "user"}
  BY Zenon DEF Onward

LEMMA CountedDown ==
  ASSUME Counting, IInv, NEW p \in Proc, pc[p] = "close", NEW f \in File, Closing(p, f), ftable[f].ref > 1,
         ftable' = [ftable EXCEPT ![f].ref = @ - 1], Goto(p, Onward(p, ofile'[p], todo'[p])),
         UNCHANGED ff, UNCHANGED <<procs, iref, pipe, io>>
  PROVE  IInv'
  <1>1. /\ ofile' \in [Proc -> [Fd -> File \cup {None}]]
        /\ todo' \in [Proc -> [{1, 2} -> File \cup {None}]]
    BY ClosingTakes, Zenon
  <1>2. /\ \A q \in Proc \ {p} : ofile'[q] = ofile[q] /\ todo'[q] = todo[q]
        /\ p \in exiting => todo'[p] = NoFiles
    BY ClosingTakes, Zenon
  <1>3. /\ pc'[p] = Onward(p, ofile'[p], todo'[p]) /\ pc'[p] \in {"close", "exit", "user"}
        /\ \A q \in Proc \ {p} : pc'[q] = pc[q]
    BY OnwardLabel, Zenon DEF Goto, IInv, Types
  <1>4. ftable[f].ref - 1 \in Nat /\ \A g \in File : ftable[g].ref \in Nat
    BY DEF IInv, Types, FileType
  <1>5. ftable' = [ftable EXCEPT ![f].ref = ftable[f].ref - 1]
    BY Zenon DEF IInv, Types
  <1>6. /\ \A g \in File : Alike(ftable'[g], ftable[g]) /\ (g # f => ftable'[g] = ftable[g])
        /\ ftable'[f].ref = ftable[f].ref - 1
    BY <1>4, <1>5, RefWritten, Zenon DEF IInv
  <1>7. Types'
    <2>1. ftable' \in [File -> FileType]
      BY <1>4, <1>5, RefWritten, Zenon DEF IInv
    <2>2. pc' \in [Proc -> Label]
      BY <1>3, Zenon DEF Goto, IInv, Types, Label
    <2> QED
      BY <1>1, <2>1, <2>2, Zenon DEF IInv, Types, procs
  <1>8. LocalInv'
    <2>1. Local(p)'
      <3>1. ff'[p] = Closed
        BY Zenon DEF IInv, LocalInv, Local
      <3> QED
        BY <1>2, <1>3, <3>1, OnwardLocal, Zenon DEF procs
    <2>2. ASSUME NEW q \in Proc \ {p} PROVE Local(q)'
      BY <1>2, <1>3, LocalKept, Zenon DEF IInv, LocalInv, procs
    <2> QED
      BY <2>1, <2>2, Zenon DEF LocalInv
  <1>9. RefCounts'
    <2>1. \A g \in File : RefsIn(Fd, ofile', g) + RefsIn({1, 2}, todo', g)
                            = RefsIn(Fd, ofile, g) + RefsIn({1, 2}, todo, g) - One(f, g)
      BY ClosingTakes, Zenon
    <2>2. \A g \in File : ftable[g].ref = RefsIn(Fd, ofile, g) + RefsIn({1, 2}, todo, g)
      BY Zenon DEF IInv, RefCounts
    <2>3. \A g \in File : ftable'[g].ref = ftable[g].ref - One(f, g)
      BY <1>4, <1>6 DEF One
    <2> SUFFICES ASSUME NEW g \in File
                 PROVE  ftable'[g].ref = RefsIn(Fd, ofile', g) + RefsIn({1, 2}, todo', g)
      BY Zenon DEF RefCounts
    <2>4. /\ ftable'[g].ref = ftable[g].ref - One(f, g)
          /\ ftable[g].ref = RefsIn(Fd, ofile, g) + RefsIn({1, 2}, todo, g)
      BY <2>2, <2>3, Zenon
    <2>5. ftable'[g].ref = RefsIn(Fd, ofile, g) + RefsIn({1, 2}, todo, g) - One(f, g)
      <3>1. RefsIn(Fd, ofile, g) \in Nat /\ RefsIn({1, 2}, todo, g) \in Nat /\ One(f, g) \in Nat
        BY TablesOf, RefsNat, Zenon DEF One
      <3> DEFINE a == RefsIn(Fd, ofile, g)  b == RefsIn({1, 2}, todo, g)  c == One(f, g)
      <3>2. (a + b) - c = a + b - c
        <4> HIDE DEF a, b, c
        <4>1. a \in Nat /\ b \in Nat /\ c \in Nat
          BY <3>1, Zenon DEF a, b, c
        <4> QED
          BY <4>1
      <3> QED
        BY <2>4, <3>2, Zenon
    <2> QED
      BY <2>1, <2>5, Zenon
  <1>10. \A q \in Proc : pc'[q] = "pipe" => ftable'[todo'[q][1]].ref = 1 /\ ftable'[todo'[q][1]].type = "FD_NONE"
    <2> SUFFICES ASSUME NEW q \in Proc, pc'[q] = "pipe"
                 PROVE  ftable'[todo'[q][1]].ref = 1 /\ ftable'[todo'[q][1]].type = "FD_NONE"
      BY Zenon
    <2>1. q # p /\ pc[q] = "pipe" /\ todo'[q] = todo[q]
      BY <1>2, <1>3, Zenon
    <2>2. todo[q][1] \in File /\ ftable[todo[q][1]].ref = 1 /\ ftable[todo[q][1]].type = "FD_NONE"
      BY <2>1, Pending, Zenon
    <2> QED
      BY <1>6, <2>1, <2>2
  <1>11. \A g \in File : ftable'[g].ref = 0 => ftable'[g] = Closed
    BY <1>4, <1>6 DEF IInv, FileInv
  <1>12. \A q \in Proc : StaysPut(q)
    BY <1>2, <1>3, Zenon DEF StaysPut, Working, Reading, Writing
  <1> QED
    BY <1>6, <1>7, <1>8, <1>9, <1>10, <1>11, <1>12, Recounted, Zenon

LEMMA LastClosed ==
  ASSUME Counting, IInv, NEW p \in Proc, pc[p] = "close", NEW f \in File, Closing(p, f), ~(ftable[f].ref > 1),
         ftable' = [ftable EXCEPT ![f] = Closed], ff' = [ff EXCEPT ![p] = lastcopy(f)],
         Goto(p, "last"), UNCHANGED <<procs, iref, pipe, io>>
  PROVE  IInv'
  <1>1. ftable[f].ref <= 1
    BY DEF IInv, Types, FileType
  <1>2. /\ ofile' \in [Proc -> [Fd -> File \cup {None}]]
        /\ todo' \in [Proc -> [{1, 2} -> File \cup {None}]]
    BY ClosingTakes, Zenon
  <1>3. /\ \A q \in Proc \ {p} : ofile'[q] = ofile[q] /\ todo'[q] = todo[q]
        /\ p \in exiting => todo'[p] = NoFiles
    BY ClosingTakes, Zenon
  <1>4. pc'[p] = "last" /\ \A q \in Proc \ {p} : pc'[q] = pc[q]
    BY Zenon DEF Goto, IInv, Types
  <1>5. /\ ftable'[f] = Closed /\ \A g \in File \ {f} : ftable'[g] = ftable[g]
        /\ ff'[p] = ftable[f] /\ \A q \in Proc \ {p} : ff'[q] = ff[q]
    BY Zenon DEF IInv, Types, lastcopy
  <1>6. ff[p] = Closed
    BY Zenon DEF IInv, LocalInv, Local
  <1>7. /\ ftable[f].ref = 1
        /\ \A q \in Proc \ {p} : (\A fd \in Fd : ofile[q][fd] # f) /\ \A j \in {1, 2} : todo[q][j] # f
    BY <1>1, ClosingTakes, Zenon
  <1>8. Types'
    <2>1. Closed \in FileType
      BY Zenon DEF Closed, FileType
    <2>2. ftable' \in [File -> FileType]
      BY <2>1, Zenon DEF IInv, Types
    <2>3. ff' \in [Proc -> FileType]
      BY Zenon DEF IInv, Types, lastcopy
    <2>4. pc' \in [Proc -> Label]
      BY Zenon DEF Goto, IInv, Types, Label
    <2> QED
      BY <1>2, <2>2, <2>3, <2>4, Zenon DEF IInv, Types, procs
  <1>9. LocalInv'
    <2>1. Local(p)'
      BY <1>3, <1>4, Zenon DEF Local, procs
    <2>2. ASSUME NEW q \in Proc \ {p} PROVE Local(q)'
      BY <1>3, <1>4, <1>5, LocalKept, Zenon DEF IInv, LocalInv, procs
    <2> QED
      BY <2>1, <2>2, Zenon DEF LocalInv
  <1>10. FileInv'
    <2>1. \A q \in Proc : pc'[q] = "pipe" => ftable'[todo'[q][1]].ref = 1 /\ ftable'[todo'[q][1]].type = "FD_NONE"
      <3> SUFFICES ASSUME NEW q \in Proc, pc'[q] = "pipe"
                   PROVE  ftable'[todo'[q][1]].ref = 1 /\ ftable'[todo'[q][1]].type = "FD_NONE"
        BY Zenon
      <3>1. q # p /\ pc[q] = "pipe" /\ todo'[q] = todo[q]
        BY <1>3, <1>4, Zenon
      <3>2. todo[q][1] \in File /\ ftable[todo[q][1]].ref = 1 /\ ftable[todo[q][1]].type = "FD_NONE"
        BY <3>1, Pending, Zenon
      <3> QED
        BY <1>5, <1>7, <3>1, <3>2
    <2>2. PipeSound(Closed)
      BY Zenon DEF PipeSound, Closed
    <2> QED
      BY <1>5, <2>1, <2>2 DEF IInv, FileInv
  <1>11. \A x, w : ~IsEnd(Closed, x, w)
    BY Zenon DEF IsEnd, Closed
  <1>12. EndInv'
    <2>1. ASSUME NEW x, NEW w, OneEnd(x, w) PROVE OneEnd(x, w)' /\ Ends(x, w)' = Ends(x, w)
      <3>1. OneEnd(x, w)'
        BY <1>5, <1>6, <1>11, <2>1 DEF OneEnd
      <3>2. Ends(x, w)' => Ends(x, w)
        BY <1>5, <1>11 DEF Ends
      <3>3. Ends(x, w) => Ends(x, w)'
        BY <1>5, <1>6, <1>11, Zenon DEF Ends
      <3> QED
        BY <3>1, <3>2, <3>3, Zenon DEF Ends
    <2> QED
      BY <2>1, Zenon DEF IInv, EndInv, Flags
  <1>13. IoInv'
    <2> SUFFICES ASSUME NEW q \in Proc PROVE Works(q)'
      BY Zenon DEF IoInv
    <2>1. Works(q)
      BY Zenon DEF IInv, IoInv
    <2>2. CASE q = p
      BY <1>4, <2>1, <2>2, Zenon DEF Works, Working, Reading, Writing
    <2>3. CASE q # p
      <3>1. \A fd \in Fd : ofile[q][fd] # None => ftable'[ofile[q][fd]] = ftable[ofile[q][fd]]
        BY <1>5, <1>7, <2>3 DEF IInv, Types
      <3> QED
        BY <1>3, <1>4, <2>1, <2>3, <3>1, Zenon DEF Works
    <2> QED
      BY <2>2, <2>3, Zenon
  <1>14. PipeInv'
    <2>1. \A q \in Proc : SleepsOn(q)
      BY <1>4, Zenon DEF SleepsOn, Locking, Sleeping
    <2> QED
      BY <2>1, PipeKept, Zenon DEF IInv
  <1>15. RefCounts'
    <2>1. \A g \in File : RefsIn(Fd, ofile', g) + RefsIn({1, 2}, todo', g)
                            = RefsIn(Fd, ofile, g) + RefsIn({1, 2}, todo, g) - One(f, g)
      BY ClosingTakes, Zenon
    <2>2. \A g \in File : ftable[g].ref = RefsIn(Fd, ofile, g) + RefsIn({1, 2}, todo, g)
      BY Zenon DEF IInv, RefCounts
    <2>3. \A g \in File : ftable'[g].ref = ftable[g].ref - One(f, g)
      <3>1. \A g \in File : ftable[g].ref \in Nat
        BY Zenon DEF IInv, Types, FileType
      <3> QED
        BY <1>5, <1>7, <3>1 DEF One, Closed
    <2> SUFFICES ASSUME NEW g \in File
                 PROVE  ftable'[g].ref = RefsIn(Fd, ofile', g) + RefsIn({1, 2}, todo', g)
      BY Zenon DEF RefCounts
    <2>4. /\ ftable'[g].ref = ftable[g].ref - One(f, g)
          /\ ftable[g].ref = RefsIn(Fd, ofile, g) + RefsIn({1, 2}, todo, g)
      BY <2>2, <2>3, Zenon
    <2>5. ftable'[g].ref = RefsIn(Fd, ofile, g) + RefsIn({1, 2}, todo, g) - One(f, g)
      <3>1. RefsIn(Fd, ofile, g) \in Nat /\ RefsIn({1, 2}, todo, g) \in Nat /\ One(f, g) \in Nat
        BY TablesOf, RefsNat, Zenon DEF One
      <3> DEFINE a == RefsIn(Fd, ofile, g)  b == RefsIn({1, 2}, todo, g)  c == One(f, g)
      <3>2. (a + b) - c = a + b - c
        <4> HIDE DEF a, b, c
        <4>1. a \in Nat /\ b \in Nat /\ c \in Nat
          BY <3>1, Zenon DEF a, b, c
        <4> QED
          BY <4>1
      <3> QED
        BY <2>4, <3>2, Zenon
    <2> QED
      BY <2>1, <2>5, Zenon
  <1>16. IrefInv'
    <2>1. CASE ftable[f].type = "FD_INODE"
      <3>1. /\ InodeFiles' = InodeFiles \ {f} /\ f \in InodeFiles
            /\ InodeCopies' = InodeCopies \cup {p} /\ p \notin InodeCopies
        BY <1>5, <1>6, <2>1 DEF InodeFiles, InodeCopies, Closed
      <3>2. /\ Cardinality(InodeFiles') = Cardinality(InodeFiles) - 1
            /\ Cardinality(InodeCopies') = Cardinality(InodeCopies) + 1
        BY <3>1, InodesChange, Zenon
      <3> QED
        BY <3>2, InodesCount DEF IInv, IrefInv
    <2>2. CASE ftable[f].type # "FD_INODE"
      <3>1. \A g \in File : ftable'[g].type = "FD_INODE" <=> ftable[g].type = "FD_INODE"
        BY <1>5, <2>2 DEF Closed
      <3>2. \A q \in Proc : ff'[q].type = "FD_INODE" <=> ff[q].type = "FD_INODE"
        BY <1>5, <1>6, <2>2 DEF Closed
      <3> QED
        BY <3>1, <3>2, IrefKept, Zenon DEF IInv
    <2> QED
      BY <2>1, <2>2, Zenon
  <1> QED
    BY <1>8, <1>9, <1>10, <1>12, <1>13, <1>14, <1>15, <1>16, Zenon DEF IInv

LEMMA FilecloseKeeps ==
  ASSUME Counting, IInv, NEW p \in Proc, fileclose(p)
  PROVE  IInv'
  <1>1. PICK f \in File :
          /\ pc[p] = "close" /\ Closing(p, f) /\ UNCHANGED <<procs, iref, pipe, io>>
          /\ \/ /\ ftable[f].ref > 1
                /\ ftable' = [ftable EXCEPT ![f].ref = @ - 1]
                /\ Goto(p, Onward(p, ofile'[p], todo'[p])) /\ UNCHANGED ff
             \/ /\ ~(ftable[f].ref > 1)
                /\ ftable' = [ftable EXCEPT ![f] = Closed]
                /\ ff' = [ff EXCEPT ![p] = lastcopy(f)]
                /\ Goto(p, "last")
    BY Zenon DEF fileclose
  <1> QED
    BY <1>1, CountedDown, LastClosed, Zenon

LEMMA CloseinodeKeeps ==
  ASSUME Counting, IInv, NEW p \in Proc, closeinode(p)
  PROVE  IInv'
  <1>1. /\ pc'[p] = Onward(p, ofile[p], todo[p]) /\ pc'[p] \in {"close", "exit", "user"}
        /\ \A q \in Proc \ {p} : pc'[q] = pc[q] /\ ff'[q] = ff[q]
        /\ ff'[p] = Closed /\ pc[p] = "last" /\ ff[p].type # "FD_PIPE"
    BY OnwardLabel, Zenon DEF closeinode, Goto, IInv, Types
  <1>2. Types'
    <2>1. Closed \in FileType
      BY Zenon DEF Closed, FileType
    <2>2. ff' \in [Proc -> FileType]
      BY <2>1, Zenon DEF closeinode, IInv, Types
    <2>3. pc' \in [Proc -> Label]
      BY OnwardLabel, Zenon DEF closeinode, Goto, IInv, Types, Label
    <2> QED
      BY <2>2, <2>3, Zenon DEF closeinode, IInv, Types, procs
  <1>3. LocalInv'
    <2>1. Local(p)'
      <3>1. p \in exiting => todo[p] = NoFiles
        BY Zenon DEF IInv, LocalInv, Local
      <3> QED
        BY <1>1, <3>1, OnwardLocal, Zenon DEF closeinode, procs
    <2>2. ASSUME NEW q \in Proc \ {p} PROVE Local(q)'
      BY <1>1, LocalKept, Zenon DEF IInv, LocalInv, closeinode, procs
    <2> QED
      BY <2>1, <2>2, Zenon DEF LocalInv
  <1>4. FileInv'
    <2>1. PipeSound(Closed) /\ UNCHANGED <<ftable, todo>>
      BY Zenon DEF PipeSound, Closed, closeinode
    <2> QED
      BY <1>1, <2>1, Zenon DEF IInv, FileInv
  <1>5. EndInv'
    <2>1. \A x, w : \A q \in Proc : IsEnd(ff'[q], x, w) = IsEnd(ff[q], x, w)
      BY <1>1 DEF IsEnd, Closed
    <2> QED
      BY <2>1, EndKept, Zenon DEF IInv, closeinode
  <1>6. IoInv'
    <2>1. EndsStay
      BY Zenon DEF EndsStay, closeinode
    <2>2. \A q \in Proc : StaysPut(q)
      BY <1>1, Zenon DEF StaysPut, closeinode, Working, Reading, Writing
    <2> QED
      BY <2>1, <2>2, IoMoved, Zenon DEF IInv, closeinode
  <1>7. PipeInv'
    <2>1. \A q \in Proc : SleepsOn(q)
      BY <1>1, Zenon DEF SleepsOn, Locking, Sleeping, closeinode
    <2> QED
      BY <2>1, PipeKept, Zenon DEF IInv, closeinode
  <1>8. RefCounts'
    BY Zenon DEF IInv, RefCounts, closeinode
  <1>9. IrefInv'
    <2>1. CASE ff[p].type = "FD_INODE"
      <3>1. InodeFiles' = InodeFiles /\ InodeCopies' = InodeCopies \ {p} /\ p \in InodeCopies
        BY <1>1, <2>1 DEF InodeFiles, InodeCopies, Closed, closeinode
      <3>2. Cardinality(InodeCopies') = Cardinality(InodeCopies) - 1
        BY <3>1, InodesChange, Zenon
      <3> QED
        BY <2>1, <3>1, <3>2, InodesCount DEF IInv, IrefInv, closeinode
    <2>2. CASE ff[p].type # "FD_INODE"
      <3>1. \A q \in Proc : ff'[q].type = "FD_INODE" <=> ff[q].type = "FD_INODE"
        BY <1>1, <2>2 DEF Closed
      <3> QED
        BY <2>2, <3>1, IrefKept, Zenon DEF IInv, closeinode
    <2> QED
      BY <2>1, <2>2, Zenon
  <1> QED
    BY <1>2, <1>3, <1>4, <1>5, <1>6, <1>7, <1>8, <1>9, Zenon DEF IInv

-----------------------------------------------------------------------------
(* pipealloc() *)

\* What the two new files and the pipe do to the tables, whether or not they get descriptors.
LEMMA Allocated ==
  ASSUME Counting, IInv, NEW p \in Proc, pc[p] = "pipe", NEW wf \in File, filealloc(wf), NEW x \in kalloc,
         pipealloc(p, wf, x), UNCHANGED <<exiting, iref, ff, io>>, pc'[p] \in {"close", "user"},
         \A q \in Proc \ {p} : pc'[q] = pc[q] /\ ofile'[q] = ofile[q] /\ todo'[q] = todo[q]
  PROVE  /\ FileInv' /\ EndInv' /\ IoInv' /\ PipeInv' /\ IrefInv'
         /\ ftable' \in [File -> FileType] /\ pipe' \in [Page -> PipeType]
         /\ \A g \in File : ftable'[g].ref = ftable[g].ref + One(wf, g)
  <1> DEFINE rf == todo[p][1]
             re == PipeEnd(x, FALSE)
             we == PipeEnd(x, TRUE)
  <1>1. ftable[wf].ref = 0 /\ ftable[wf] = Closed
    BY Zenon DEF filealloc, IsMin, FreeFiles, IInv, FileInv
  <1>2. /\ rf \in File /\ ftable[rf].ref = 1 /\ ftable[rf].type = "FD_NONE"
        /\ \A q \in Proc, fd \in Fd : ofile[q][fd] # rf
        /\ \A q \in Proc \ {p}, j \in {1, 2} : todo[q][j] # rf
    BY Pending, Zenon
  <1>3. rf # wf
    BY <1>1, <1>2
  <1>4. \A q \in Proc, fd \in Fd : ofile[q][fd] # wf
    BY <1>1, Unreferenced, Zenon DEF IInv
  <1>5. x \in Page /\ ~pipe[x].used
    BY Zenon DEF kalloc
  <1>6. pipe[x] = Free /\ ~Ends(x, TRUE) /\ ~Ends(x, FALSE)
    BY <1>5, Zenon DEF IInv, EndInv, Flags, Free
  <1>7. /\ ftable'[rf] = re /\ ftable'[wf] = we
        /\ \A g \in File \ {rf, wf} : ftable'[g] = ftable[g]
    BY <1>2, <1>3, Zenon DEF pipealloc, IInv, Types
  <1>8. pipe'[x] = Opened /\ \A y \in Page \ {x} : pipe'[y] = pipe[y]
    BY <1>5, Zenon DEF pipealloc, IInv, Types
  <1>9. ftable' \in [File -> FileType]
    <2>1. we \in FileType /\ re \in FileType
      BY <1>5, Zenon DEF re, we, PipeEnd, FileType
    <2> QED
      BY <1>2, <2>1, Zenon DEF pipealloc, IInv, Types
  <1>10. pipe' \in [Page -> PipeType]
    <2>1. Opened \in PipeType
      <3>1. 0 \in 0..(CounterMod - 1)
        BY FilesAssumption
      <3>2. Free \in PipeType
        BY <3>1, Zenon DEF Free, PipeType, None
      <3> QED
        BY <3>2, Zenon DEF Opened, PipeType
    <2> QED
      BY <1>5, <2>1, Zenon DEF pipealloc, IInv, Types
  <1> HIDE DEF rf, re, we
  <1>11. \A g \in File : ftable'[g].ref = ftable[g].ref + One(wf, g)
    <2>1. ftable'[rf].ref = 1 /\ ftable'[wf].ref = 1
      BY <1>7 DEF re, we, PipeEnd
    <2>2. \A g \in File : ftable[g].ref \in Nat
      BY Zenon DEF IInv, Types, FileType
    <2> SUFFICES ASSUME NEW g \in File PROVE ftable'[g].ref = ftable[g].ref + One(wf, g)
      BY Zenon
    <2>3. CASE g = rf
      BY <1>2, <1>3, <2>1, <2>3 DEF One
    <2>4. CASE g = wf
      BY <1>1, <2>1, <2>4 DEF One
    <2>5. CASE g \notin {rf, wf}
      BY <1>7, <2>2, <2>5 DEF One
    <2> QED
      BY <2>3, <2>4, <2>5, Zenon
  <1>12. FileInv'
    <2>1. \A q \in Proc : pc'[q] = "pipe" => ftable'[todo'[q][1]].ref = 1 /\ ftable'[todo'[q][1]].type = "FD_NONE"
      <3> SUFFICES ASSUME NEW q \in Proc, pc'[q] = "pipe"
                   PROVE  ftable'[todo'[q][1]].ref = 1 /\ ftable'[todo'[q][1]].type = "FD_NONE"
        BY Zenon
      <3>1. q # p /\ pc[q] = "pipe" /\ todo'[q] = todo[q]
        BY Zenon
      <3>2. todo[q][1] \in File /\ ftable[todo[q][1]].ref = 1 /\ ftable[todo[q][1]].type = "FD_NONE"
        BY <3>1, Pending, Zenon
      <3>3. todo[q][1] \notin {rf, wf}
        BY <1>1, <1>2, <3>1, <3>2
      <3> QED
        BY <1>7, <3>1, <3>2, <3>3, Zenon
    <2>2. /\ PipeSound(we) /\ PipeSound(re)
          /\ we.ref = 1 /\ re.ref = 1
      BY <1>5, Zenon DEF PipeSound, re, we, PipeEnd
    <2>3. \A g \in File : (ftable'[g].ref = 0 => ftable'[g] = Closed) /\ PipeSound(ftable'[g])
      <3> SUFFICES ASSUME NEW g \in File PROVE (ftable'[g].ref = 0 => ftable'[g] = Closed) /\ PipeSound(ftable'[g])
        BY Zenon
      <3>1. CASE g = rf
        BY <1>7, <2>2, <3>1 DEF IInv, FileInv
      <3>2. CASE g = wf
        BY <1>7, <2>2, <3>2 DEF IInv, FileInv
      <3>3. CASE g \notin {rf, wf}
        BY <1>7, <2>2, <3>3, Zenon DEF IInv, FileInv
      <3> QED
        BY <3>1, <3>2, <3>3, Zenon
    <2> QED
      BY <2>1, <2>3, Zenon DEF IInv, FileInv
  <1>13. EndInv'
    <2>1. /\ \A y : ~IsEnd(ftable[rf], y, TRUE) /\ ~IsEnd(ftable[rf], y, FALSE)
          /\ \A y : ~IsEnd(ftable[wf], y, TRUE) /\ ~IsEnd(ftable[wf], y, FALSE)
          /\ \A y : IsEnd(we, y, TRUE) <=> y = x
          /\ \A y : IsEnd(re, y, FALSE) <=> y = x
          /\ \A y : ~IsEnd(we, y, FALSE) /\ ~IsEnd(re, y, TRUE)
      BY <1>1, <1>2 DEF IsEnd, Closed, re, we, PipeEnd
    <2>2. \A g \in File, q \in Proc : /\ ~IsEnd(ftable[g], x, TRUE) /\ ~IsEnd(ftable[g], x, FALSE)
                                      /\ ~IsEnd(ff[q], x, TRUE) /\ ~IsEnd(ff[q], x, FALSE)
      BY <1>6, Zenon DEF Ends
    <2>3. OneEnd(x, TRUE)' /\ OneEnd(x, FALSE)' /\ Ends(x, TRUE)' /\ Ends(x, FALSE)'
      <3>1. \A g \in File : IsEnd(ftable'[g], x, TRUE) <=> g = wf
        BY <1>3, <1>7, <2>1, <2>2, Zenon
      <3>2. \A g \in File : IsEnd(ftable'[g], x, FALSE) <=> g = rf
        BY <1>3, <1>7, <2>1, <2>2, Zenon
      <3>3. OneEnd(x, TRUE)'
        BY <2>2, <3>1, Zenon DEF OneEnd
      <3>4. OneEnd(x, FALSE)'
        BY <2>2, <3>2, Zenon DEF OneEnd
      <3>5. Ends(x, TRUE)' /\ Ends(x, FALSE)'
        BY <1>2, <3>1, <3>2, Zenon DEF Ends
      <3> QED
        BY <3>3, <3>4, <3>5, Zenon
    <2>4. Flags(x)'
      <3>1. Opened.readopen = TRUE /\ Opened.writeopen = TRUE /\ Opened.used = TRUE
        BY Zenon DEF Opened, Free
      <3> QED
        BY <1>8, <2>3, <3>1, Zenon DEF Flags, Ends
    <2>5. ASSUME NEW y \in Page \ {x} PROVE (OneEnd(y, TRUE) /\ OneEnd(y, FALSE) /\ Flags(y))'
      <3>1. \A g \in File : /\ IsEnd(ftable'[g], y, TRUE) <=> IsEnd(ftable[g], y, TRUE)
                            /\ IsEnd(ftable'[g], y, FALSE) <=> IsEnd(ftable[g], y, FALSE)
        <4> SUFFICES ASSUME NEW g \in File
                     PROVE  /\ IsEnd(ftable'[g], y, TRUE) <=> IsEnd(ftable[g], y, TRUE)
                            /\ IsEnd(ftable'[g], y, FALSE) <=> IsEnd(ftable[g], y, FALSE)
          BY Zenon
        <4>1. CASE g = rf
          BY <1>7, <2>1, <4>1, Zenon
        <4>2. CASE g = wf
          <5>1. ftable'[g] = we /\ y # x /\ ftable[g] = ftable[wf]
            BY <1>7, <4>2, Zenon
          <5>2. ~IsEnd(we, y, TRUE) /\ ~IsEnd(we, y, FALSE)
            BY <5>1, Zenon DEF we, IsEnd, PipeEnd
          <5>3. ~IsEnd(ftable[wf], y, TRUE) /\ ~IsEnd(ftable[wf], y, FALSE)
            BY <2>1, Zenon
          <5> QED
            BY <5>1, <5>2, <5>3, Zenon
        <4>3. CASE g \notin {rf, wf}
          BY <1>7, <4>3, Zenon
        <4> QED
          BY <4>1, <4>2, <4>3, Zenon
      <3>2. (Ends(y, TRUE))' = Ends(y, TRUE) /\ Ends(y, FALSE)' = Ends(y, FALSE)
        BY <3>1, Zenon DEF Ends
      <3>3. OneEnd(y, TRUE) /\ OneEnd(y, FALSE) /\ Flags(y)
        BY Zenon DEF IInv, EndInv
      <3>4. OneEnd(y, TRUE)'
        BY <3>1, <3>3, Zenon DEF OneEnd
      <3>5. OneEnd(y, FALSE)'
        BY <3>1, <3>3, Zenon DEF OneEnd
      <3>6. Flags(y)'
        BY <1>8, <3>2, <3>3, Zenon DEF Flags
      <3> QED
        BY <3>4, <3>5, <3>6, Zenon
    <2> QED
      BY <1>5, <2>3, <2>4, <2>5, Zenon DEF EndInv
  <1>14. IoInv'
    <2>1. EndsStay
      <3>1. \A q \in Proc, fd \in Fd : ofile[q][fd] \notin {rf, wf}
        BY <1>2, <1>4, Zenon
      <3>2. ofile \in [Proc -> [Fd -> File \cup {None}]]
        BY Zenon DEF IInv, Types
      <3>3. \A q \in Proc, fd \in Fd : ofile[q][fd] # None => ofile[q][fd] \in File
        BY <3>2
      <3> QED
        BY <1>7, <3>1, <3>3, Zenon DEF EndsStay
    <2>2. \A q \in Proc : StaysPut(q)
      BY Zenon DEF StaysPut, Working, Reading, Writing
    <2> QED
      BY <2>1, <2>2, IoMoved, Zenon DEF IInv
  <1>15. PipeInv'
    <2>1. \A q \in Proc : pc[q] \in Working => io[q].pipe \in Page \ {x}
      BY <1>5, WorkerHasPipe, Zenon
    <2>2. pc[p] \notin Working /\ pc'[p] \notin Working
      BY Zenon DEF Working, Reading, Writing
    <2>3. Locking \subseteq Working /\ Sleeping \subseteq Working /\ "read-asleep" \in Sleeping
      BY Zenon DEF Locking, Sleeping, Working, Reading, Writing
    <2>4. \A q \in Proc : pc'[q] \in Working => pc'[q] = pc[q] /\ io[q].pipe \in Page \ {x}
      BY <2>1, <2>2, Zenon
    <2>5. Held(x)' \in 0..PIPESIZE /\ \A y \in Page \ {x} : Held(y)' = Held(y)
      <3>1. Opened.nread = 0 /\ Opened.nwrite = 0
        BY Zenon DEF Opened, Free
      <3> QED
        BY <1>8, <3>1, FilesAssumption DEF Held
    <2>6. LockInv'
      <3>1. Opened.lock = None
        BY Zenon DEF Opened, Free
      <3>2. \A y \in Page : pipe[y].lock # None => pipe[y].lock # p /\ pipe[y].lock \in Proc
        BY <2>2, <2>3 DEF IInv, PipeInv, LockInv, Types, PipeType
      <3> QED
        BY <1>8, <2>3, <2>4, <3>1, <3>2 DEF IInv, PipeInv, LockInv
    <2>7. HeldInv'
      BY <2>5, Zenon DEF IInv, PipeInv, HeldInv
    <2>8. SleepInv'
      <3>1. \A q \in Proc : pc'[q] \in Sleeping =>
              /\ pc'[q] = pc[q] /\ pipe'[io[q].pipe] = pipe[io[q].pipe]
              /\ Held(io[q].pipe)' = Held(io[q].pipe)
        BY <1>8, <2>3, <2>4, <2>5, Zenon
      <3> QED
        BY <3>1 DEF IInv, PipeInv, SleepInv, Sleeping, Locking
    <2> QED
      BY <2>6, <2>7, <2>8, Zenon DEF PipeInv
  <1>16. IrefInv'
    <2>1. \A g \in File : ftable'[g].type = "FD_INODE" <=> ftable[g].type = "FD_INODE"
      BY <1>1, <1>2, <1>7 DEF re, we, PipeEnd, Closed
    <2> QED
      BY <2>1, IrefKept, Zenon DEF IInv
  <1> QED
    BY <1>9, <1>10, <1>11, <1>12, <1>13, <1>14, <1>15, <1>16, Zenon

LEMMA NoFdsKeeps ==
  ASSUME Counting, IInv, NEW p \in Proc, pc[p] = "pipe", NEW wf \in File, filealloc(wf), NEW x \in kalloc,
         pipealloc(p, wf, x), NoFds(p, wf), UNCHANGED <<procs, iref, ff, io>>
  PROVE  IInv'
  <1>1. /\ pc'[p] = "close" /\ UNCHANGED <<exiting, iref, ff, io>>
        /\ \A q \in Proc \ {p} : pc'[q] = pc[q] /\ ofile'[q] = ofile[q] /\ todo'[q] = todo[q]
    BY Zenon DEF NoFds, Goto, IInv, Types, procs
  <1>2. /\ FileInv' /\ EndInv' /\ IoInv' /\ PipeInv' /\ IrefInv'
        /\ ftable' \in [File -> FileType] /\ pipe' \in [Page -> PipeType]
    BY <1>1, Allocated, Zenon
  <1>3. \A g \in File : ftable'[g].ref = ftable[g].ref + One(wf, g)
    BY <1>1, Allocated, Zenon
  <1>4. todo[p][2] = None /\ p \notin exiting /\ ff[p] = Closed
    BY Zenon DEF IInv, LocalInv, Local
  <1>5. Types'
    <2>1. todo' \in [Proc -> [{1, 2} -> File \cup {None}]]
      BY Zenon DEF IInv, Types, NoFds
    <2>2. pc' \in [Proc -> Label]
      BY Zenon DEF IInv, Types, NoFds, Goto, Label
    <2> QED
      BY <1>2, <2>1, <2>2, Zenon DEF IInv, Types, NoFds, procs
  <1>6. LocalInv'
    <2>1. Local(p)'
      BY <1>1, <1>4, Zenon DEF Local
    <2>2. ASSUME NEW q \in Proc \ {p} PROVE Local(q)'
      BY <1>1, LocalKept, Zenon DEF IInv, LocalInv
    <2> QED
      BY <2>1, <2>2, Zenon DEF LocalInv
  <1>7. RefCounts'
    <2>1. Sets({1, 2}, todo, p, 2, wf, todo')
      BY Zenon DEF Sets, NoFds, IInv, Types
    <2>2. \A g \in File :
            /\ RefsIn({1, 2}, todo', g) = RefsIn({1, 2}, todo, g) - One(todo[p][2], g) + One(wf, g)
            /\ RefsIn({1, 2}, todo, g) \in Nat
      BY <2>1, TodoWritten, Zenon
    <2>3. \A g \in File : One(todo[p][2], g) = 0 /\ One(wf, g) \in Nat
      BY <1>4 DEF One, File, None
    <2>4. \A g \in File : RefsIn(Fd, ofile, g) \in Nat
      BY TablesOf, RefsNat, Zenon
    <2>5. UNCHANGED ofile
      BY Zenon DEF NoFds
    <2> QED
      BY <1>3, <2>2, <2>3, <2>4, <2>5 DEF IInv, RefCounts
  <1> QED
    BY <1>2, <1>5, <1>6, <1>7, Zenon DEF IInv

LEMMA TwoFdsKeeps ==
  ASSUME Counting, IInv, NEW p \in Proc, pc[p] = "pipe", NEW wf \in File, filealloc(wf), NEW x \in kalloc,
         pipealloc(p, wf, x), TwoFds(p, wf), UNCHANGED <<procs, iref, ff, io>>
  PROVE  IInv'
  <1> DEFINE rf == todo[p][1]
  <1>1. PICK fd0, fd1 \in Fd :
          /\ ofile[p][fd0] = None /\ ofile[p][fd1] = None /\ fd1 # fd0
          /\ ofile' = [ofile EXCEPT ![p][fd0] = rf, ![p][fd1] = wf]
          /\ todo' = [todo EXCEPT ![p] = NoFiles] /\ Goto(p, "user")
    BY Zenon DEF TwoFds, IsMin, FreeFds
  <1>2. /\ pc'[p] = "user" /\ todo'[p] = NoFiles /\ UNCHANGED <<exiting, iref, ff, io>>
        /\ \A q \in Proc \ {p} : pc'[q] = pc[q] /\ ofile'[q] = ofile[q] /\ todo'[q] = todo[q]
    BY <1>1, Zenon DEF Goto, IInv, Types, procs
  <1>3. /\ FileInv' /\ EndInv' /\ IoInv' /\ PipeInv' /\ IrefInv'
        /\ ftable' \in [File -> FileType] /\ pipe' \in [Page -> PipeType]
    BY <1>2, Allocated, Zenon
  <1>4. \A g \in File : ftable'[g].ref = ftable[g].ref + One(wf, g)
    BY <1>2, Allocated, Zenon
  <1>5. rf \in File /\ todo[p][2] = None /\ p \notin exiting /\ ff[p] = Closed
    BY DEF IInv, LocalInv, Local, Types
  <1>6. Types'
    <2>1. todo' \in [Proc -> [{1, 2} -> File \cup {None}]]
      BY <1>1 DEF IInv, Types, NoFiles
    <2>2. pc' \in [Proc -> Label]
      BY <1>1, Zenon DEF IInv, Types, Goto, Label
    <2>3. ofile' \in [Proc -> [Fd -> File \cup {None}]]
      BY <1>1, <1>5, Zenon DEF IInv, Types
    <2> QED
      BY <1>3, <2>1, <2>2, <2>3, Zenon DEF IInv, Types, procs
  <1>7. LocalInv'
    <2>1. Local(p)'
      BY <1>2, <1>5, Zenon DEF Local
    <2>2. ASSUME NEW q \in Proc \ {p} PROVE Local(q)'
      BY <1>2, LocalKept, Zenon DEF IInv, LocalInv
    <2> QED
      BY <2>1, <2>2, Zenon DEF LocalInv
  <1>8. RefCounts'
    <2> DEFINE o == [ofile EXCEPT ![p][fd0] = rf]
    <2>1. Sets({1, 2}, todo, p, 1, None, todo')
      BY <1>2, <1>5 DEF Sets, NoFiles
    <2>2. \A g \in File :
            /\ RefsIn({1, 2}, todo', g) = RefsIn({1, 2}, todo, g) - One(rf, g) + One(None, g)
            /\ RefsIn({1, 2}, todo, g) \in Nat
      BY <2>1, TodoWritten, Zenon
    <2>3. Sets(Fd, ofile, p, fd0, rf, o)
      BY Zenon DEF Sets, IInv, Types
    <2>4. Sets(Fd, o, p, fd1, wf, ofile') /\ o[p][fd1] = None
      BY <1>1, Zenon DEF Sets, IInv, Types
    <2> HIDE DEF o
    <2>5. \A g \in File : /\ RefsIn(Fd, o, g) = RefsIn(Fd, ofile, g) - One(ofile[p][fd0], g) + One(rf, g)
                          /\ RefsIn(Fd, ofile', g) = RefsIn(Fd, o, g) - One(o[p][fd1], g) + One(wf, g)
                          /\ RefsIn(Fd, ofile, g) \in Nat
      BY <2>3, <2>4, TablesOf, RefsSet, RefsNat
    <2>6. ofile[p][fd0] = None
      BY <1>1, Zenon
    <2>7. \A g \in File : One(None, g) = 0 /\ One(wf, g) \in Nat /\ One(rf, g) \in Nat
      BY DEF One, File, None
    <2> HIDE DEF rf
    <2>8. \A g \in File : /\ RefsIn({1, 2}, todo', g) = RefsIn({1, 2}, todo, g) - One(rf, g)
                          /\ RefsIn(Fd, ofile', g) = RefsIn(Fd, ofile, g) + One(rf, g) + One(wf, g)
      BY <2>2, <2>4, <2>5, <2>6, <2>7
    <2> QED
      BY <1>4, <2>2, <2>5, <2>7, <2>8 DEF IInv, RefCounts
  <1> QED
    BY <1>3, <1>6, <1>7, <1>8, Zenon DEF IInv

LEMMA PipeRestKeeps ==
  ASSUME Counting, IInv, NEW p \in Proc, sys_pipe_rest(p)
  PROVE  IInv'
  BY NoFileKeeps, NoPageKeeps, NoFdsKeeps, TwoFdsKeeps, Zenon DEF sys_pipe_rest

=============================================================================
