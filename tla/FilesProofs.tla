---------------------------- MODULE FilesProofs ----------------------------
(***************************************************************************)
(* The counts of file.c and the pipes of pipe.c, for every number of       *)
(* processes, files, descriptors and pages.  Left to prove here is what    *)
(* the two modules before it take as a hypothesis, the laws of counting,   *)
(* and that the invariant holds at first.                                  *)
(***************************************************************************)
EXTENDS FilesPipes, FiniteSetTheorems

\* References counted in a table with a row for each process.
Refers(A, o, f) == {h \in Proc \X A : o[h[1]][h[2]] = f}

LEMMA TablesFinite ==
  /\ IsFiniteSet(Fd) /\ \A A \in Tables : IsFiniteSet(A)
  <1>1. IsFiniteSet(Fd)
    BY FilesAssumption, FS_Interval DEF Fd
  <1>2. IsFiniteSet({1}) /\ {1} \cup {2} = {1, 2}
    BY FS_Singleton, Zenon
  <1>3. IsFiniteSet({1} \cup {2})
    BY <1>2, FS_AddElement, Zenon
  <1> QED
    BY <1>1, <1>2, <1>3, Zenon DEF Tables

LEMMA RefersFinite ==
  ASSUME NEW A, IsFiniteSet(A), NEW o, NEW f
  PROVE  /\ IsFiniteSet(Refers(A, o, f)) /\ RefsIn(A, o, f) = Cardinality(Refers(A, o, f))
         /\ RefsIn(A, o, f) \in Nat
  <1>1. IsFiniteSet(Proc \X A)
    BY FilesAssumption, FS_Product, Zenon
  <1>2. Refers(A, o, f) \in SUBSET (Proc \X A)
    BY Zenon DEF Refers
  <1>3. IsFiniteSet(Refers(A, o, f))
    BY <1>1, <1>2, FS_Subset, Zenon
  <1>4. RefsIn(A, o, f) = Cardinality(Refers(A, o, f))
    BY Zenon DEF Refers, RefsIn
  <1> QED
    BY <1>3, <1>4, FS_CardinalityType, Zenon

\* A table without a reference counts 0, and only such a table.
LEMMA RefersNone ==
  ASSUME NEW A, IsFiniteSet(A), NEW o, NEW f
  PROVE  RefsIn(A, o, f) = 0 <=> \A p \in Proc, a \in A : o[p][a] # f
  <1>1. RefsIn(A, o, f) = 0 <=> Refers(A, o, f) = {}
    BY RefersFinite, FS_EmptySet, Zenon
  <1>2. ASSUME NEW p \in Proc, NEW a \in A, o[p][a] = f PROVE Refers(A, o, f) # {}
    <2>1. <<p, a>> \in Refers(A, o, f)
      BY <1>2, Zenon DEF Refers
    <2> QED
      BY <2>1, Zenon
  <1>3. ASSUME NEW h \in Refers(A, o, f) PROVE \E p \in Proc, a \in A : o[p][a] = f
    BY Zenon DEF Refers
  <1> QED
    BY <1>1, <1>2, <1>3, Zenon

\* A table in which one entry has changed.
LEMMA RefersSet ==
  SetLaw
  <1> SUFFICES ASSUME NEW A \in Tables, NEW o, NEW o2, NEW v, NEW f, NEW p \in Proc, NEW a \in A,
                      Sets(A, o, p, a, v, o2)
               PROVE  RefsIn(A, o2, f) = RefsIn(A, o, f) - One(o[p][a], f) + One(v, f)
    BY Zenon DEF SetLaw
  <1> DEFINE R == Refers(A, o, f)
             R2 == Refers(A, o2, f)
             h == <<p, a>>
  <1>1. \A q \in Proc, b \in A : o2[q][b] = IF q = p /\ b = a THEN v ELSE o[q][b]
    BY Zenon DEF Sets
  <1>2. h \in R <=> o[p][a] = f
    BY Zenon DEF Refers
  <1>3. h \in R2 <=> v = f
    BY <1>1, Zenon DEF Refers
  <1>4. R2 \ {h} = R \ {h}
    <2>1. ASSUME NEW q \in Proc, NEW b \in A, <<q, b>> # h PROVE <<q, b>> \in R2 <=> <<q, b>> \in R
      BY <1>1, <2>1, Zenon DEF Refers
    <2>2. \A g \in R \cup R2 : \E q \in Proc, b \in A : g = <<q, b>>
      BY DEF Refers
    <2> QED
      BY <2>1, <2>2
  <1>5. /\ IsFiniteSet(R) /\ RefsIn(A, o, f) = Cardinality(R) /\ Cardinality(R) \in Nat
        /\ IsFiniteSet(R2) /\ RefsIn(A, o2, f) = Cardinality(R2) /\ Cardinality(R2) \in Nat
    BY TablesFinite, RefersFinite, Zenon
  <1> HIDE DEF R, R2, h
  <1>6. /\ Cardinality(R \ {h}) = IF h \in R THEN Cardinality(R) - 1 ELSE Cardinality(R)
        /\ Cardinality(R2 \ {h}) = IF h \in R2 THEN Cardinality(R2) - 1 ELSE Cardinality(R2)
    BY <1>5, FS_RemoveElement, Zenon
  <1>7. RefsIn(A, o2, f) = RefsIn(A, o, f) - (IF o[p][a] = f THEN 1 ELSE 0) + (IF v = f THEN 1 ELSE 0)
    <2> DEFINE was == Cardinality(R)  is == Cardinality(R2)  other == Cardinality(R \ {h})
    <2>1. other = Cardinality(R2 \ {h})
      BY <1>4, Zenon
    <2>2. other = IF o[p][a] = f THEN was - 1 ELSE was
      BY <1>2, <1>6, Zenon
    <2>3. other = IF v = f THEN is - 1 ELSE is
      BY <2>1, <1>3, <1>6, Zenon
    <2>4. was \in Nat /\ is \in Nat
      BY <1>5, Zenon
    <2> HIDE DEF was, is, other
    <2>5. is = was - (IF o[p][a] = f THEN 1 ELSE 0) + (IF v = f THEN 1 ELSE 0)
      BY <2>2, <2>3, <2>4
    <2> QED
      BY <2>5, <1>5, Zenon DEF was, is
  <1> QED
    BY <1>7, Zenon DEF One

\* Copying a row to one that refers to nothing of interest, as fork() does.
LEMMA RefersCopy ==
  CopyLaw
  <1> SUFFICES ASSUME NEW o, NEW o2, NEW f, NEW p \in Proc, NEW c \in Proc,
                      p # c, \A a \in Fd : o[c][a] # f, Copies(Fd, o, p, c, o2)
               PROVE  RefsIn(Fd, o2, f) = RefsIn(Fd, o, f) + Refs(o[p], f)
    BY Zenon DEF CopyLaw
  <1> DEFINE R == Refers(Fd, o, f)
             R2 == Refers(Fd, o2, f)
             S == {a \in Fd : o[p][a] = f}
             T == {h \in {c} \X Fd : h[2] \in S}
  <1>1. IsFiniteSet(Fd)
    BY TablesFinite, Zenon
  <1>2. \A q \in Proc, b \in Fd : o2[q][b] = IF q = c THEN o[p][b] ELSE o[q][b]
    BY Zenon DEF Copies
  <1>3. R2 = R \cup T
    <2>1. ASSUME NEW q \in Proc, NEW b \in Fd PROVE <<q, b>> \in R2 <=> <<q, b>> \in R \cup T
      BY <1>2, Zenon DEF Refers
    <2>2. \A h \in R \cup T \cup R2 : \E q \in Proc, b \in Fd : h = <<q, b>>
      BY DEF Refers
    <2> QED
      BY <2>1, <2>2
  <1>4. R \cap T = {}
    BY Zenon DEF Refers
  <1>5. /\ IsFiniteSet(R) /\ RefsIn(Fd, o, f) = Cardinality(R) /\ Cardinality(R) \in Nat
        /\ IsFiniteSet(R2) /\ RefsIn(Fd, o2, f) = Cardinality(R2)
    BY <1>1, RefersFinite, Zenon
  <1>6. IsFiniteSet(S) /\ Cardinality(S) \in Nat
    <2>1. S \in SUBSET Fd
      BY Zenon
    <2> QED
      BY <1>1, <2>1, FS_Subset, FS_CardinalityType, Zenon
  <1>7. IsFiniteSet(T) /\ Cardinality(T) = Cardinality(S)
    <2> DEFINE m == [a \in S |-> <<c, a>>]
    <2>1. m \in Bijection(S, T)
      <3>1. m \in [S -> T]
        BY Zenon
      <3>2. \A a, b \in S : m[a] = m[b] => a = b
        BY Zenon
      <3>3. \A h \in T : \E a \in S : m[a] = h
        OBVIOUS
      <3> QED
        BY <3>1, <3>2, <3>3, Zenon DEF Bijection, Injection, Surjection, IsInjective
    <2> QED
      BY <1>6, <2>1, FS_Bijection, Zenon DEF ExistsBijection
  <1> HIDE DEF R, R2, S, T
  <1>8. Cardinality(R2) = Cardinality(R) + Cardinality(S)
    <2>1. Cardinality(R2) = Cardinality(R) + Cardinality(T) - Cardinality(R \cap T)
      BY <1>3, <1>5, <1>7, FS_Union, Zenon
    <2>2. Cardinality(R \cap T) = 0
      BY <1>4, FS_EmptySet, Zenon
    <2> QED
      BY <2>1, <2>2, <1>5, <1>6, <1>7
  <1>9. Refs(o[p], f) = Cardinality(S)
    BY Zenon DEF Refs, S
  <1> QED
    BY <1>5, <1>6, <1>8, <1>9, Zenon

LEMMA CountingHolds ==
  Counting
  <1>1. ZeroLaw
    BY TablesFinite, RefersFinite, RefersNone, Zenon DEF ZeroLaw
  <1>2. RowLaw
    <2> SUFFICES ASSUME NEW o, NEW f
                 PROVE  Refs(o, f) \in Nat /\ ((\A fd \in Fd : o[fd] # f) => Refs(o, f) = 0)
      BY Zenon DEF RowLaw
    <2> DEFINE S == {fd \in Fd : o[fd] = f}
    <2>1. IsFiniteSet(Fd) /\ S \in SUBSET Fd /\ Refs(o, f) = Cardinality(S)
      BY TablesFinite, Zenon DEF Refs
    <2>2. IsFiniteSet(S) /\ Cardinality(S) \in Nat
      BY <2>1, FS_Subset, FS_CardinalityType, Zenon
    <2>3. (\A fd \in Fd : o[fd] # f) => S = {}
      BY Zenon
    <2> QED
      BY <2>1, <2>2, <2>3, FS_EmptySet, Zenon
  <1>3. SizeLaw
    <2> SUFFICES ASSUME NEW S, S \in SUBSET File \/ S \in SUBSET Proc
                 PROVE  /\ Cardinality(S) \in Nat
                        /\ \A x : /\ x \in S => Cardinality(S \ {x}) = Cardinality(S) - 1
                                  /\ x \notin S => Cardinality(S \cup {x}) = Cardinality(S) + 1
      BY Zenon DEF SizeLaw
    <2>1. IsFiniteSet(File) /\ IsFiniteSet(Proc)
      BY FilesAssumption, FS_Interval DEF File
    <2>2. IsFiniteSet(S)
      BY <2>1, FS_Subset, Zenon
    <2> QED
      BY <2>2, FS_CardinalityType, FS_AddElement, FS_RemoveElement, Zenon
  <1> QED
    BY <1>1, <1>2, <1>3, RefersSet, RefersCopy, Zenon DEF Counting

-----------------------------------------------------------------------------
(* The invariant at first *)

\* Three descriptors each of init and the shell.
LEMMA SixConsoles ==
  ASSUME NEW o, o = [p \in Proc |-> [fd \in Fd |-> IF p \in {init, sh} /\ fd <= 2 THEN 1 ELSE None]]
  PROVE  RefsIn(Fd, o, 1) = 6
  <1>1. IsFiniteSet({init, sh}) /\ Cardinality({init, sh}) = 2
    <2>1. IsFiniteSet({init}) /\ Cardinality({init}) = 1 /\ {init} \cup {sh} = {init, sh}
      BY FS_Singleton, Zenon
    <2>2. sh \notin {init}
      BY FilesAssumption, Zenon
    <2>3. IsFiniteSet({init} \cup {sh}) /\ Cardinality({init} \cup {sh}) = Cardinality({init}) + 1
      BY <2>1, <2>2, FS_AddElement, Zenon
    <2> QED
      BY <2>1, <2>3
  <1>2. IsFiniteSet(0..2) /\ Cardinality(0..2) = 3
    <2>1. IsFiniteSet(0..2) /\ Cardinality(0..2) = IF 0 > 2 THEN 0 ELSE 2 - 0 + 1
      <3>1. 0 \in Int /\ 2 \in Int
        OBVIOUS
      <3> QED
        BY <3>1, FS_Interval, Zenon
    <2> QED
      BY <2>1
  <1>3. Cardinality({init, sh} \X (0..2)) = 6
    <2>1. Cardinality({init, sh} \X (0..2)) = Cardinality({init, sh}) * Cardinality(0..2)
      BY <1>1, <1>2, FS_Product, Zenon
    <2> QED
      BY <1>1, <1>2, <2>1
  <1>4. \A p \in Proc, fd \in Fd : o[p][fd] = 1 <=> p \in {init, sh} /\ fd \in 0..2
    BY DEF None, Fd
  <1>5. {init, sh} \subseteq Proc /\ 0..2 \subseteq Fd
    BY FilesAssumption DEF Fd
  <1>6. {h \in Proc \X Fd : o[h[1]][h[2]] = 1} = {init, sh} \X (0..2)
    BY <1>4, <1>5
  <1> QED
    BY <1>3, <1>6, Zenon DEF RefsIn

LEMMA InitHolds ==
  FilesInit => IInv
  <1> SUFFICES ASSUME FilesInit PROVE IInv
    BY Zenon
  <1>1. 1 \in File /\ Console.ref = 6 /\ Closed.ref = 0 /\ None \notin File
    BY FilesAssumption DEF File, Console, Closed, None
  <1>2. Types
    <2>1. Closed \in FileType /\ Console \in FileType
      BY Zenon DEF Closed, Console, FileType
    <2>2. Free \in PipeType
      <3>1. 0 \in 0..(CounterMod - 1)
        BY FilesAssumption
      <3> QED
        BY <3>1, Zenon DEF Free, PipeType
    <2>3. Idle \in IoType
      BY DEF Idle, IoType
    <2>4. NoFiles \in [{1, 2} -> File \cup {None}]
      BY DEF NoFiles
    <2>5. pc \in [Proc -> Label]
      BY Zenon DEF FilesInit, Label
    <2>6. ofile \in [Proc -> [Fd -> File \cup {None}]]
      BY <1>1, Zenon DEF FilesInit
    <2>7. killed \subseteq Proc /\ exiting \subseteq Proc
      BY Zenon DEF FilesInit
    <2>8. /\ ftable \in [File -> FileType] /\ pipe \in [Page -> PipeType]
          /\ todo \in [Proc -> [{1, 2} -> File \cup {None}]]
          /\ ff \in [Proc -> FileType] /\ io \in [Proc -> IoType]
      BY <2>1, <2>2, <2>3, <2>4, Zenon DEF FilesInit
    <2> QED
      BY <2>5, <2>6, <2>7, <2>8, Zenon DEF Types
  <1>3. LocalInv
    <2> SUFFICES ASSUME NEW p \in Proc PROVE Local(p)
      BY Zenon DEF LocalInv
    <2>1. pc[p] \in {"user", "unused"} /\ todo[p] = NoFiles /\ ff[p] = Closed /\ p \notin exiting
      BY Zenon DEF FilesInit
    <2>2. pc[p] = "unused" => Open(ofile[p]) = {}
      BY Zenon DEF FilesInit, Open
    <2> QED
      BY <2>1, <2>2, Zenon DEF Local
  <1>4. \A p \in Proc : ff[p] = Closed /\ io[p] = Idle /\ pc[p] \in {"user", "unused"}
    BY Zenon DEF FilesInit
  <1>5. \A f \in File : ftable[f] = IF f = 1 THEN Console ELSE Closed
    BY Zenon DEF FilesInit
  <1>6. FileInv
    <2>1. PipeSound(Closed) /\ PipeSound(Console)
      BY Zenon DEF PipeSound, Closed, Console
    <2>2. \A f \in File : PipeSound(ftable[f]) /\ (ftable[f].ref = 0 => ftable[f] = Closed)
      BY <1>1, <1>5, <2>1
    <2> QED
      BY <1>4, <2>1, <2>2, Zenon DEF FileInv
  <1>7. EndInv
    <2>1. \A x, w : ~IsEnd(Console, x, w) /\ ~IsEnd(Closed, x, w)
      BY Zenon DEF IsEnd, Console, Closed
    <2>2. \A x, w : ~Ends(x, w) /\ OneEnd(x, w)
      BY <1>4, <1>5, <2>1, Zenon DEF Ends, OneEnd
    <2>3. \A x \in Page : pipe[x] = Free
      BY Zenon DEF FilesInit
    <2>4. ~Free.readopen /\ ~Free.writeopen /\ ~Free.used
      BY Zenon DEF Free
    <2>5. ASSUME NEW x \in Page PROVE Flags(x)
      <3>1. ~Ends(x, TRUE) /\ ~Ends(x, FALSE)
        BY <2>2, Zenon
      <3>2. pipe[x].readopen = FALSE /\ pipe[x].writeopen = FALSE /\ pipe[x].used = FALSE
        BY <2>3 DEF Free
      <3> QED
        BY <2>3, <3>1, <3>2, Zenon DEF Flags, Ends
    <2> QED
      BY <2>2, <2>5, Zenon DEF EndInv
  <1>8. IoInv
    BY <1>4, Zenon DEF IoInv, Works, Working, Reading, Writing
  <1>9. PipeInv
    <2>1. \A x \in Page : pipe[x].lock = None /\ pipe[x].nread = 0 /\ pipe[x].nwrite = 0
      BY Zenon DEF FilesInit, Free
    <2>2. HeldInv
      BY <2>1, FilesAssumption DEF HeldInv, Held
    <2>3. LockInv /\ SleepInv
      BY <1>4, <2>1, Zenon DEF LockInv, SleepInv, Locking
    <2> QED
      BY <2>2, <2>3, Zenon DEF PipeInv
  <1>10. RefCounts
    <2> SUFFICES ASSUME NEW f \in File
                 PROVE  ftable[f].ref = RefsIn(Fd, ofile, f) + RefsIn({1, 2}, todo, f)
      BY Zenon DEF RefCounts
    <2>1. RefsIn({1, 2}, todo, f) = 0
      <3>1. \A p \in Proc, i \in {1, 2} : todo[p][i] # f
        BY <1>1 DEF FilesInit, NoFiles
      <3> QED
        BY <3>1, CountingHolds, TablesOf, RefsZero, Zenon
    <2>2. CASE f = 1
      <3>1. RefsIn(Fd, ofile, 1) = 6
        BY SixConsoles, Zenon DEF FilesInit
      <3> QED
        BY <1>1, <1>5, <2>1, <2>2, <3>1
    <2>3. CASE f # 1
      <3>1. \A p \in Proc, fd \in Fd : ofile[p][fd] # f
        BY <1>1, <2>3, Zenon DEF FilesInit
      <3>2. RefsIn(Fd, ofile, f) = 0
        BY <3>1, CountingHolds, TablesOf, RefsZero, Zenon
      <3> QED
        BY <1>1, <1>5, <2>1, <2>3, <3>2
    <2> QED
      BY <2>2, <2>3, Zenon
  <1>11. IrefInv
    <2>1. InodeFiles = {1}
      BY <1>1, <1>5 DEF InodeFiles, Console, Closed
    <2>2. InodeCopies = {}
      BY <1>4 DEF InodeCopies, Closed
    <2>3. Cardinality(InodeFiles) = 1 /\ Cardinality(InodeCopies) = 0
      BY <2>1, <2>2, FS_Singleton, FS_EmptySet, Zenon
    <2>4. iref = 1
      BY Zenon DEF FilesInit
    <2> QED
      BY <2>3, <2>4 DEF IrefInv
  <1> QED
    BY <1>2, <1>3, <1>6, <1>7, <1>8, <1>9, <1>10, <1>11, Zenon DEF IInv

-----------------------------------------------------------------------------
(* What holds always *)

\* Every state of every behaviour of the descriptor calls satisfies the invariant.
THEOREM FilesAlways ==
  FilesSpec => []IInv
  <1>1. IInv /\ [FilesNext]_filesvars => IInv'
    BY CountingHolds, StepKeeps, Zenon
  <1> QED
    BY <1>1, InitHolds, PTL DEF FilesSpec

\* The count in a file is the number of descriptors and pending closes that refer to it, and
\* the count of the inode is the number of files that use it: filedup(), fork(), fileclose() and
\* the failure paths of sys_open() and sys_pipe() keep both, whatever the sizes of the tables.
THEOREM CountsExact ==
  FilesSpec => []References
  <1>1. IInv => References
    <2> SUFFICES ASSUME IInv PROVE References
      BY Zenon
    <2>1. iref \in Nat
      BY CountingHolds, InodesCount DEF IInv, IrefInv
    <2>2. \A x \in Page : pipe[x].lock \in Proc \cup {None} /\ Held(x) \in 0..PIPESIZE
      BY Zenon DEF IInv, Types, PipeType, PipeInv, HeldInv
    <2>3. TypeOK
      BY <2>1, <2>2, Zenon DEF TypeOK, IInv, Types, FileType, Label, Working, Reading, Writing
    <2>4. InodeRefs
      <3>1. Closed.type = "FD_NONE"
        BY Zenon DEF Closed
      <3>2. \A f \in File : ftable[f].type = "FD_INODE" => ftable[f].ref > 0
        <4>1. \A f \in File : ftable[f].ref \in Nat /\ (ftable[f].ref = 0 => ftable[f] = Closed)
          BY Zenon DEF IInv, Types, FileType, FileInv
        <4> QED
          BY <3>1, <4>1
      <3>3. \A p \in Proc : ff[p].type = "FD_INODE" => pc[p] = "last"
        BY <3>1, Zenon DEF IInv, LocalInv, Local
      <3>4. /\ {f \in File : ftable[f].ref > 0 /\ ftable[f].type = "FD_INODE"} = InodeFiles
            /\ {p \in Proc : pc[p] = "last" /\ ff[p].type = "FD_INODE"} = InodeCopies
        BY <3>2, <3>3, Zenon DEF InodeFiles, InodeCopies
      <3> QED
        BY <3>4, Zenon DEF InodeRefs, IInv, IrefInv
    <2> QED
      BY <2>3, <2>4, Zenon DEF References, IInv
  <1> QED
    BY <1>1, FilesAlways, PTL

\* An end of a pipe is open exactly while some file, in the table or in fileclose()'s hands, is
\* that end, and pipeclose() frees no page that piperead() or pipewrite() still works on.
THEOREM PipesLiveLongEnough ==
  FilesSpec => []PipeEnds
  <1>1. IInv => PipeEnds
    <2> SUFFICES ASSUME IInv PROVE PipeEnds
      BY Zenon
    <2>1. ASSUME NEW x \in Page, NEW w \in BOOLEAN
          PROVE  Ends(x, w) <=> \E e \in Live : IsEnd(e, x, w)
      <3>1. ~IsEnd(Closed, x, w)
        BY Zenon DEF IsEnd, Closed
      <3>2. \A f \in File : ftable[f].ref \in Nat /\ (ftable[f].ref = 0 => ftable[f] = Closed)
        BY Zenon DEF IInv, Types, FileType, FileInv
      <3>3. \A f \in File : IsEnd(ftable[f], x, w) => ftable[f].ref > 0
        BY <3>1, <3>2
      <3>4. \A q \in Proc : IsEnd(ff[q], x, w) => pc[q] = "last"
        BY <3>1, Zenon DEF IInv, LocalInv, Local
      <3> QED
        BY <3>3, <3>4, Zenon DEF Ends, Live, Leaving
    <2>2. \A e \in Live : PipeSound(e) /\ e.writable \in BOOLEAN
      BY DEF Live, Leaving, IInv, FileInv, Types, FileType
    <2>3. ASSUME NEW x \in Page, NEW e \in Live
          PROVE  /\ IsEnd(e, x, TRUE) <=> e.type = "FD_PIPE" /\ e.pipe = x /\ e.writable
                 /\ IsEnd(e, x, FALSE) <=> e.type = "FD_PIPE" /\ e.pipe = x /\ e.readable
      BY <2>2, Zenon DEF PipeSound, IsEnd
    <2>4. EndsOpen
      <3> SUFFICES ASSUME NEW x \in Page
            PROVE  /\ pipe[x].writeopen = (\E f \in Live : f.type = "FD_PIPE" /\ f.pipe = x /\ f.writable)
                   /\ pipe[x].readopen = (\E f \in Live : f.type = "FD_PIPE" /\ f.pipe = x /\ f.readable)
                   /\ pipe[x].used = (pipe[x].readopen \/ pipe[x].writeopen)
        BY Zenon DEF EndsOpen
      <3>1. Ends(x, TRUE) <=> \E f \in Live : f.type = "FD_PIPE" /\ f.pipe = x /\ f.writable
        BY <2>1, <2>3, Zenon
      <3>2. Ends(x, FALSE) <=> \E f \in Live : f.type = "FD_PIPE" /\ f.pipe = x /\ f.readable
        BY <2>1, <2>3, Zenon
      <3>3. Flags(x)
        BY Zenon DEF IInv, EndInv
      <3> QED
        BY <3>1, <3>2, <3>3, Zenon DEF Flags, Ends
    <2>5. NoUseAfterFree
      <3>1. \A p \in Proc : pc[p] \notin Working => io[p].pipe = None
        BY DEF IInv, IoInv, Works, Idle
      <3> QED
        BY <3>1, WorkerHasPipe, Zenon DEF NoUseAfterFree
    <2> QED
      BY <2>4, <2>5, Zenon DEF PipeEnds
  <1> QED
    BY <1>1, FilesAlways, PTL

\* No reader or writer of a pipe sleeps without cause: not because a wakeup of pipewrite(),
\* piperead() or pipeclose() came between its test and its sleep(), and never each for the other.
THEOREM NoWakeupLost ==
  FilesSpec => []SleepJustified
  <1>1. IInv => SleepJustified
    BY Zenon DEF IInv, PipeInv, SleepInv, SleepJustified
  <1> QED
    BY <1>1, FilesAlways, PTL

\* Bytes come out of a pipe once each and in the order in which they were written, and a
\* read returns none only at the end of the stream: piperead(), pipewrite() and pipeclose(),
\* with their counters that wrap and their locks, implement ByteStream.
THEOREM PipesAreStreams ==
  FilesSpec => IsByteStream
  <1>1. FilesInit => Stream!Init
    BY InitStreams, Zenon
  <1>2. IInv /\ [FilesNext]_filesvars => [Stream!Next]_<<Queue, ReadOpen, WriteOpen, got>>
    BY StepStreams, Zenon DEF Streams, streamvars
  <1> QED
    BY <1>1, <1>2, FilesAlways, PTL DEF FilesSpec, IsByteStream, Stream!Spec

=============================================================================
