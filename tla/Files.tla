------------------------------- MODULE Files -------------------------------
(***************************************************************************)
(* Descriptors, the file table of file.c, the descriptor calls of          *)
(* sysfile.c and the pipes of pipe.c.  A critical section of ftable.lock   *)
(* is one step.  One of a pipe's lock is a step too, except that sleep()   *)
(* comes apart from the tests before it: kill() can come between them.     *)
(***************************************************************************)
EXTENDS Integers, Sequences, FiniteSets

CONSTANTS Proc, init, sh,   \* processes, the first one and its shell
          NOFILE, NFILE,    \* param.h
          Page,             \* pages kalloc() can give to a pipe
          Byte, PIPESIZE,
          CounterMod        \* nread and nwrite are uint: 2^32, a multiple of PIPESIZE

ASSUME FilesAssumption ==
  /\ IsFiniteSet(Proc) /\ {init, sh} \subseteq Proc /\ init # sh
  /\ PIPESIZE \in Nat \ {0} /\ NOFILE \in Nat /\ NOFILE > 2 /\ NFILE \in Nat \ {0}
  /\ CounterMod \in Nat /\ CounterMod % PIPESIZE = 0 /\ CounterMod > PIPESIZE
  /\ 0 \notin Proc \cup Page

VARIABLES pc, killed, exiting, parent,
          ofile,      \* the descriptors of each process
          ftable,     \* ftable.file
          iref,       \* references that files hold to inodes
          pipe,       \* the pages used as pipes
          todo,       \* references the process has still to give back, two at most
          ff,         \* fileclose()'s copy of the file
          io,         \* the pipe, bytes and room of a read or write in progress
          pfd,        \* the array given to the last pipe(), empty if that failed
          got         \* what the last read returned

None == 0           \* a null pointer
Fd == 0..(NOFILE - 1)
File == 1..NFILE
Closed == [ref |-> 0, type |-> "FD_NONE", pipe |-> None, readable |-> FALSE, writable |-> FALSE]
Free == [used |-> FALSE, data |-> [i \in 0..(PIPESIZE - 1) |-> None], nread |-> 0,
         nwrite |-> 0, readopen |-> FALSE, writeopen |-> FALSE, lock |-> None,
         left |-> FALSE]  \* history: a killed writer left bytes and woke nobody
Idle == [pipe |-> None, n |-> 0, bytes |-> <<>>]
Nothing == [pipe |-> None, bytes |-> <<>>]
NoFiles == <<None, None>>

\* init has opened the console as 0, 1 and 2 and the shell has inherited it.
Console == [ref |-> 6, type |-> "FD_INODE", pipe |-> None, readable |-> TRUE, writable |-> TRUE]
FilesInit ==
  /\ pc = [p \in Proc |-> IF p \in {init, sh} THEN "user" ELSE "unused"]
  /\ killed = {} /\ exiting = {} /\ parent = [p \in Proc |-> init]
  /\ ofile = [p \in Proc |-> [fd \in Fd |-> IF p \in {init, sh} /\ fd <= 2 THEN 1 ELSE None]]
  /\ ftable = [f \in File |-> IF f = 1 THEN Console ELSE Closed]
  /\ iref = 1
  /\ pipe = [x \in Page |-> Free]
  /\ todo = [p \in Proc |-> NoFiles] /\ ff = [p \in Proc |-> Closed]
  /\ io = [p \in Proc |-> Idle]
  /\ pfd = [p \in Proc |-> <<>>] /\ got = [p \in Proc |-> Nothing]

procs == <<killed, exiting, parent>>
tables == <<ofile, ftable, iref>>

Goto(p, l) == pc' = [pc EXCEPT ![p] = l]
Fresh(p) == got' = [got EXCEPT ![p] = Nothing]

\* A process that can make a system call: trap() sends a killed one to exit().
User(p) == pc[p] = "user" /\ p \notin killed

-----------------------------------------------------------------------------
(* Descriptors and the file table *)

IsMin(i, S) == i \in S /\ \A j \in S : i <= j
FreeFiles == {f \in File : ftable[f].ref = 0}
FreeFds(o) == {fd \in Fd : o[fd] = None}
kalloc == {x \in Page : ~pipe[x].used}
filealloc(f) == IsMin(f, FreeFiles)
fdalloc(p, f) == \E fd \in Fd : IsMin(fd, FreeFds(ofile[p])) /\ ofile' = [ofile EXCEPT ![p][fd] = f]

\* Mutant: the new reference is not counted.
filedup_not(f) == ftable
filedup(f) == [ftable EXCEPT ![f].ref = @ + 1]

sys_dup(p, fd) ==
  /\ IF ofile[p][fd] = None \/ FreeFds(ofile[p]) = {}
     THEN UNCHANGED <<ofile, ftable>>
     ELSE /\ fdalloc(p, ofile[p][fd])
          /\ ftable' = filedup(ofile[p][fd])
  /\ Fresh(p)
  /\ UNCHANGED <<pc, procs, iref, pipe, todo, ff, io, pfd>>

\* sys_open() once the path has given it an inode: without a free file or a free
\* descriptor the inode, and the file if there is one, are put back.
OpenFails(p) == FreeFiles = {} \/ FreeFds(ofile[p]) = {}
sys_open(p) ==
  /\ IF OpenFails(p) THEN UNCHANGED tables
     ELSE \E f \in File :
          /\ filealloc(f) /\ fdalloc(p, f)
          /\ ftable' = [ftable EXCEPT ![f] = [Console EXCEPT !.ref = 1]]
          /\ iref' = iref + 1
  /\ Fresh(p)
  /\ UNCHANGED <<pc, procs, pipe, todo, ff, io, pfd>>

\* sys_pipe() and pipealloc(), up to the first file.
sys_pipe(p) ==
  /\ pfd' = [pfd EXCEPT ![p] = <<>>]
  /\ IF FreeFiles = {} THEN UNCHANGED <<pc, ftable, todo>>
     ELSE \E f \in File :
          /\ filealloc(f)
          /\ ftable' = [ftable EXCEPT ![f].ref = 1]
          /\ todo' = [todo EXCEPT ![p] = <<f, None>>]
          /\ Goto(p, "pipe")
  /\ Fresh(p)
  /\ UNCHANGED <<procs, ofile, iref, pipe, ff, io>>

Opened == [Free EXCEPT !.used = TRUE, !.readopen = TRUE, !.writeopen = TRUE]
PipeEnd(x, w) == [ref |-> 1, type |-> "FD_PIPE", pipe |-> x, readable |-> ~w, writable |-> w]

\* The second file, the page, and the two descriptors.  What is in todo when one
\* of them is missing is closed again.
NoFile(p) ==
  FreeFiles = {} /\ Goto(p, "close") /\ UNCHANGED <<ofile, ftable, pipe, todo, pfd>>
NoPage(p, wf) ==
  /\ kalloc = {}
  /\ ftable' = [ftable EXCEPT ![wf].ref = 1]
  /\ todo' = [todo EXCEPT ![p][2] = wf]
  /\ Goto(p, "close") /\ UNCHANGED <<ofile, pipe, pfd>>
NoFds(p, wf) ==
  /\ \A fd, e \in FreeFds(ofile[p]) : fd = e
  /\ todo' = [todo EXCEPT ![p][2] = wf]
  /\ Goto(p, "close") /\ UNCHANGED <<ofile, pfd>>
TwoFds(p, wf) ==
  \E fd0, fd1 \in Fd :
    /\ IsMin(fd0, FreeFds(ofile[p])) /\ IsMin(fd1, FreeFds(ofile[p]) \ {fd0})
    /\ ofile' = [ofile EXCEPT ![p][fd0] = todo[p][1], ![p][fd1] = wf]
    /\ pfd' = [pfd EXCEPT ![p] = <<fd0, fd1>>]
    /\ todo' = [todo EXCEPT ![p] = NoFiles]
    /\ Goto(p, "user")
pipealloc(p, wf, x) ==
  /\ pipe' = [pipe EXCEPT ![x] = Opened]
  /\ ftable' = [ftable EXCEPT ![todo[p][1]] = PipeEnd(x, FALSE), ![wf] = PipeEnd(x, TRUE)]
sys_pipe_rest(p) ==
  /\ pc[p] = "pipe"
  /\ \/ NoFile(p)
     \/ \E wf \in File :
          /\ filealloc(wf)
          /\ \/ NoPage(p, wf)
             \/ \E x \in kalloc : pipealloc(p, wf, x) /\ (NoFds(p, wf) \/ TwoFds(p, wf))
  /\ UNCHANGED <<procs, iref, ff, io, got>>

\* sys_close(): the descriptor is private to the process.
sys_close(p, fd) ==
  /\ IF ofile[p][fd] = None THEN UNCHANGED <<pc, todo, ofile>>
     ELSE /\ todo' = [todo EXCEPT ![p] = <<ofile[p][fd], None>>]
          /\ ofile' = [ofile EXCEPT ![p][fd] = None]
          /\ Goto(p, "close")
  /\ Fresh(p)
  /\ UNCHANGED <<procs, ftable, iref, pipe, ff, io, pfd>>

\* On to the next close, back to the user, or to the rest of exit().
Open(o) == {fd \in Fd : o[fd] # None}
Onward(p, o, left) ==
  IF p \in exiting THEN (IF Open(o) # {} THEN "close" ELSE "exit")
                   ELSE (IF left # NoFiles THEN "close" ELSE "user")

\* The file to close: in exit() that of the next descriptor, otherwise the caller's.  (exit()
\* clears the descriptor after fileclose(), but nobody else looks at it.)
Closing(p, f) ==
  IF p \in exiting
  THEN /\ \E fd \in Fd : /\ IsMin(fd, Open(ofile[p])) /\ f = ofile[p][fd]
                         /\ ofile' = [ofile EXCEPT ![p][fd] = None]
       /\ UNCHANGED todo
  ELSE /\ \E i \in {1, 2} : /\ todo[p][i] = f /\ (i = 2 => todo[p][1] = None)
                           /\ todo' = [todo EXCEPT ![p][i] = None]
       /\ UNCHANGED ofile

\* Mutant: fileclose() goes on with the entry itself, which is free again.
lastcopy_live(f) == [ftable[f] EXCEPT !.type = "FD_NONE"]
lastcopy(f) == ftable[f]

\* fileclose(), under ftable.lock.  (What a free entry still holds is not kept.)
fileclose(p) ==
  /\ pc[p] = "close"
  /\ \E f \in File :
       /\ Closing(p, f)
       /\ IF ftable[f].ref > 1
          THEN /\ ftable' = [ftable EXCEPT ![f].ref = @ - 1]
               /\ Goto(p, Onward(p, ofile'[p], todo'[p])) /\ UNCHANGED ff
          ELSE /\ ftable' = [ftable EXCEPT ![f] = Closed]
               /\ ff' = [ff EXCEPT ![p] = lastcopy(f)]
               /\ Goto(p, "last")
  /\ UNCHANGED <<procs, iref, pipe, io, pfd, got>>

\* After the lock, with its copy: iput(), or nothing for a file that was never set up.
closeinode(p) ==
  /\ pc[p] = "last" /\ ff[p].type # "FD_PIPE"
  /\ iref' = IF ff[p].type = "FD_INODE" THEN iref - 1 ELSE iref
  /\ ff' = [ff EXCEPT ![p] = Closed]
  /\ Goto(p, Onward(p, ofile[p], todo[p]))
  /\ UNCHANGED <<procs, ofile, ftable, pipe, todo, io, pfd, got>>

\* wakeup(&p->nread) and wakeup(&p->nwrite).
WakeNobody(x) == pc
WakeReaders(x) ==
  [q \in Proc |-> IF pc[q] = "read-asleep" /\ io[q].pipe = x THEN "read" ELSE pc[q]]
WakeWriters(x) ==
  [q \in Proc |-> IF pc[q] = "write-asleep" /\ io[q].pipe = x THEN "write" ELSE pc[q]]

\* Mutant: the flags of the two ends are exchanged.
EndClosed_swapped(x, writable) ==
  IF writable THEN [x EXCEPT !.readopen = FALSE] ELSE [x EXCEPT !.writeopen = FALSE]
EndClosed(x, writable) ==
  IF writable THEN [x EXCEPT !.writeopen = FALSE] ELSE [x EXCEPT !.readopen = FALSE]

\* ... or pipeclose(), under the pipe's lock.
pipeclose(p) ==
  LET x == ff[p].pipe
      after == EndClosed(pipe[x], ff[p].writable)
  IN
  /\ pc[p] = "last" /\ ff[p].type = "FD_PIPE"
  /\ pipe[x].lock = None
  /\ pipe' = [pipe EXCEPT ![x] = IF after.readopen \/ after.writeopen THEN after ELSE Free]
  /\ pc' = [(IF ff[p].writable THEN WakeReaders(x) ELSE WakeWriters(x))
            EXCEPT ![p] = Onward(p, ofile[p], todo[p])]
  /\ ff' = [ff EXCEPT ![p] = Closed]
  /\ UNCHANGED <<procs, tables, todo, io, pfd, got>>

-----------------------------------------------------------------------------
(* Pipes *)

Held(x) == (pipe[x].nwrite - pipe[x].nread) % CounterMod
Contents(x) == [i \in 1..Held(x) |-> pipe[x].data[(pipe[x].nread + i - 1) % PIPESIZE]]

\* sys_read() and sys_write(), up to the pipe's lock.  (An inode is neither read nor
\* written here: Blocks does that.)
StartIo(p, f, ok, l, n, s) ==
  /\ IF f # None /\ ok /\ ftable[f].type = "FD_PIPE"
     THEN /\ io' = [io EXCEPT ![p] = [pipe |-> ftable[f].pipe, n |-> n, bytes |-> s]]
          /\ Goto(p, l)
     ELSE UNCHANGED <<pc, io>>
  /\ Fresh(p)
  /\ UNCHANGED <<procs, tables, pipe, todo, ff, pfd>>
sys_read(p, fd, n) == LET f == ofile[p][fd] IN StartIo(p, f, ftable[f].readable, "read", n, <<>>)
sys_write(p, fd, s) == LET f == ofile[p][fd] IN StartIo(p, f, ftable[f].writable, "write", 0, s)

\* What is in the pipe after k bytes have been taken out, and after s has been put in.
\* (The ring keeps no trace here of the bytes that are out.)
Taken(x, k) ==
  [pipe[x] EXCEPT !.nread = (@ + k) % CounterMod,
     !.data = [i \in DOMAIN @ |-> IF (i - pipe[x].nread) % PIPESIZE < k THEN None ELSE @[i]]]
\* Mutant: the index is not wrapped with the counter.
Put_shifted(x, s) ==
  [pipe[x] EXCEPT !.nwrite = (@ + Len(s)) % CounterMod,
     !.data = [i \in DOMAIN @ |->
       LET j == (i - pipe[x].nwrite - 1) % PIPESIZE
       IN IF j < Len(s) THEN s[j + 1] ELSE @[i]]]
Put(x, s) ==
  [pipe[x] EXCEPT !.nwrite = (@ + Len(s)) % CounterMod,
     !.data = [i \in DOMAIN @ |->
       LET j == (i - pipe[x].nwrite) % PIPESIZE
       IN IF j < Len(s) THEN s[j + 1] ELSE @[i]]]

\* Mutant: the end of the stream is not looked at.
ReadWaits_forever(x) == Held(x) = 0
ReadWaits(x) == Held(x) = 0 /\ pipe[x].writeopen

Least(i, j) == IF i <= j THEN i ELSE j

\* What a read of n bytes gets.  (When n is 0, nothing that could mean the end of the stream.)
Returned(x, n) ==
  IF n = 0 THEN Nothing ELSE [pipe |-> x, bytes |-> SubSeq(Contents(x), 1, Least(n, Held(x)))]

\* A turn of piperead()'s loop, to its sleep() or to the end.
piperead(p) ==
  LET x == io[p].pipe  k == Least(io[p].n, Held(x)) IN
  /\ pc[p] = "read" /\ pipe[x].lock = None
  /\ IF ReadWaits(x) /\ p \notin killed
     THEN /\ pipe' = [pipe EXCEPT ![x].lock = p]
          /\ Goto(p, "read-sleep")
          /\ UNCHANGED <<io, got>>
     ELSE /\ io' = [io EXCEPT ![p] = Idle]
          /\ IF ReadWaits(x)
             THEN Goto(p, "user") /\ UNCHANGED <<pipe, got>>
             ELSE /\ got' = [got EXCEPT ![p] = Returned(x, io[p].n)]
                  /\ pipe' = [pipe EXCEPT ![x] = Taken(x, k)]
                  /\ pc' = [WakeWriters(x) EXCEPT ![p] = "user"]
  /\ UNCHANGED <<procs, tables, todo, ff, pfd>>

\* Mutant: a byte too many.
Room_more(x) == PIPESIZE - Held(x) + 1
Room(x) == PIPESIZE - Held(x)

\* pipewrite(): as many bytes as fit; when some are left it gives up, or wakes
\* the readers and sleeps.
pipewrite(p) ==
  LET x == io[p].pipe
      k == Least(Len(io[p].bytes), Room(x))
      rest == SubSeq(io[p].bytes, k + 1, Len(io[p].bytes))
      after == Put(x, SubSeq(io[p].bytes, 1, k))
  IN
  /\ pc[p] = "write" /\ pipe[x].lock = None
  /\ IF rest = <<>> \/ ~pipe[x].readopen \/ p \in killed
     THEN /\ pipe' = [pipe EXCEPT ![x] = [after EXCEPT !.left = rest # <<>>]]
          /\ io' = [io EXCEPT ![p] = Idle]
          /\ pc' = [(IF rest = <<>> THEN WakeReaders(x) ELSE pc) EXCEPT ![p] = "user"]
     ELSE /\ pipe' = [pipe EXCEPT ![x] = [after EXCEPT !.lock = p, !.left = FALSE]]
          /\ io' = [io EXCEPT ![p].bytes = rest]
          /\ pc' = [WakeReaders(x) EXCEPT ![p] = "write-sleep"]
  /\ UNCHANGED <<procs, tables, todo, ff, pfd, got>>

\* sleep(): asleep and the lock released, in one critical section of ptable.lock.
sleep(p) ==
  /\ pc[p] \in {"read-sleep", "write-sleep"}
  /\ pipe' = [pipe EXCEPT ![io[p].pipe].lock = None]
  /\ Goto(p, IF pc[p] = "read-sleep" THEN "read-asleep" ELSE "write-asleep")
  /\ UNCHANGED <<procs, tables, todo, ff, io, pfd, got>>

-----------------------------------------------------------------------------
(* Processes *)

Refs(o, f) == Cardinality({fd \in Fd : o[fd] = f})

\* Mutant: the child's descriptors are not counted.
ForkRefs_not(p) == ftable
ForkRefs(p) == [f \in File |-> [ftable[f] EXCEPT !.ref = @ + Refs(ofile[p], f)]]

\* fork() takes a reference for every descriptor of the child, which has a copy of
\* its parent's memory.  (c is the process allocproc() found.)
Unused == {c \in Proc : pc[c] = "unused"}
fork(p, c) ==
  /\ ofile' = [ofile EXCEPT ![c] = ofile[p]]
  /\ ftable' = ForkRefs(p)
  /\ parent' = [parent EXCEPT ![c] = p]
  /\ pfd' = [pfd EXCEPT ![c] = pfd[p]]
  /\ Goto(c, "user")
  /\ Fresh(p)
  /\ UNCHANGED <<killed, exiting, iref, pipe, todo, ff, io>>

\* exit() closes every descriptor and then passes its children on to init.
exit(p) ==
  /\ pc[p] = "user"
  /\ exiting' = exiting \cup {p}
  /\ Goto(p, IF Open(ofile[p]) = {} THEN "exit" ELSE "close")
  /\ pfd' = [pfd EXCEPT ![p] = <<>>]
  /\ Fresh(p)
  /\ UNCHANGED <<killed, parent, tables, pipe, todo, ff, io>>
exit_rest(p) ==
  /\ pc[p] = "exit"
  /\ parent' = [c \in Proc |-> IF parent[c] = p THEN init ELSE parent[c]]
  /\ Goto(p, "zombie")
  /\ UNCHANGED <<killed, exiting, tables, pipe, todo, ff, io, pfd, got>>

\* wait() reaps a zombie, or finds no child.  (How it sleeps is in ProcTable.)
Children(p) == {c \in Proc \ {p} : pc[c] # "unused" /\ parent[c] = p}
wait(p) ==
  /\ IF Children(p) = {} THEN UNCHANGED <<pc, procs>>
     ELSE \E c \in Children(p) :
          /\ pc[c] = "zombie"
          /\ Goto(c, "unused")
          /\ killed' = killed \ {c} /\ exiting' = exiting \ {c}
          /\ parent' = [parent EXCEPT ![c] = init]
  /\ Fresh(p)
  /\ UNCHANGED <<tables, pipe, todo, ff, io, pfd>>

\* kill() wakes a process that is already asleep.
kill(p) ==
  /\ pc[p] \notin {"unused", "zombie"} /\ p \notin killed
  /\ killed' = killed \cup {p}
  /\ Goto(p, CASE pc[p] = "read-asleep" -> "read" [] pc[p] = "write-asleep" -> "write"
               [] OTHER -> pc[p])
  /\ UNCHANGED <<exiting, parent, tables, pipe, todo, ff, io, pfd, got>>

Kernel(p) ==
  \/ sys_pipe_rest(p) \/ fileclose(p) \/ closeinode(p) \/ pipeclose(p)
  \/ piperead(p) \/ pipewrite(p) \/ sleep(p) \/ exit_rest(p)

\* Any process makes any system call.
SysCall(p) ==
  \/ sys_open(p) \/ sys_pipe(p) \/ wait(p)
  \/ \E fd \in Fd : \/ sys_dup(p, fd) \/ sys_close(p, fd)
                   \/ \E n \in Nat : sys_read(p, fd, n)
                   \/ \E s \in Seq(Byte) : sys_write(p, fd, s)
  \/ \E c \in Unused : fork(p, c)

FilesNext ==
  \E p \in Proc : \/ User(p) /\ SysCall(p)
                  \/ p # init /\ exit(p)
                  \/ kill(p) \/ Kernel(p)

filesvars == <<pc, procs, tables, pipe, todo, ff, io, pfd, got>>
FilesSpec == FilesInit /\ [][FilesNext]_filesvars

-----------------------------------------------------------------------------
(* Properties *)

TypeOK ==
  /\ pc \in [Proc -> {"unused", "user", "pipe", "close", "last", "exit", "zombie", "read", "read-sleep",
                      "read-asleep", "write", "write-sleep", "write-asleep"}]
  /\ killed \subseteq Proc /\ exiting \subseteq Proc
  /\ ofile \in [Proc -> [Fd -> File \cup {None}]]
  /\ ftable \in [File -> [ref : Nat, type : {"FD_NONE", "FD_PIPE", "FD_INODE"},
                          pipe : Page \cup {None}, readable : BOOLEAN, writable : BOOLEAN]]
  /\ iref \in Nat
  /\ \A x \in Page : pipe[x].lock \in Proc \cup {None} /\ Held(x) \in 0..PIPESIZE
  /\ todo \in [Proc -> [{1, 2} -> File \cup {None}]]

\* ref of every file is the number of descriptors, in all processes, and of closes
\* still to be made that refer to it: dup(), fork(), pipe(), close() and exit() lose
\* none and invent none, on their failure paths too.
RefsIn(A, o, f) == Cardinality({h \in Proc \X A : o[h[1]][h[2]] = f})
RefCounts ==
  \A f \in File : ftable[f].ref = RefsIn(Fd, ofile, f) + RefsIn({1, 2}, todo, f)

\* The references fileclose() has taken out of the table but not given back yet.
Leaving == {ff[p] : p \in {q \in Proc : pc[q] = "last"}}
Live == {ftable[f] : f \in {g \in File : ftable[g].ref > 0}} \cup Leaving

\* A pipe is told that an end is closed exactly when no file for that end is left,
\* in whatever process: a reader sees the end of the stream neither early nor late.
EndsOpen ==
  \A x \in Page :
    /\ pipe[x].writeopen = (\E f \in Live : f.type = "FD_PIPE" /\ f.pipe = x /\ f.writable)
    /\ pipe[x].readopen = (\E f \in Live : f.type = "FD_PIPE" /\ f.pipe = x /\ f.readable)
    /\ pipe[x].used = (pipe[x].readopen \/ pipe[x].writeopen)

\* An inode stays referenced as long as a file uses it, and no longer.
InodeRefs ==
  iref = Cardinality({f \in File : ftable[f].ref > 0 /\ ftable[f].type = "FD_INODE"})
         + Cardinality({p \in Proc : pc[p] = "last" /\ ff[p].type = "FD_INODE"})

\* pipeclose() frees the page only when nobody is in piperead() or pipewrite() on it.
NoUseAfterFree == \A p \in Proc : io[p].pipe # None => pipe[io[p].pipe].used

\* No wakeup is lost: a reader sleeps on a pipe that can still be written and is empty
\* (unless a writer was killed on it when it was full: pipewrite() then returns without a
\* wakeup), a writer on a full one that can still be read, and they never wait for each other.
SleepJustified ==
  \A p \in Proc :
    LET x == io[p].pipe IN
    /\ pc[p] = "read-asleep" => pipe[x].writeopen /\ (Held(x) = 0 \/ pipe[x].left)
    /\ pc[p] = "write-asleep" =>
         /\ pipe[x].readopen /\ Held(x) = PIPESIZE
         /\ \A q \in Proc : ~(pc[q] = "read-asleep" /\ io[q].pipe = x)

Queue == [x \in Page |-> Contents(x)]
ReadOpen == {x \in Page : pipe[x].readopen}
WriteOpen == {x \in Page : pipe[x].writeopen}
Stream == INSTANCE ByteStream
  WITH Pipe <- Page, Reader <- Proc, queue <- Queue, ropen <- ReadOpen, wopen <- WriteOpen

\* Every pipe is a byte stream (ByteStream): what comes out is what went in, once and
\* in order, across the wrap of the ring and of the counters, and a read that returns
\* nothing means that there will be nothing.
IsByteStream == Stream!Spec

\* The counts that decide when fileclose() gives a file and its inode back are exact.
References == TypeOK /\ RefCounts /\ InodeRefs

\* A pipe lives exactly as long as it has an end or a process working on it.
PipeEnds == EndsOpen /\ NoUseAfterFree

=============================================================================
