------------------------------- MODULE Inodes -------------------------------
(***************************************************************************)
(* Inodes, their cache and directories (fs.c) and the system calls on path *)
(* names (sysfile.c).  What a process does while it holds an inode's lock  *)
(* is one step, cut where it waits for another lock; iput() is two steps,  *)
(* because it reads the reference count and drops its reference in two     *)
(* critical sections of icache.lock.  An inode's cache entry is named by   *)
(* its number.                                                             *)
(***************************************************************************)
EXTENDS Integers, Sequences, FiniteSets, FiniteSetsExt

CONSTANTS Proc, Inum,
          Name,        \* names other than "." and ".."
          Call,        \* system calls: [op, path] and, for link, new
          MaxCalls,    \* calls of each process
          Boot         \* the file system at boot: type, nlink and ents of each inode

ROOTINO == 1
None == 0
Free == [type |-> "FREE", nlink |-> 0, ents |-> [n \in Name \cup {".", ".."} |-> None]]

ASSUME InodesAssumption ==
  /\ ROOTINO \in Inum /\ None \notin Inum
  /\ DOMAIN Boot = Inum /\ Boot[ROOTINO].type = "DIR"

VARIABLES din,     \* the inodes on disk, with the entries of directories
          ic,      \* icache: ref, valid, lock, and the cached type and nlink
          loc,     \* each process: where it is and its local variables
          cwd, fd, \* its directory and its open file
          calls,   \* how many system calls it has made
          panicked

vars == <<din, ic, loc, cwd, fd, calls, panicked>>

\* puts: the references it drops before it goes on at pc; nd and path: namex();
\* ip and dp: the inodes of the system call.
Idle == [pc |-> "user", putting |-> FALSE, puts |-> <<>>, call |-> [op |-> "none"],
         nd |-> None, path |-> <<>>, ip |-> None, dp |-> None]
Unused == [ref |-> 0, valid |-> FALSE, lock |-> None, type |-> "FREE", nlink |-> 0]

\* Every process starts in the root directory.
Init ==
  /\ din = Boot
  /\ ic = [i \in Inum |-> IF i = ROOTINO THEN [Unused EXCEPT !.ref = Cardinality(Proc)] ELSE Unused]
  /\ loc = [p \in Proc |-> Idle]
  /\ cwd = [p \in Proc |-> ROOTINO] /\ fd = [p \in Proc |-> None]
  /\ calls = [p \in Proc |-> 0]
  /\ panicked = FALSE

-----------------------------------------------------------------------------
(* The inode cache *)

\* Mutant: a cached inode is returned without a new reference.
iget_shared(c, i) == IF c[i].ref = 0 THEN [c EXCEPT ![i] = [Unused EXCEPT !.ref = 1]] ELSE c
\* iget() and idup(): one more reference; a recycled entry is not valid.
iget(c, i) ==
  [c EXCEPT ![i] = IF @.ref = 0 THEN [Unused EXCEPT !.ref = 1] ELSE [@ EXCEPT !.ref = @ + 1]]

\* ilock(): what the cache holds once the inode has been read.
ilock(i) == IF ic[i].valid THEN ic[i]
            ELSE [ic[i] EXCEPT !.valid = TRUE, !.type = din[i].type, !.nlink = din[i].nlink]
Lockable(i) == ic[i].lock = None
BadInode(i) == ilock(i).type = "FREE"        \* panic("ilock: no type")

\* A change of a loaded inode's nlink, and the iupdate() after it.
\* Mutant: the change stays in memory.
iupdate_not(d, i, n) == d
iupdate(d, i, n) == [d EXCEPT ![i].nlink = @ + n]
Linked(c, i, n) == [c EXCEPT ![i].nlink = @ + n]
Lock(c, i, p) == [c EXCEPT ![i].lock = p]
\* Mutant: the lock is kept.
Unlock_not(c, i) == c
Unlock(c, i) == [c EXCEPT ![i].lock = None]
Load(c, i) == [c EXCEPT ![i] = [ilock(i) EXCEPT !.ref = c[i].ref, !.lock = c[i].lock]]

At(p, l) == loc[p].pc = l /\ loc[p].puts = <<>> /\ ~panicked
Go(p, l) == loc' = [loc EXCEPT ![p] = l]
To(p, l) == [loc[p] EXCEPT !.pc = l]
End(puts) == [Idle EXCEPT !.puts = puts]
Panic == panicked' = TRUE /\ UNCHANGED <<din, ic, loc, cwd, fd, calls>>
Same == UNCHANGED <<cwd, fd, calls, panicked>>

\* Mutant: the freed inode stays in the cache.
Freed_valid(v) == [v EXCEPT !.type = "FREE"]
Freed(v) == [v EXCEPT !.valid = FALSE]
\* Mutant: the reference count is not looked at.
LastRef_any(v) == v.valid /\ v.nlink = 0
LastRef(v) == v.valid /\ v.nlink = 0 /\ v.ref = 1

\* iput() up to releasesleep(): an inode without links is freed with its contents.
iput(p) ==
  LET i == loc[p].puts[1] IN
  /\ loc[p].puts # <<>> /\ ~loc[p].putting /\ ~panicked
  /\ Lockable(i)
  /\ IF LastRef(ic[i])
     THEN /\ din' = [din EXCEPT ![i] = Free]
          /\ ic' = [ic EXCEPT ![i] = Freed(@)]
     ELSE UNCHANGED <<din, ic>>
  /\ Go(p, [loc[p] EXCEPT !.putting = TRUE])
  /\ Same

\* Mutant: the reference is dropped twice.
Drop_twice(v) == [v EXCEPT !.ref = @ - 2]
Drop(v) == [v EXCEPT !.ref = @ - 1]
iput_ref(p) ==
  /\ loc[p].putting /\ ~panicked
  /\ ic' = [ic EXCEPT ![loc[p].puts[1]] = Drop(@)]
  /\ Go(p, [loc[p] EXCEPT !.putting = FALSE, !.puts = Tail(@)])
  /\ UNCHANGED din /\ Same

-----------------------------------------------------------------------------
(* Path names *)

\* namex() ends: with an inode in nd, or without one.
Parent(l) == l.pc \in {"create", "link2", "unlink"}
NotFound(l, i) == IF l.pc = "link2" THEN [l EXCEPT !.pc = "bad", !.nd = None, !.puts = <<i>>]
                  ELSE End(<<i>>)

\* Where a lookup begins; an absolute path is one with "/" in front.
From(p, path) == IF path[1] = "/" THEN ROOTINO ELSE cwd[p]
Rel(path) == SelectSeq(path, LAMBDA n : n # "/")

Start(p) ==
  \E c \in Call :
    LET pc == CASE c.op \in {"create", "mkdir", "mknod"} -> "create" [] c.op = "link" -> "link1"
                [] c.op \in {"open", "chdir"} -> "open" [] OTHER -> c.op IN
    /\ At(p, "user") /\ calls[p] < MaxCalls
    /\ IF c.op = "close"
       THEN /\ fd[p] # None
            /\ fd' = [fd EXCEPT ![p] = None]
            /\ Go(p, End(<<fd[p]>>)) /\ UNCHANGED ic
       ELSE /\ ic' = iget(ic, From(p, c.path))
            /\ Go(p, [Idle EXCEPT !.pc = pc, !.call = c, !.nd = From(p, c.path), !.path = Rel(c.path)])
            /\ UNCHANGED fd
    /\ calls' = [calls EXCEPT ![p] = @ + 1]
    /\ UNCHANGED <<din, cwd, panicked>>

\* A turn of namex()'s loop.
namex(p) ==
  LET l == loc[p]  i == l.nd  next == din[i].ents[Head(l.path)] IN
  /\ l.puts = <<>> /\ ~panicked
  /\ i # None /\ l.path # <<>> /\ ~(Parent(l) /\ l.dp = i)
  /\ Lockable(i)
  /\ IF BadInode(i) THEN Panic
     ELSE /\ Same /\ UNCHANGED din
          /\ IF ilock(i).type = "DIR" /\ Parent(l) /\ Len(l.path) = 1
             THEN ic' = Load(ic, i) /\ Go(p, [l EXCEPT !.dp = i])
             ELSE IF ilock(i).type = "DIR" /\ next # None
             THEN /\ ic' = iget(Load(ic, i), next)
                  /\ Go(p, [l EXCEPT !.nd = next, !.path = Tail(@), !.puts = <<i>>])
             ELSE ic' = Load(ic, i) /\ Go(p, NotFound(l, i))

\* It has returned the inode, or the directory and the last name.
Found(p, l) == At(p, l) /\ loc[p].path = <<>>
FoundDir(p, l) == At(p, l) /\ loc[p].dp # None
Entry(p) == din[loc[p].dp].ents[loc[p].path[1]]

-----------------------------------------------------------------------------
(* System calls *)

\* sys_open() without O_CREATE, and sys_chdir(), after namei().
sys_open(p) ==
  LET i == loc[p].nd IN
  /\ Found(p, "open") /\ Lockable(i)
  /\ IF BadInode(i) THEN Panic
     ELSE /\ ic' = Load(ic, i)
          /\ IF loc[p].call.op = "open"
             THEN /\ fd' = [fd EXCEPT ![p] = IF @ = None THEN i ELSE @]
                  /\ Go(p, End(IF fd[p] = None THEN <<>> ELSE <<i>>)) /\ UNCHANGED cwd
             ELSE /\ cwd' = [cwd EXCEPT ![p] = IF ilock(i).type = "DIR" THEN i ELSE @]
                  /\ Go(p, End(IF ilock(i).type = "DIR" THEN <<cwd[p]>> ELSE <<i>>)) /\ UNCHANGED fd
          /\ UNCHANGED <<din, calls, panicked>>

TypeOf(op) == CASE op = "mkdir" -> "DIR" [] op = "mknod" -> "DEV" [] OTHER -> "FILE"
ialloc == Min({i \in Inum : din[i].type = "FREE"})
New(p, i) ==
  LET t == TypeOf(loc[p].call.op) IN
  [type |-> t, nlink |-> 1,
   ents |-> IF t = "DIR" THEN [Free.ents EXCEPT !["."] = i, ![".."] = loc[p].dp] ELSE Free.ents]

\* create(): an inode that exists, or a new one, which it returns locked.
create(p) ==
  LET d == loc[p].dp  t == TypeOf(loc[p].call.op)
      up == IF t = "DIR" THEN 1 ELSE 0
      i == ialloc
      type == IF iget(ic, i)[i].valid THEN ic[i].type ELSE t   \* after its ilock()
      back == [loc[p] EXCEPT !.nd = None, !.dp = None, !.puts = <<d>>, !.path = <<>>]
  IN
  /\ FoundDir(p, "create") /\ Lockable(d)
  /\ IF Entry(p) # None
     THEN /\ ic' = iget(ic, Entry(p)) /\ UNCHANGED din
          /\ Go(p, [back EXCEPT !.pc = "exists", !.ip = Entry(p)])
     ELSE /\ ic' = [Linked(iget(ic, i), d, up) EXCEPT
                      ![i].valid = TRUE, ![i].type = type, ![i].nlink = 1, ![i].lock = p]
          /\ din' = iupdate([din EXCEPT ![i] = [New(p, i) EXCEPT !.type = type],
                                        ![d].ents[loc[p].path[1]] = i], d, up)
          /\ Go(p, [back EXCEPT !.pc = "created", !.ip = i])
  /\ Same

\* ... with a file that exists, which open() takes if it is one, ...
exists(p) ==
  LET i == loc[p].ip  ok == loc[p].call.op = "create" /\ ilock(i).type = "FILE" IN
  /\ At(p, "exists") /\ Lockable(i)
  /\ IF BadInode(i) THEN Panic
     ELSE /\ ic' = Load(ic, i)
          /\ fd' = [fd EXCEPT ![p] = IF ok /\ @ = None THEN i ELSE @]
          /\ Go(p, End(IF ok /\ fd[p] = None THEN <<>> ELSE <<i>>))
          /\ UNCHANGED <<din, cwd, calls, panicked>>

\* ... and with the new one.
created(p) ==
  LET i == loc[p].ip  ok == loc[p].call.op = "create" /\ fd[p] = None IN
  /\ At(p, "created")
  /\ ic' = Unlock(ic, i)
  /\ fd' = [fd EXCEPT ![p] = IF ok THEN i ELSE @]
  /\ Go(p, End(IF ok THEN <<>> ELSE <<i>>))
  /\ UNCHANGED <<din, cwd, calls, panicked>>

\* Mutant: link() counts the link only after the entry.
LinkFirst_not == 0
LinkFirst == 1

\* sys_link(): count the link, ...
sys_link(p) ==
  LET i == loc[p].nd  new == loc[p].call.new IN
  /\ Found(p, "link1") /\ Lockable(i)
  /\ IF BadInode(i) THEN Panic
     ELSE IF ilock(i).type = "DIR"
     THEN ic' = Load(ic, i) /\ Go(p, End(<<i>>)) /\ UNCHANGED din /\ Same
     ELSE /\ ic' = iget(Linked(Load(ic, i), i, LinkFirst), From(p, new))
          /\ din' = iupdate(din, i, LinkFirst)
          /\ Go(p, [loc[p] EXCEPT !.pc = "link2", !.ip = i, !.nd = From(p, new), !.path = Rel(new)])
          /\ Same

\* ... make the entry, ...
dirlink(p) ==
  LET d == loc[p].dp  i == loc[p].ip IN
  /\ FoundDir(p, "link2") /\ Lockable(d)
  /\ IF Entry(p) # None
     THEN /\ ic' = Lock(iget(ic, Entry(p)), d, p) /\ UNCHANGED din
          /\ Go(p, [To(p, "link3") EXCEPT !.nd = None, !.path = <<>>, !.puts = <<Entry(p)>>])
     ELSE /\ din' = [din EXCEPT ![d].ents[loc[p].path[1]] = i]
          /\ Go(p, End(<<d, i>>)) /\ UNCHANGED ic
  /\ Same

\* ... and take the count back when that failed.
link_exists(p) ==
  /\ At(p, "link3")
  /\ ic' = Unlock(ic, loc[p].dp)
  /\ Go(p, [To(p, "bad") EXCEPT !.dp = None, !.puts = <<loc[p].dp>>])
  /\ UNCHANGED din /\ Same
link_bad(p) ==
  LET i == loc[p].ip IN
  /\ At(p, "bad") /\ Lockable(i)
  /\ ic' = Linked(Load(ic, i), i, -1)
  /\ din' = iupdate(din, i, -1)
  /\ Go(p, End(<<i>>)) /\ Same

\* sys_unlink(): lock the directory and find the entry, ...
sys_unlink(p) ==
  LET d == loc[p].dp IN
  /\ FoundDir(p, "unlink") /\ Lockable(d)
  /\ IF loc[p].path[1] \in {".", ".."} \/ Entry(p) = None
     THEN Go(p, End(<<d>>)) /\ UNCHANGED ic
     ELSE /\ ic' = Lock(iget(ic, Entry(p)), d, p)
          /\ Go(p, [To(p, "unlink2") EXCEPT !.ip = Entry(p), !.nd = None])
  /\ UNCHANGED din /\ Same

isdirempty(i) == \A n \in Name : din[i].ents[n] = None

\* ... lock its inode too, remove the entry and let the directory go, ...
unlink_entry(p) ==
  LET d == loc[p].dp  i == loc[p].ip
      down == IF ilock(i).type = "DIR" THEN -1 ELSE 0
  IN
  /\ At(p, "unlink2") /\ Lockable(i)
  /\ IF BadInode(i) \/ ilock(i).nlink < 1 THEN Panic
     ELSE /\ Same
          /\ IF ilock(i).type = "DIR" /\ ~isdirempty(i)
             THEN /\ ic' = Load(ic, i) /\ UNCHANGED din
                  /\ Go(p, [To(p, "unlink3") EXCEPT !.ip = None, !.path = <<>>, !.puts = <<i>>])
             ELSE /\ din' = iupdate([din EXCEPT ![d].ents[loc[p].path[1]] = None], d, down)
                  /\ ic' = Linked(Unlock(Lock(Load(ic, i), i, p), d), d, down)
                  /\ Go(p, [To(p, "unlink4") EXCEPT !.dp = None, !.path = <<>>, !.puts = <<d>>])
\* (a directory that is not empty is left alone)
unlink_bad(p) ==
  /\ At(p, "unlink3")
  /\ ic' = Unlock(ic, loc[p].dp)
  /\ Go(p, End(<<loc[p].dp>>))
  /\ UNCHANGED din /\ Same

\* ... and then count the link down.
unlink_count(p) ==
  LET i == loc[p].ip IN
  /\ At(p, "unlink4")
  /\ din' = iupdate(din, i, -1)
  /\ ic' = Unlock(Linked(ic, i, -1), i)
  /\ Go(p, End(<<i>>)) /\ Same

Next ==
  \E p \in Proc :
    \/ Start(p) \/ namex(p) \/ iput(p) \/ iput_ref(p) \/ sys_open(p) \/ create(p) \/ exists(p)
    \/ created(p) \/ sys_link(p) \/ dirlink(p) \/ link_exists(p) \/ link_bad(p)
    \/ sys_unlink(p) \/ unlink_entry(p) \/ unlink_bad(p) \/ unlink_count(p)

Spec == Init /\ [][Next]_vars

-----------------------------------------------------------------------------
(* Properties *)

TypeOK ==
  /\ din \in [Inum -> [type : {"FREE", "FILE", "DIR", "DEV"}, nlink : Nat,
                       ents : [Name \cup {".", ".."} -> Inum \cup {None}]]]
  /\ \A i \in Inum : ic[i].ref \in Nat /\ ic[i].nlink \in Nat /\ ic[i].lock \in Proc \cup {None}
  /\ cwd \in [Proc -> Inum] /\ fd \in [Proc -> Inum \cup {None}]

\* The references a process has: its directory, its open file, those it is about to drop
\* and those in the local variables of its system call (dp is nd until it is locked).
RefsOf(p, i) ==
  (IF cwd[p] = i THEN 1 ELSE 0) + (IF fd[p] = i THEN 1 ELSE 0)
  + Cardinality({k \in DOMAIN loc[p].puts : loc[p].puts[k] = i})
  + Cardinality({v \in {"nd", "ip", "dp"} :
       loc[p][v] = i /\ ~(v = "dp" /\ loc[p].nd = loc[p].dp)})

\* ref counts exactly the references processes have, on every path through the system
\* calls: none is leaked and none dropped twice.
RefsExact == \A i \in Inum : ic[i].ref = MapThenSumSet(LAMBDA p : RefsOf(p, i), Proc)

\* What the cache says of an inode is what is on disk: iupdate() follows every change, and
\* iput() forgets the inode it frees before ialloc() can give it away again.
Coherent ==
  \A i \in Inum : ic[i].ref > 0 /\ ic[i].valid =>
    ic[i].type = din[i].type /\ ic[i].nlink = din[i].nlink

\* An inode somebody refers to is not freed: whoever still has a reference to a free
\* inode is the iput() that has just freed it.
NotFreedInUse ==
  \A i \in Inum : din[i].type = "FREE" =>
    \A p \in Proc : RefsOf(p, i) > 0 => loc[p].putting /\ loc[p].puts[1] = i /\ ic[i].ref = 1

\* Every entry of a directory names an allocated inode whose link count covers it, while
\* calls are in progress too: no interleaving, and no crash after which the log shows
\* the file system between two calls, leaves an entry for an inode that is free or can
\* be freed.
Entries(i) == {<<d, n>> \in Inum \X Name : din[d].ents[n] = i}
Subdirs(i) == {n \in Name : din[i].ents[n] # None /\ din[din[i].ents[n]].type = "DIR"}
EntriesBacked ==
  \A i \in Inum :
    /\ Entries(i) # {} => din[i].type # "FREE"
    /\ din[i].nlink >= Cardinality(Entries(i)) + Cardinality(Subdirs(i))
    /\ din[i].type = "DIR" =>
         /\ Cardinality(Entries(i)) <= 1
         /\ \A e \in Entries(i) : din[i].ents[".."] = e[1]

\* No panic(): neither ilock()'s "no type" nor unlink's "nlink < 1".
NoPanic == ~panicked

\* Locks are not kept: only the inodes a process is working on are locked by it, and
\* between system calls none is.
NoLockKept ==
  \A i \in Inum : LET p == ic[i].lock IN
    p # None => \/ loc[p].pc \in {"created", "unlink4"} /\ loc[p].ip = i
                \/ loc[p].pc \in {"link3", "unlink2", "unlink3"} /\ loc[p].dp = i

\* Two processes never wait for each other's inode locks.
Wants(p, i) ==
  /\ loc[p].puts # <<>> => i = loc[p].puts[1] /\ ~loc[p].putting
  /\ loc[p].puts = <<>> => loc[p].pc = "unlink2" /\ i = loc[p].ip
NoLockCycle ==
  ~\E p, q \in Proc, i, j \in Inum :
     ic[i].lock = p /\ ic[j].lock = q /\ p # q /\ Wants(p, j) /\ Wants(q, i)

\* What a call of the file system takes in the inode cache, references and locks, it gives back.
CacheBalanced == TypeOK /\ RefsExact /\ NoLockKept

\* A reference in the cache keeps meaning the same file: iput() frees neither an inode
\* in use nor leaves the contents of a freed one to be found again.
SameFile == Coherent /\ NotFreedInUse

\* The directory tree stays a tree of allocated inodes, and no panic() on the way notices
\* that it is not.
TreeSound == EntriesBacked /\ NoPanic

=============================================================================
