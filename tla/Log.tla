-------------------------------- MODULE Log --------------------------------
(***************************************************************************)
(* The redo log of log.c: begin_op, log_write, end_op, commit and the      *)
(* recovery at boot, with a crash possible before and after every disk     *)
(* write.  iderw() returns when the disk has the block, so the writes of   *)
(* commit() reach it one by one and in order.                              *)
(***************************************************************************)
EXTENDS Integers, Sequences, FiniteSets

CONSTANTS Proc,         \* processes in file-system calls
          Block,        \* home blocks
          Value, Zero,  \* block contents
          MAXOPBLOCKS, LOGSIZE,  \* param.h
          nlog          \* log.size, from the superblock: mkfs writes LOGSIZE

ASSUME ZeroAssumption == Zero \in Value
ASSUME LogAssumption ==
  MAXOPBLOCKS \in Nat \ {0} /\ LOGSIZE \in Nat \ {0} /\ nlog \in Nat \ {0}

VARIABLES lh,            \* log.lh, as the sequence of its block numbers
          outstanding, committing,
          pc,            \* where a process is with respect to the log
          buf,           \* the block whose buffer it has locked
          wrote,         \* blocks its operation has modified
          cache, dirty,  \* contents of the buffer cache; blocks with B_DIRTY
          phase, tail,   \* progress of commit(), or of recovery
          home, logged, head, \* the disk: home blocks, log blocks, log header
          panicked

ops == <<pc, buf, wrote>>
mem == <<cache, dirty>>
disk == <<home, logged, head>>
vars == <<lh, outstanding, committing, ops, mem, phase, tail, disk, panicked>>

None == "none"       \* no buffer locked
ASSUME BlockAssumption == None \notin Block
Up == ~panicked /\ phase \notin {"boot", "reinstall", "reclear"}

\* A fresh file system, and initlog() about to run.
Init ==
  /\ lh = <<>> /\ outstanding = 0 /\ committing = FALSE
  /\ pc = [p \in Proc |-> "idle"]
  /\ buf = [p \in Proc |-> None]
  /\ wrote = [p \in Proc |-> {}]
  /\ home = [b \in Block |-> Zero]
  /\ cache = home /\ dirty = {}
  /\ logged = [i \in 1..(nlog - 1) |-> Zero]
  /\ head = <<>>
  /\ phase = "boot" /\ tail = 1
  /\ panicked = FALSE

-----------------------------------------------------------------------------
(* Operations *)

\* wakeup(&log), under log.lock.
WakeAll == [p \in Proc |-> IF pc[p] = "asleep" THEN "begin" ELSE pc[p]]

Space == Len(lh) + (outstanding + 1) * MAXOPBLOCKS <= LOGSIZE

\* Mutant: committing is not tested.
BeginOpEarly(p) ==
  /\ Up /\ pc[p] \in {"idle", "begin"}
  /\ Space
  /\ outstanding' = outstanding + 1
  /\ pc' = [pc EXCEPT ![p] = "op"]
  /\ UNCHANGED <<lh, committing, buf, wrote, mem, phase, tail, disk, panicked>>

\* begin_op(): a turn of its loop that ends it ...
BeginOp(p) ==
  /\ Up /\ pc[p] \in {"idle", "begin"}
  /\ ~committing /\ Space
  /\ outstanding' = outstanding + 1
  /\ pc' = [pc EXCEPT ![p] = "op"]
  /\ UNCHANGED <<lh, committing, buf, wrote, mem, phase, tail, disk, panicked>>

\* ... and one that sleeps.
BeginSleep(p) ==
  /\ Up /\ pc[p] \in {"idle", "begin"}
  /\ committing \/ ~Space
  /\ pc' = [pc EXCEPT ![p] = "asleep"]
  /\ UNCHANGED <<lh, outstanding, committing, buf, wrote, mem, phase, tail, disk,
                 panicked>>

\* bread() a block, modify it, and make the tests at the start of log_write(),
\* before log.lock is taken.  No operation modifies more than MAXOPBLOCKS blocks.
Modify(p, b, v) ==
  /\ Up /\ pc[p] = "op" /\ buf[p] = None
  /\ \A q \in Proc : buf[q] # b
  /\ Cardinality(wrote[p] \cup {b}) <= MAXOPBLOCKS
  /\ panicked' = (Len(lh) >= LOGSIZE \/ Len(lh) >= nlog - 1 \/ outstanding < 1)
  /\ buf' = [buf EXCEPT ![p] = b]
  /\ wrote' = [wrote EXCEPT ![p] = @ \cup {b}]
  /\ cache' = [cache EXCEPT ![b] = v]
  /\ UNCHANGED <<lh, outstanding, committing, pc, dirty, phase, tail, disk>>

Logged(b) == \E i \in 1..Len(lh) : lh[i] = b

\* Mutant: a block is logged each time.
LogWriteTwice(p) ==
  /\ Up /\ buf[p] # None
  /\ lh' = Append(lh, buf[p])
  /\ dirty' = dirty \cup {buf[p]}
  /\ buf' = [buf EXCEPT ![p] = None]
  /\ UNCHANGED <<outstanding, committing, pc, wrote, cache, phase, tail, disk, panicked>>

\* The rest of log_write(), under log.lock, and brelse().
LogWrite(p) ==
  /\ Up /\ buf[p] # None
  /\ lh' = IF Logged(buf[p]) THEN lh ELSE Append(lh, buf[p])
  /\ dirty' = dirty \cup {buf[p]}
  /\ buf' = [buf EXCEPT ![p] = None]
  /\ UNCHANGED <<outstanding, committing, pc, wrote, cache, phase, tail, disk, panicked>>

\* bget() recycles the buffer of a block that is neither pinned nor in use, and
\* a later bread() reads the block from the disk again.
Evict(b) ==
  /\ Up
  /\ b \notin dirty /\ \A q \in Proc : buf[q] # b
  /\ cache' = [cache EXCEPT ![b] = home[b]]
  /\ UNCHANGED <<lh, outstanding, committing, ops, dirty, phase, tail, disk, panicked>>

\* end_op() of an operation that is not the last one; it may have made room.
EndOp(p) ==
  /\ Up /\ pc[p] = "op" /\ buf[p] = None
  /\ outstanding # 1
  /\ outstanding' = outstanding - 1
  /\ panicked' = committing
  /\ pc' = [WakeAll EXCEPT ![p] = "idle"]
  /\ wrote' = [wrote EXCEPT ![p] = {}]
  /\ UNCHANGED <<lh, committing, buf, mem, phase, tail, disk>>

\* end_op() of the last operation: it goes on to commit().
EndLast(p) ==
  /\ Up /\ pc[p] = "op" /\ buf[p] = None
  /\ outstanding = 1
  /\ outstanding' = 0
  /\ panicked' = committing
  /\ committing' = TRUE
  /\ phase' = IF lh = <<>> THEN "finish" ELSE "write_log"
  /\ tail' = 1
  /\ pc' = [pc EXCEPT ![p] = "commit"]
  /\ wrote' = [wrote EXCEPT ![p] = {}]
  /\ UNCHANGED <<lh, buf, mem, disk>>

-----------------------------------------------------------------------------
(* commit(), one disk write per step *)

Committing(ph) == Up /\ phase = ph

\* The next index of a loop over the log, and the phase after the loop.
Advance(this, next) ==
  IF tail < Len(lh) THEN tail' = tail + 1 /\ phase' = this
                    ELSE tail' = 1 /\ phase' = next

\* Mutant: the header is written before the blocks.
WriteLogLate ==
  /\ Committing("write_log")
  /\ logged' = [logged EXCEPT ![tail] = cache[lh[tail]]]
  /\ head' = lh
  /\ Advance("write_log", "install")
  /\ UNCHANGED <<lh, outstanding, committing, ops, mem, home, panicked>>

WriteLog ==
  /\ Committing("write_log")
  /\ logged' = [logged EXCEPT ![tail] = cache[lh[tail]]]
  /\ Advance("write_log", "write_head")
  /\ UNCHANGED <<lh, outstanding, committing, ops, mem, home, head, panicked>>

\* The real commit.
WriteHead ==
  /\ Committing("write_head")
  /\ head' = lh
  /\ phase' = "install"
  /\ UNCHANGED <<lh, outstanding, committing, ops, mem, tail, home, logged, panicked>>

\* One turn of install_trans(): the log block to its home, and out of dirty.
Install ==
  /\ home' = [home EXCEPT ![lh[tail]] = logged[tail]]
  /\ cache' = [cache EXCEPT ![lh[tail]] = logged[tail]]
  /\ dirty' = dirty \ {lh[tail]}
  /\ UNCHANGED <<lh, outstanding, committing, ops, logged, head, panicked>>

InstallTrans ==
  /\ Committing("install")
  /\ Install
  /\ Advance("install", "clear")

\* log.lh.n = 0; write_head().
ClearHead ==
  /\ Committing("clear")
  /\ lh' = <<>> /\ head' = <<>>
  /\ phase' = "finish"
  /\ UNCHANGED <<outstanding, committing, ops, mem, tail, home, logged, panicked>>

\* Mutant: the sleepers are woken before committing is 0 again.
EndCommitNoWakeup(p) ==
  /\ Committing("finish") /\ pc[p] = "commit"
  /\ committing' = FALSE
  /\ phase' = "run"
  /\ pc' = [pc EXCEPT ![p] = "idle"]
  /\ UNCHANGED <<lh, outstanding, buf, wrote, mem, tail, disk, panicked>>

\* The end of end_op().
EndCommit(p) ==
  /\ Committing("finish") /\ pc[p] = "commit"
  /\ committing' = FALSE
  /\ phase' = "run"
  /\ pc' = [WakeAll EXCEPT ![p] = "idle"]
  /\ UNCHANGED <<lh, outstanding, buf, wrote, mem, tail, disk, panicked>>

-----------------------------------------------------------------------------
(* Crash and recovery *)

\* Everything in memory is lost; also the way out of a panic.
Crash ==
  /\ phase # "boot"
  /\ phase' = "boot" /\ tail' = 1
  /\ lh' = <<>> /\ outstanding' = 0 /\ committing' = FALSE
  /\ pc' = [p \in Proc |-> "idle"]
  /\ buf' = [p \in Proc |-> None]
  /\ wrote' = [p \in Proc |-> {}]
  /\ cache' = home /\ dirty' = {}
  /\ panicked' = FALSE
  /\ UNCHANGED disk

\* initlog() -> recover_from_log() -> read_head().
ReadHead ==
  /\ phase = "boot"
  /\ lh' = head
  /\ phase' = IF head = <<>> THEN "reclear" ELSE "reinstall"
  /\ UNCHANGED <<outstanding, committing, ops, mem, tail, disk, panicked>>

ReinstallTrans ==
  /\ phase = "reinstall"
  /\ Install
  /\ Advance("reinstall", "reclear")

ReclearHead ==
  /\ phase = "reclear"
  /\ lh' = <<>> /\ head' = <<>>
  /\ phase' = "run"
  /\ UNCHANGED <<outstanding, committing, ops, mem, tail, home, logged, panicked>>

-----------------------------------------------------------------------------
ProcStep(p) ==
  \/ BeginOp(p) \/ BeginSleep(p) \/ LogWrite(p)
  \/ EndOp(p) \/ EndLast(p) \/ EndCommit(p)
  \/ \E b \in Block, v \in Value : Modify(p, b, v)

LogStep ==
  \/ WriteLog \/ WriteHead \/ InstallTrans \/ ClearHead
  \/ ReadHead \/ ReinstallTrans \/ ReclearHead

Next ==
  \/ \E p \in Proc : ProcStep(p)
  \/ \E b \in Block : Evict(b)
  \/ LogStep
  \/ Crash

Spec == Init /\ [][Next]_vars

\* Disk writes complete, and an operation that has begun comes to its end: the
\* loops between begin_op() and end_op() are bounded.
Fairness ==
  /\ WF_vars(LogStep)
  /\ \A p \in Proc : /\ WF_vars(LogWrite(p) \/ EndCommit(p))
                      /\ SF_vars(EndOp(p) \/ EndLast(p))

FairSpec == Spec /\ Fairness

-----------------------------------------------------------------------------
(* Properties *)

Phases == {"run", "write_log", "write_head", "install", "clear", "finish",
           "boot", "reinstall", "reclear"}

\* The log never outgrows the blocks that mkfs has reserved for it on the disk,
\* although log_write() tests its length before it has log.lock.
LogFits == Len(lh) < nlog

\* Every variable has its type, and the log fits.
TypeOK ==
  /\ lh \in Seq(Block) /\ LogFits
  /\ outstanding \in Nat /\ committing \in BOOLEAN
  /\ pc \in [Proc -> {"idle", "begin", "asleep", "op", "commit"}]
  /\ buf \in [Proc -> Block \cup {None}]
  /\ wrote \in [Proc -> SUBSET Block]
  /\ cache \in [Block -> Value] /\ dirty \subseteq Block
  /\ phase \in Phases /\ tail \in 1..nlog
  /\ home \in [Block -> Value]
  /\ logged \in [1..(nlog - 1) -> Value]
  /\ head \in Seq(Block) /\ Len(head) < nlog
  /\ panicked \in BOOLEAN

\* What a reboot makes of the disk: the logged blocks over their homes.
Durable ==
  [b \in Block |->
     IF \E i \in 1..Len(head) : head[i] = b
     THEN logged[CHOOSE i \in 1..Len(head) : head[i] = b]
     ELSE home[b]]

Atomic ==
  INSTANCE AtomicDisk WITH
    disk <- Durable,
    view <- IF phase \in {"boot", "reinstall", "reclear"} THEN Durable ELSE cache,
    active <- {p \in Proc : pc[p] = "op"}

\* The log makes whole operations durable at once, whatever the interleaving of
\* operations, evictions, disk writes and crashes (crashes of recovery included).
IsAtomic == Atomic!Spec

\* begin_op() never sleeps without somebody left to wake it: an operation in
\* progress, or the commit.
SleeperHasWaker ==
  (\E p \in Proc : pc[p] = "asleep") => outstanding > 0 \/ committing

\* While commit() runs no operation is in progress, so nobody modifies a block
\* between its copy to the log and its copy to its home.
QuietCommit ==
  committing => outstanding = 0 /\ \A p \in Proc : pc[p] # "op" /\ buf[p] = None

\* A sleeper in begin_op() is woken (unless the kernel panics).
SleeperWakes == \A p \in Proc : pc[p] = "asleep" ~> (pc[p] # "asleep" \/ panicked)

\* commit() runs alone over a log that fits, and it or an operation will wake whoever
\* sleeps in begin_op().
CommitSafe == TypeOK /\ QuietCommit /\ SleeperHasWaker

=============================================================================
