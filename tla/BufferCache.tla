---------------------------- MODULE BufferCache ----------------------------
(***************************************************************************)
(* The buffer cache of bio.c, its sleep locks (sleeplock.c) and the disk   *)
(* driver (ide.c) with the controller and its interrupt.  A critical       *)
(* section of bcache.lock, of a sleep lock's spin lock or of idelock is    *)
(* one step; sleep() gives up its lock together with falling asleep.       *)
(***************************************************************************)
EXTENDS Integers, Sequences, FiniteSets

CONSTANTS Proc, Block, Data, Zero, None,
          NBUF,        \* param.h
          Written,     \* the blocks that are ever changed
          MaxPinned    \* blocks the log may have pinned (B_DIRTY) at a time

ASSUME BufferAssumption ==
  /\ NBUF \in Nat /\ MaxPinned \in Nat
  /\ IsFiniteSet(Proc) /\ Zero \in Data /\ Written \subseteq Block
  /\ None \notin Proc \cup Block \cup Data \cup Nat
  /\ None \notin [block : Block, write : BOOLEAN, data : Data]

VARIABLES pc, mine,    \* where each process is, and its buffer
          buf,         \* bcache.buf
          lru,         \* the list: head.next first
          idequeue,
          ctl,         \* the request the controller works on, None when it is idle
          irq,         \* its interrupt is pending
          disk,
          panicked

vars == <<pc, mine, buf, lru, idequeue, ctl, irq, disk, panicked>>
driver == <<idequeue, ctl, irq, disk>>

Buf == 1..NBUF
Empty == [blockno |-> None, valid |-> FALSE, dirty |-> FALSE, refcnt |-> 0, lock |-> None,
          data |-> Zero]

\* binit()
Init ==
  /\ pc = [p \in Proc |-> "idle"] /\ mine = [p \in Proc |-> None]
  /\ buf = [b \in Buf |-> Empty]
  /\ lru = [i \in Buf |-> NBUF + 1 - i]
  /\ idequeue = <<>> /\ ctl = None /\ irq = FALSE
  /\ disk = [k \in Block |-> Zero]
  /\ panicked = FALSE

Goto(p, l) == pc' = [pc EXCEPT ![p] = l]

-----------------------------------------------------------------------------
(* bio.c *)

Cached(k) == {b \in Buf : buf[b].blockno = k}
\* Mutant: a buffer is recycled though log.c has modified it.
Unused_dirty == {i \in Buf : buf[lru[i]].refcnt = 0}
\* Mutant: any flag keeps a buffer from being recycled.
Unused_flags == {i \in Buf : LET b == buf[lru[i]] IN b.refcnt = 0 /\ ~b.dirty /\ ~b.valid}
Unused == {i \in Buf : buf[lru[i]].refcnt = 0 /\ ~buf[lru[i]].dirty}

\* Mutant: nobody counts the process that waits for a cached buffer.
Hit_uncounted(b) == buf
Hit(b) == [buf EXCEPT ![b].refcnt = @ + 1]

\* bget() up to acquiresleep(): the block's buffer, or the least recently used one.
bget(p, k) ==
  /\ pc[p] = "idle" /\ ~panicked
  /\ \/ \E b \in Cached(k) :
          /\ buf' = Hit(b) /\ mine' = [mine EXCEPT ![p] = b]
          /\ Goto(p, "want") /\ UNCHANGED panicked
     \/ /\ Cached(k) = {}
        /\ IF Unused = {} THEN panicked' = TRUE /\ UNCHANGED <<pc, mine, buf>>
           ELSE \E i \in Unused :
             /\ \A j \in Unused : j <= i
             /\ buf' = [buf EXCEPT ![lru[i]] = [Empty EXCEPT !.blockno = k, !.refcnt = 1]]
             /\ mine' = [mine EXCEPT ![p] = lru[i]]
             /\ Goto(p, "want") /\ UNCHANGED panicked
  /\ UNCHANGED <<lru, driver>>

\* acquiresleep(), and bread()'s test of B_VALID.
acquiresleep(p) ==
  LET b == mine[p] IN
  /\ pc[p] = "want"
  /\ IF buf[b].lock # None
     THEN Goto(p, "asleep") /\ UNCHANGED buf
     ELSE /\ buf' = [buf EXCEPT ![b].lock = p]
          /\ Goto(p, IF buf[b].valid THEN "held" ELSE "iderw")
  /\ UNCHANGED <<mine, lru, driver, panicked>>

\* The holder changes the block and writes it to the disk, ...
bwrite(p, v) ==
  /\ pc[p] = "held" /\ buf[mine[p]].blockno \in Written
  /\ buf' = [buf EXCEPT ![mine[p]].data = v, ![mine[p]].dirty = TRUE]
  /\ Goto(p, "iderw")
  /\ UNCHANGED <<mine, lru, driver, panicked>>

\* ... or leaves that to the log, which pins it with B_DIRTY.
Pinned == {b \in Buf : buf[b].dirty}
log_write(p, v) ==
  /\ pc[p] = "held" /\ buf[mine[p]].blockno \in Written
  /\ Cardinality(Pinned \cup {mine[p]}) <= MaxPinned
  /\ buf' = [buf EXCEPT ![mine[p]].data = v, ![mine[p]].dirty = TRUE]
  /\ UNCHANGED <<pc, mine, lru, driver, panicked>>

\* releasesleep() wakes every process that waits for the lock.
\* Mutant: nobody is woken.
Woken_not(b) == pc
Woken(b) == [q \in Proc |-> IF pc[q] = "asleep" /\ mine[q] = b THEN "want" ELSE pc[q]]
releasesleep(p) ==
  /\ pc[p] = "held"
  /\ buf' = [buf EXCEPT ![mine[p]].lock = None]
  /\ pc' = [Woken(mine[p]) EXCEPT ![p] = "brelse"]
  /\ UNCHANGED <<mine, lru, driver, panicked>>

\* Mutant: the head of the list falls out of it.
ToFront_lost(b) == [lru EXCEPT ![1] = b]
ToFront(b) == [j \in Buf |-> IF j = 1 THEN b
                            ELSE IF \E i \in Buf : lru[i] = b /\ j <= i THEN lru[j - 1] ELSE lru[j]]

\* The rest of brelse(), under bcache.lock.
brelse(p) ==
  LET b == mine[p] IN
  /\ pc[p] = "brelse"
  /\ buf' = [buf EXCEPT ![b].refcnt = @ - 1]
  /\ lru' = IF buf[b].refcnt = 1 THEN ToFront(b) ELSE lru
  /\ mine' = [mine EXCEPT ![p] = None] /\ Goto(p, "idle")
  /\ UNCHANGED <<driver, panicked>>

-----------------------------------------------------------------------------
(* ide.c *)

\* idestart(): a write carries its data.
idestart(b) == [block |-> buf[b].blockno, write |-> buf[b].dirty,
                data |-> IF buf[b].dirty THEN buf[b].data ELSE Zero]

\* iderw() to its sleep().
iderw(p) ==
  /\ pc[p] = "iderw"
  /\ idequeue' = Append(idequeue, mine[p])
  /\ ctl' = IF idequeue = <<>> THEN idestart(mine[p]) ELSE ctl
  /\ Goto(p, "io")
  /\ UNCHANGED <<mine, buf, lru, irq, disk, panicked>>

\* The controller does what it was told and raises its interrupt.
Controller ==
  /\ ctl # None /\ ~irq
  /\ disk' = IF ctl.write THEN [disk EXCEPT ![ctl.block] = ctl.data] ELSE disk
  /\ irq' = TRUE
  /\ UNCHANGED <<pc, mine, buf, lru, idequeue, ctl, panicked>>

\* Mutant: the head of the queue is not started again.
NextRequest_none(q) == None
NextRequest(q) == IF q = <<>> THEN None ELSE idestart(q[1])

\* ideintr(): the head of the queue is done.
ideintr ==
  LET b == idequeue[1] IN
  /\ irq /\ irq' = FALSE
  /\ idequeue' = Tail(idequeue)
  /\ buf' = [buf EXCEPT ![b].valid = TRUE, ![b].dirty = FALSE,
                        ![b].data = IF buf[b].dirty THEN @ ELSE disk[ctl.block]]
  /\ ctl' = NextRequest(Tail(idequeue))
  /\ pc' = [p \in Proc |-> IF pc[p] = "io" /\ mine[p] = b THEN "done" ELSE pc[p]]
  /\ UNCHANGED <<mine, lru, disk, panicked>>

\* The sleeper tests the flags again.
Completed(p) ==
  LET b == buf[mine[p]] IN
  /\ pc[p] = "done"
  /\ Goto(p, IF b.valid /\ ~b.dirty THEN "held" ELSE "io")
  /\ UNCHANGED <<mine, buf, lru, driver, panicked>>

-----------------------------------------------------------------------------

Step(p) ==
  \/ acquiresleep(p) \/ releasesleep(p) \/ brelse(p) \/ iderw(p) \/ Completed(p)
Next ==
  \/ Controller \/ ideintr
  \/ \E p \in Proc :
       \/ Step(p)
       \/ \E k \in Block : bget(p, k)
       \/ \E v \in Data : bwrite(p, v) \/ log_write(p, v)

\* Disk and interrupts go on, every process runs, and whoever holds a buffer releases it
\* in the end (every caller of bread() calls brelse()).
Fairness == WF_vars(Controller) /\ WF_vars(ideintr) /\
  \A p \in Proc : WF_vars(Step(p)) /\ SF_vars(releasesleep(p))
Spec == Init /\ [][Next]_vars /\ Fairness

-----------------------------------------------------------------------------
(* Properties *)

TypeOK ==
  /\ pc \in [Proc -> {"idle", "want", "asleep", "held", "iderw", "io", "done", "brelse"}]
  /\ mine \in [Proc -> Buf \cup {None}]
  /\ buf \in [Buf -> [blockno : Block \cup {None}, valid : BOOLEAN, dirty : BOOLEAN, refcnt : Nat,
                      lock : Proc \cup {None}, data : Data]]
  /\ lru \in [Buf -> Buf] /\ \A b \in Buf : \E i \in Buf : lru[i] = b
  /\ idequeue \in Seq(Buf) /\ irq \in BOOLEAN /\ disk \in [Block -> Data]

\* refcnt is the number of processes between bget() and the end of brelse(): a buffer
\* that somebody holds or waits for is never recycled, one that nobody uses always can be.
RefExact == \A b \in Buf : buf[b].refcnt = Cardinality({p \in Proc : mine[p] = b})

\* bget() finds a buffer as long as the log leaves one for each process.
NoPanic == ~panicked

\* A sleeping process has somebody to wake it: the holder of the lock it waits for, or,
\* for a request in the driver's queue, the controller, which works on the head of the
\* queue.  A queued buffer is locked by the process that waits for it.
SleepersHaveWakers ==
  /\ \A p \in Proc : pc[p] = "asleep" => buf[mine[p]].lock # None
  /\ \A p \in Proc : pc[p] = "io" => \E i \in DOMAIN idequeue : idequeue[i] = mine[p]
  /\ \A i \in DOMAIN idequeue :
       LET p == buf[idequeue[i]].lock IN p # None /\ pc[p] = "io" /\ mine[p] = idequeue[i]
  /\ IF idequeue = <<>> THEN ctl = None /\ ~irq
     ELSE ctl # None /\ ctl.block = buf[idequeue[1]].blockno

\* Every disk request completes, and every process that waits for a buffer's lock is woken.
RequestsComplete ==
  \A p \in Proc : (pc[p] = "io" ~> pc[p] = "held") /\ (pc[p] = "asleep" ~> pc[p] = "want")

\* bread() to brelse() gives a process the block itself (BlockStore): one process at a
\* time, and what was stored last, whether that is in the cache, pinned by the log, on
\* its way to the disk or on the disk.
Holds(p) == pc[p] \in {"held", "done", "io", "iderw"} /\ buf[mine[p]].valid
Store == INSTANCE BlockStore
  WITH val <- [k \in Block |->
                 IF \E b \in Cached(k) : buf[b].valid
                 THEN buf[CHOOSE b \in Cached(k) : buf[b].valid].data ELSE disk[k]],
       holding <- [p \in Proc |-> IF Holds(p) THEN buf[mine[p]].blockno ELSE None],
       sees <- [p \in Proc |-> IF Holds(p) THEN buf[mine[p]].data ELSE None]
IsBlockStore == Store!Spec

\* Buffers are counted, found, and not waited for in vain.
BuffersSound == TypeOK /\ RefExact /\ NoPanic /\ SleepersHaveWakers

=============================================================================
