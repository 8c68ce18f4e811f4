# A TLA+ verification of the XV6-with-containers kernel

This directory models the kernel in `src/xv6/`: the teaching kernel xv6 (x86,
two CPUs by default, `CPUS := 2` in the Makefile) with message passing, custom
signals and containers added to `proc.c`. Every definition is translated from
the C code; `PROJECT.json` gives the lines each one models, the runs, the
hazards and the theorems.

- [The system](#the-system)
- [Modules](#modules)
- [Runs](#runs)
- [Disagreements between code and comments](#disagreements-between-code-and-comments)
- [Proofs](#proofs)
- [What is not modelled](#what-is-not-modelled)
- [Next](#next)

## The system

| part | source | state | model |
|---|---|---|---|
| processes, scheduler, timer | `proc.c`, `trap.c`, `sysproc.c`, `init.c` | `ptable`, `struct cpu`, `ticks` | `ProcTable` |
| containers | `proc.c:908-1045` | `container_table`, `c_active`, `c_pointer` | `Containers` |
| message passing | `proc.c:66-129`, `722-800` | `msg_queue` | `Messages`, `MsgFifo` |
| signals, broadcast | `proc.c:802-896` | `map`, `mean_buffer` | `Signals` |
| log and recovery | `log.c` | `log`, log area of the disk | `Log`, `AtomicDisk` |
| buffer cache, sleep locks, disk | `bio.c`, `sleeplock.c`, `ide.c` | `bcache`, `idequeue` | `BufferCache`, `BlockStore` |
| inodes, directories, paths | `fs.c`, `sysfile.c` | `icache`, inodes on disk | `Inodes` |
| blocks of files, `mkfs` | `fs.c`, `file.c`, `mkfs.c` | bitmap, block addresses, contents | `Blocks` |
| descriptors, file table, pipes | `file.c`, `sysfile.c`, `pipe.c` | `ofile`, `ftable`, `struct pipe` | `Files`, `ByteStream` |
| memory | `kalloc.c`, `vm.c`, `exec.c`, `syscall.c:16-70` | free list, page tables | `Memory` |
| console | `console.c` | input ring, cursor | `Console`, `LineInput` |
| shell | `sh.c` | processes of a command line | `ShParse`, `Shell` |
| user-level allocator | `umalloc.c` | free list | `Umalloc` |
| algorithms on text | `string.c`, `ulib.c`, `printf.c`, `grep.c`, `wc.c`, `fs.c:584-619` | | `Text` |
| spin locks, interrupts | `spinlock.c`, `proc.c`, `trap.c` | `struct spinlock`, `ncli`, `intena` | `Spinlock` |
| counting, keyboard, boot | `syscall.c`, `kbd.c`, ... | | no, see below |

How the parts interact. Everything that waits does so through `sleep()` and
`wakeup()` of the process table. The log calls them with `log.lock`, `recv()`
with `ptable.lock` itself. The file system stands on the log, the log on the
buffer cache, the cache on the disk driver. `Shell` composes the parser, the file
table, pipes and processes. Between the other parts the interface is the abstract
one: `Log` promises `AtomicDisk` and `BufferCache` promises `BlockStore`, which is
what `Inodes` and `Blocks` assume when they treat what happens under an inode's
lock inside a transaction as one step. Containers keep copies of processes and
otherwise touch no other part.

The hazards of the code, each at its line, are listed in `PROJECT.json`. The
main ones are: the hand-over of `ptable.lock` across `swtch`, wakeups that are
lost between a test and a sleep, kernel stacks freed under a running thread,
zombies without a parent, unlocked accesses in the added code, and crashes
between the disk writes of a commit.

## Modules

**`ProcTable`.** Slots, pids, parents, channels, kernel stacks, and for each
thread the point `ctx` where it is or will resume. Locks are held by CPUs. A
critical section of `ptable.lock` without a switch inside is one step. One that
ends in `sched()` leaves the lock with the CPU, and whoever runs next on that
CPU releases it (`Forkret`, `YieldReturn`, `SleepReturn`, `WaitReturns`,
`SchedRelease`), as in the code. What runs without the lock has steps of its
own: the second half of `allocproc()`, the copying in `fork()` and their failure
paths. The timer strikes wherever interrupts are on, that is, at every point in
`Preemptible`. On the boot CPU the interrupt has two steps, because it takes
`tickslock` and then `ptable.lock`. `sys_sleep()` is modelled step by step as
the user of `sleep()` with a lock of its own. `init.c` forks, waits, and exits
(a panic) if a fork fails. `kalloc()` and `copyuvm()` may fail at any time.
`OtherPoints` lets modules that extend this one add points of their own.

**`Containers`.** No operation takes a lock, so each is split where it reads
shared state that another call may have changed: `create_container()` reads
`c_pointer`, marks the entry, prints, scans for the next free entry and writes
`c_pointer`. `Overlap` says whether calls of different processes overlap.
`leave_container()` is modelled in full, but in this program it always fails:
`join_container()` sets `container_id` in a copy of the process.

**`Messages`.** The rings with their C indices, `send()` with its unlocked test
of the receiver's state, `recv()` with its unlocked test of the size and the
element's address taken before the lock. A lock that a call leaves held stays
with its CPU until that CPU is to switch threads, when `sched()` panics.
**`MsgFifo`** is what the rings promise: a bounded FIFO per receiver.

**`Log`.** In memory: the header `lh`, `outstanding`, `committing`, the sleepers
of `begin_op()`, the contents of the buffer cache with its pinned blocks. On
disk: home blocks, log blocks, header. Each disk write of `commit()` and of the
recovery is one step, and `Crash` may come between any two, and during the
recovery too. **`AtomicDisk`** is what the log promises: what operations wrote
becomes durable in one step, at a moment when no operation is in progress; a
crash returns to the last such step. The refinement mapping takes as durable
disk the home blocks overlaid with the log blocks of a non-empty header, and as
view the cache (during recovery, the durable disk).

**`BufferCache`.** The list of buffers in its order, the sleep lock of each buffer,
the driver's queue, and the controller with its interrupt (the only external part).
A critical section of `bcache.lock`, of a sleep lock or of `idelock` is one step.
`MaxPinned` bounds the buffers the log keeps dirty; in the instance that is checked,
the others suffice for the processes. **`BlockStore`** is the promise:
between `bread()` and `brelse()` a process has a block to itself and sees what was
stored last.

**`Inodes`.** The inodes on disk with the entries of directories, the inode cache
and, for each process, the local variables of its system call. What happens under
an inode's lock is one step, cut where another lock is waited for. `iput()` is two
steps, because it looks at the reference count and drops its reference in two
critical sections. `namex()` advances one path element per step and keeps no lock
in between, as in the code.

**`Blocks`.** A block is an array of words that are data or block numbers, so a
block used again keeps its old words until `balloc()` clears it. `writei()`,
`bmap()` and `itrunc()` carry a record through the transaction, with the set of
blocks they log. `filewrite()` is a sequence of transactions, and other descriptors
write in between. The first disk is the one `mkfs` makes.

**`Files`.** `ofile` of each process, `ftable`, and pipes with their counters (`uint`
that wrap). `fileclose()` copies the entry under the lock and goes on without it.
`piperead()` and `pipewrite()` sleep apart from the test before it, so that `kill()`
can come between. `todo` holds the references a call has still to give back. The field
`left` of a pipe is not in the code: it says that a killed writer left bytes behind and
woke nobody. `FilesNext` lets any process make any of these calls (`SysCall`).
**`ByteStream`** is what a pipe promises; a read of no bytes is not one of its reads,
since what it returns says nothing about the end of the stream. **`ShParse`** is the
recursive-descent parser on tokens, **`Shell`** is `runcmd()` as the system calls it
makes, with programs that read to the end of their input or write. Each of its steps is
a step of `Files` or changes only the program, so what is proved of `FilesSpec` covers it.

**`Memory`.** The free list, page directories, page-table pages and entries with
their user bit. Every call to `kalloc()` may find no page, since `Reserve` takes any
page for other parts of the kernel. `fork`, `exec`, `sbrk` and `wait` are one step
each: an address space is private to its process.

**`Console`.** The ring with its three `uint` indices, the readers asleep on it, and
the cursor. **`LineInput`** is what the ring promises: a line that can be edited and a
queue of finished input that cannot.

**`Signals`.** The table of pairs and `mean_buffer`, neither of which has a lock.
`wakeupcustom()` calls `wakeup1()` without `ptable.lock`, so its test and its write are
two steps, and `store()` is two steps in which an increment can be lost.

**`Spinlock`.** What the other modules take for granted when they make a critical
section one step. Each context (a kernel thread, or the scheduler of a CPU) has a
sequence of instructions left to do: a call puts its instructions in front, an
interrupt its handler, and `swtch` leaves the rest for later, perhaps on another CPU.
So `pushcli()` can be interrupted between reading the flags and its `cli()`, and
`acquire()` and `release()` are as many steps as they have accesses to the lock. The
timer interrupt comes wherever the flag lets it, takes `tickslock` and `ptable.lock`
and yields; `sys_sleep()` gives up one lock for the other. The field `owner` is not in
the code: it names the context that has the lock, which for `ptable.lock` changes in
`sched()` and `scheduler()`.

**`Umalloc`.** The circular list of free blocks with its headers, in a heap that the
program may also extend by itself, which leaves gaps.

**`Text`.** Pure functions with a definition of what they should return, over all
inputs up to a length: copying, path elements, numbers, formats, the regular
expressions of `grep`, lines and words split over reads, the layout of the disk, and
the parser against the way a command is written.

The modules whose names begin with `MC` instantiate these for TLC. `MCParts` runs
`Memory`, `Blocks`, `Console`, `Umalloc`, `Signals`, `Spinlock` and `Text` side by side
without mixing them: they share no state, and `part` says which one moves. The operators
marked "Mutant" are deliberate mistakes; `PROJECT.json` says which definition each
replaces and which property then fails.

## Runs

| run | instance | shows |
|---|---|---|
| `proc_safe` | 2 CPUs, 3 slots, 2 forks, ticks modulo 3 | no process on two CPUs; `sched()`'s lock panics do not fire; no stack in use is freed; no exit, kill or tick is missed by a sleeper; parents stay alive; pids are unique; zombies are only ever reaped |
| `proc_live` | 1 CPU, 3 slots, 2 forks, ticks modulo 2, fair | abandoned zombies are reaped by init, killed processes die wherever the kill strikes, runnable processes run |
| `cont_serial` | 3 containers of 2 entries, 2 processes, calls one at a time | "full" only when full; no container handed out twice; no member overwritten; indices in range |
| `msg_fifo` | 3 senders, 1 receiver that also sends to itself, ring of 3 | the ring refines `MsgFifo`; `recv()` returns the oldest message unless it lies at index 0 |
| `log_atomic` | 2 processes, 3 blocks, `LOGSIZE` = 3 x `MAXOPBLOCKS` = 3, fair | `Log` refines `AtomicDisk`; no operation during a commit; sleepers in `begin_op()` have a waker and are woken; the log fits its area |
| `bcache` | 2 processes, 4 blocks, 3 buffers, fair | `BufferCache` refines `BlockStore`; reference counts are exact; sleepers have somebody to wake them; requests complete |
| `inodes` | 2 processes, 6 inodes, two calls each, sequences of system calls on paths with `.` and `..` | reference counts are exact; the cache agrees with the disk; no inode in use is freed; entries are covered by link counts; no panic; no lock is kept |
| `shell` | pipelines, lists, redirections, background commands, a kill, scarce files, pages and processes, fair | pipes refine `ByteStream`; reference counts; ends of pipes close at the right moment; no lost wakeup; every command line ends and the prompt comes back |
| `parts` | see `Parts.cfg` | the properties of the seven modules `MCParts` runs, on allocation failures, full rings and disks, gaps in the heap, overlapping broadcasts and interrupts at every instruction of the spin locks |
| `msg_lost`, `log_fits`, `inode_deadlock` | | counterexamples, see below |

Why these bounds are enough for the cases of interest. In the process table,
three slots give init, a parent and a child: every combination of who exits
first, slots reused after reaping and after failed forks, and a full table. Two
CPUs race for `ptable.lock` while one of them is inside `sched()`. The ticks wrap
during a sleep. The theorems below cover all sizes. In the container run three
containers make the rotating scan pass over used entries in both directions. A
ring of three wraps and has both ends away from the wrap. The log of three
blocks fills up, makes operations wait for space and commits several operations
at once; contents of two values tell old from new. Three buffers for two processes
leave one that the log can pin. Two processes with a directory, a file in it and
free inodes reach every order of lookup, link, unlink and the last `iput()`. The
programs of `shell` write more than a pipe holds. In `parts`, memory has pages for
one process and a copy of it but not for two copies and an `exec`, page tables of
two entries, and programs whose arguments end in the stack page, in the guard page
and below it; files reach into their indirect block and fill the disk; the ring of
the console has three places and its indices wrap at six; the heap takes four
allocations with a gap; two CPUs and two threads contend for two spin locks, and a
thread comes back from `swtch` on the other CPU, to an `intena` that is not its own.

The view of `Parts.cfg` leaves out which physical page is which: no operation looks
at the number of a page, and the view keeps what the properties do look at, the
number of free pages, the shape of each address space and whether a page is owned
twice or by nobody.

In `log_atomic` the on-disk log has room for `LOGSIZE` blocks behind its header,
which is what `param.h` says of `LOGSIZE`. `mkfs` makes it one block smaller;
`log_fits` is about that. The run `cont_serial` corresponds to a shell that waits
for each command.

Several of the properties are conjunctions of related claims, each defined and
explained on its own just above (`TypeOK`, `RefExact`, `NoPanic` and
`SleepersHaveWakers` make up `BuffersSound`, for instance). `PROJECT.json` gives such a
property a mutant for each claim.

Deadlock is checked in `proc_safe`, `proc_live`, `cont_serial`, `log_atomic` and
`bcache`. `Messages` really gets stuck: a panic, or threads that spin for a lock nobody
will release. In `shell`, `inodes` and `parts` the programs come to their end (or, for
`inode_deadlock`, to the deadlock that `NoLockCycle` describes before it happens).

Fairness. In `proc_live`: the scheduler and the handlers go on (weak fairness);
the periodic timer stays pending until it is let in, so it strikes again and
again (strong fairness of `Tick` and `Yield`); a thread that is interrupted time
and again advances, since the way between two points takes far less than a timer
period (strong fairness per thread); a CPU that spins for `ptable.lock` gets it in
the end; and `init.c` returns to its `wait()` loop. No process has to make any other
system call. In `log_atomic`: disk writes complete (weak), and an operation that
has begun comes to its end (strong, because it may log blocks in between, but
only boundedly many). In `shell`: every process that can take a step takes one, and
init reaps (weak; the scheduler run shows that runnable processes run). In `bcache`:
the controller finishes the command it was given, its interrupt is let in, a process
goes on (weak), and a holder who may store several times gives the buffer back in the
end (strong fairness of `releasesleep`).

## Disagreements between code and comments

Three runs end in a counterexample; `PROJECT.json` quotes the comments.

- `msg_lost`: a message sent between `recv()`'s test and its sleep wakes nobody.
- `log_fits`: `begin_op()` promises `LOGSIZE` blocks, the disk has room for one
  less, and `log_write()` tests the length before it has the lock: two operations
  together overrun the log area.
- `inode_deadlock`: `create()` and `sys_unlink()` let go of a directory with
  `iunlockput()`, whose `iput()` takes the directory's lock a second time, while they
  hold the lock of the file in it. Another process that has locked the directory waits
  for that file.

The models reach more that a reader of the code will want to know. No run states it as
a property, because no comment or test promises the opposite, or because a run above
already shows the same kind of mistake:

- `kill()` matches a pid without looking at the state. Pid 0 is every free slot, and a
  failed `fork()` leaves its pid behind. `allocproc()` does not clear `killed`, so the
  next process in that slot is born killed.
- A container destroyed between `create_container()`'s scan and its write of -1 leaves
  the table "full" with a free entry. `join_container()` looks for the next free entry
  after `c_pointer`, a container number, and so closes a container that has room.
- `front()` reads past the array when the oldest message is at index 0. `send()` to a
  full queue and `recv()` from an empty one return with the queue's lock held.
- `wakeupcustom()` walks the process table without `ptable.lock`: a sister that is
  killed and exits meanwhile is made RUNNABLE after her exit; two `store()` calls at
  once lose a pair.
- Two `iput()` calls of an inode without links can both see the other's reference; the
  inode then stays allocated on the disk.
- A writer killed on a full pipe returns without a wakeup; the reader goes on at the
  next write or close.
- `sbrk(-sz)` fails with the pages gone and `sz` unchanged.
- `grep` drops the rest of a line that a short read cuts when the buffer is full.

## Proofs

TLAPS proves the theorems below for every value of the constants, under the
assumptions named in the modules and the ones given here.

| theorem | module | states |
|---|---|---|
| `Invariance` | `ProcTableProofs` | `Spec => []IInv` |
| `TypeCorrect`, `OneCpu`, `SchedNoPanic`, `StacksSafe` | `ProcTableProofs` | `TypeOK`, `RunsOnOneCpu`, `SchedLocks`, `StackSafe` always hold |
| `ExitNotLost`, `TickNotLost` | `ProcTableProofs` | `NoLostExit`, `NoLostTick` always hold |
| `ParentsAlive`, `PidsUnique` | `ProcTableProofs` | `ParentAlive`, `PidUnique` always hold |
| `ZombiesReaped` | `ProcTableProofs` | the action property `ZombieReaped` |
| `LogInvariance`, `CommitsSafe` | `LogProofs` | with `LogRoom`, `IInv` and `CommitSafe` always hold |
| `LogIsAtomic` | `LogProofs` | with `LogRoom`, `Log` implements `AtomicDisk` |
| `CacheInvariance` | `BufferCacheProofs` | `Spec => []IInv` |
| `BuffersAreSound` | `BufferCacheProofs` | with `Enough`, `BuffersSound` always holds |
| `CacheIsBlockStore` | `BufferCacheProofs` | `BufferCache` implements `BlockStore` |
| `BroadcastsReach` | `UnlockedProofs` | `BroadcastSound` always holds |
| `TablesSound`, `ContainersFresh`, `MembersKept` | `UnlockedProofs` | with `~Overlap`, `TableSound`, `CreatedFresh` and `MemberKept` |
| `RingsTyped` | `UnlockedProofs` | `MsgTypeOK` always holds |
| `RingsAreFifos` | `UnlockedProofs` | `Messages` implements `MsgFifo` |
| `OldestDelivered` | `UnlockedProofs` | the action property `DeliveredInOrder` |
| `FilesAlways` | `FilesProofs` | `FilesSpec => []IInv` |
| `CountsExact`, `PipesLiveLongEnough`, `NoWakeupLost` | `FilesProofs` | `References`, `PipeEnds`, `SleepJustified` always hold |
| `PipesAreStreams` | `FilesProofs` | `Files` implements `ByteStream` |

### The process table

The safety properties of `proc_safe` hold for every set of CPUs, every `NPROC`, tick
width, set of sleep times and bound on pids (the boot CPU is a CPU, sizes are
positive).

The properties are not inductive by themselves. `IInv` in `ProcTable` strengthens
them:

- `CpuInv`: a process on a CPU is on no other; a CPU that is past a state change and
  not yet switched holds `ptable.lock` and not `tickslock`; where a CPU holds
  neither, its thread is at a point that allows it; what an interrupt handler holds.
- `RunInv`, `StackInv`: a RUNNING process is on a CPU; whatever can be switched to has
  a stack.
- `ForkInv`: the child of an unfinished `fork()` is an EMBRYO that no other `fork()`
  has, with its stack and parent as far as the call has come. This is why the
  unlocked steps of `fork()` disturb nobody.
- `TreeInv`: parents are alive, init has none, free slots have none, nobody is their
  own parent.
- `WaitInv`, `TicksInv`: sleepers in `wait()` sleep on themselves with living children;
  the test of `sys_sleep()` stays true while it holds `tickslock`.
- `PidInv`: pids are unique and below `nextpid`.

`ProcTableSteps` proves that the steps of `fork()`, `exit()` and `wait()` preserve
`IInv`, `ProcTableProofs` those of the scheduler, the timer, the returns, `kill()` and
`sys_sleep()`. `ProcTableProofs` then assembles `Init => IInv` and
`IInv /\ [Next]_vars => IInv'`.

### The log

`LogRoom` says that an operation fits in the log and that the disk has room for
`LOGSIZE` blocks behind the header. It is what `begin_op()` relies on; the disk that
`mkfs` makes is one block short of it, and `log_fits` shows what follows. The
processes and blocks are arbitrary sets, and a crash may come between any two disk
writes. `IInv` in `LogProofs` consists of:

- `OpInv`: `outstanding` is the number of operations in progress, a locked buffer
  belongs to one, and there are none during a commit or a recovery.
- `SpaceInv`: the logged blocks that no operation in progress has written, together
  with `MAXOPBLOCKS` for each operation, do not exceed `LOGSIZE`. `begin_op()`
  establishes it for itself, `log_write()` moves a block within a reservation,
  `end_op()` gives the rest back.
- `HeadInv`, `CopyInv`: in each phase, what the header in memory and on disk say and
  how many blocks have been copied to the log or to their homes.
- `CacheInv`: the logged blocks are pinned, and what is neither pinned nor in use is
  the same in the cache and at home. This is why an eviction loses nothing.

For the refinement, the writes of a commit before `write_head()` and after it leave
the durable disk as it is, since the log blocks overlay the home blocks exactly while
the header names them. Writing the header is the step of `AtomicDisk` that makes the
operations durable.

### The buffer cache

`BufferCacheProofs` has the invariant, its preservation by each step, and the theorems.
`IInv` says what each process knows of its buffer at
each point (`ProcInv`, `LockInv`), that the driver's queue holds once each the buffers
whose holders wait (`QueueInv`), that the controller works on the head of the queue
(`ControllerInv`), that a block has one buffer, which agrees with the disk unless it is
dirty (`CacheInv`), that reference counts are exact, and that the buffers dirty for
another reason than a write in progress are at most `MaxPinned` (`PinInv`).

`Enough` says that `MaxPinned` and the number of processes together do not exceed
`NBUF`. Then a process without a buffer leaves at least one that nobody uses and the
log does not pin, so `bget()` cannot panic. The kernel's constants do not guarantee
this: `NBUF` equals `LOGSIZE`, and a log that is almost full leaves fewer buffers than
there may be processes. The other claims, and the refinement of `BlockStore`, do not
need it: a `bget()` that panics changes nothing else. The value of a block in
`BlockStore` is that of its buffer if that is valid, else that on the disk; the proof
shows that no step but a store changes it.

### Containers, broadcasts and messages

This is what `proc.c` does to its tables without their locks. For containers the theorems assume that calls do not
overlap, as in `cont_serial`: `CInv` says where each call stands with what it has
found and not yet written, and that `c_pointer` is at a free container or all are in
use. Broadcasts need no such assumption: `SigInv` says that whoever a broadcast still
owes a wakeup sleeps, and is still to be visited or has just been found asleep.

For messages, `MsgInv` says that `rear` is `size` elements after `front` (modulo
`MSGBUFFSIZE`), and that the index `recv()` computes before it takes the queue's lock is
still that of the oldest message when it uses it: only the receiver moves `front`. The
rings then are FIFOs for any senders, receivers and size, also when a lock stays held or
the kernel panics. `DeliveredInOrder` excludes the message at index 0, which `front()`
misses; that a message can be sent without waking its receiver is `msg_lost`.

### Descriptors, the file table and pipes

The theorems hold for any finite set of processes, any pages, bytes, `NFILE` and
`PIPESIZE`, `NOFILE` at least 3, and a modulus of the counters that is a multiple of
`PIPESIZE` and larger. Any process may make any call at any time, `n` and the bytes
written are arbitrary, and `kill()` may strike anywhere. `IInv` in `FilesTable`
strengthens the properties of the run:

- `LocalInv`: in which steps a process has references to give back (`todo`), a copy of a
  file (`ff`), or no descriptors any more.
- `FileInv`: a free entry of the table is empty, and the first entry of an unfinished
  `pipe()` has one reference and no type.
- `EndInv`: an end of a pipe has at most one file, in the table or on its way out in
  `fileclose()`, and its flag is set while it has one; a page that is not used is clean.
- `IoInv`: who reads or writes a pipe has a descriptor for that end. With `EndInv` this is
  why `pipeclose()` frees nothing that is in use.
- `LockInv`, `SleepInv`: the lock of a pipe is held between a test and the sleep it leads
  to, and what the test found stays true until the wakeup.
- `HeldInv`: a pipe holds at most `PIPESIZE` bytes, whatever the wrapped counters are.
- `RefCounts`, `IrefInv`: the counts are the numbers of references.

`FilesTable` has the steps on descriptors and the table, `FilesPipes` those on pipes.
They take the laws of counting they need as a hypothesis (`Counting`: what writing one
entry, or copying one row, does to the number of references). `FilesProofs` proves the
laws from the theorems on finite sets, and discharges the hypothesis.

For the refinement the ring is a sequence of bytes (`Contents`). Taking `k` bytes out drops
its first `k`, putting bytes in appends them, across the wrap of the indices and of the
counters; this is where `CounterMod % PIPESIZE = 0` is needed. A step then changes one pipe
by a step of `ByteStream`, or none.

### Only model-checked

- The liveness properties (`proc_live`, `log_atomic`, `bcache`, `CommandEnds` of `shell`):
  the prover has no rule for fairness.
- `Memory`, `Blocks`, `Console`, `Umalloc`, `Text`, `ShParse`: these modules have recursive
  operators, and what those compute would need induction over data.
- `Inodes` and `Spinlock`: nothing in them is out of reach. The invariants of `Inodes` relate
  two levels of counts through paths and sequences of locks, and those of `Spinlock` the
  instructions left to each context; no inductive invariant has been worked out for either.

## What is not modelled

- Bytes of files and messages are model values; copying an address space copies which
  pages are mapped and how, not what is in them.
- `ProcTable` leaves memory to `Memory` (a copy succeeds or fails) and open files to
  `Files`; `Inodes` leaves blocks to `Blocks`, buffers to `BufferCache` and atomicity to
  `AtomicDisk`, which `Log` implements. The composition is by these abstract
  specifications, not one state space.
- `..` of a directory that has been removed and `create()` in one, device inodes, and a
  directory whose entries outgrow the disk.
- Pids beyond `NPROC` as indices of `msg_queue`, `send()` to a pid that does not exist,
  and more than `NPROC` pairs in `map`: the code leaves its arrays there.
- `container_malloc()`: it does not match its prototype and has no effect on
  containers. The page and file tables of a container are initialised and never used.
- Only `Spinlock` has the instructions of `acquire()` and `release()`. The other modules
  take what a lock protects as one step, and model as several steps what is not
  protected. `Spinlock` has the timer as its only interrupt: the handlers of disk, keyboard
  and serial port take a lock and wake, as the timer does, and do not yield. Memory is
  sequentially consistent: `__sync_synchronize()` stands where it would not be.
- The system-call counters and their names: increments without any other effect.
- Boot code, interrupt controllers, serial port, key tables, assembly: registers and
  tables of constants. `signal.c` is not part of the build.
- The test programs; of the user programs, the shell, `grep`, `wc` and the library are
  modelled, the others only open, read and print.

## Next

In the order of importance: proofs for `Inodes` and `Spinlock`, whose invariants are
checked by TLC; a composition of `Inodes` with `Log` in which crashes fall between the
writes of one call.
