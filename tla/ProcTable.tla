----------------------------- MODULE ProcTable -----------------------------
(***************************************************************************)
(* The process table of proc.c: creation (allocproc, userinit, fork),      *)
(* termination (exit, wait), sleep and wakeup, kill, and the per-CPU       *)
(* scheduler, with the timer interrupt of trap.c and sys_sleep as the user *)
(* of sleep() with a lock of its own (tickslock).                          *)
(*                                                                         *)
(* A spinlock is held by a CPU.  A critical section without a swtch inside *)
(* is one step; one that ends in sched() leaves ptable.lock with the CPU,  *)
(* and whoever runs next on that CPU releases it.  Code that touches the   *)
(* table without the lock (the failure paths of allocproc and fork) has    *)
(* steps of its own.                                                       *)
(***************************************************************************)
EXTENDS Integers

CONSTANTS CPU,       \* the processors
          BootCpu,   \* cpuid() = 0: the only one that advances ticks
          NoCpu,     \* "nobody holds this lock"
          NPROC,     \* param.h
          TickMod,   \* ticks is an unsigned int: it wraps at TickMod
          SleepTimes,\* arguments of sys_sleep
          OtherPoints,\* lock-free points inside system calls of other modules
          MaxPid     \* bound: nextpid stops here

ASSUME CpuAssumption  == BootCpu \in CPU /\ NoCpu \notin CPU
ASSUME NProcAssumption == NPROC \in Nat \ {0}
ASSUME TickAssumption == TickMod \in Nat \ {0} /\ SleepTimes \subseteq Nat
ASSUME PidAssumption == MaxPid \in Nat \ {0}
ASSUME PointAssumption ==
  OtherPoints \cap {"user", "alloc", "copy", "publish", "reacquire", "forkret",
                    "wait", "check", "sleepcall", "tsleep", "exit"} = {}

VARIABLES state, pid, parent, chan, killed,  \* struct proc
          kstack,     \* has p->kstack been allocated?
          nextpid,
          ctx,        \* where p's kernel thread is, or will resume
          np,         \* fork's local np
          ticks0, tn, \* sys_sleep's locals ticks0 and n
          cproc,      \* struct cpu: the process running on it
          scan,       \* scheduler()'s loop variable p
          irq,        \* progress of a timer interrupt on the boot CPU
          lock,       \* holder of ptable.lock
          tickslock,  \* holder of tickslock
          ticks,
          panicked

procvars == <<state, pid, parent, chan, killed, kstack, nextpid>>
threadvars == <<ctx, np, ticks0, tn>>
cpuvars == <<cproc, scan, irq>>
lockvars == <<lock, tickslock, ticks, panicked>>
vars == <<procvars, threadvars, cpuvars, lockvars>>

Slot == 1..NPROC
Null == 0                \* a null struct proc pointer, or no channel
initproc == 1
TicksChan == -1          \* &ticks as a channel; the others are proc addresses
\* Points of a kernel thread where it holds no lock: interrupts are on there,
\* and a thread resumed at one of them is returning from yield().
Preemptible == {"user", "alloc", "copy", "publish", "reacquire"} \cup OtherPoints
\* Points where it holds one, or waits to be resumed with ptable.lock held.
Locked == {"forkret", "wait", "check", "sleepcall", "tsleep", "exit"}
ProcState == {"UNUSED", "EMBRYO", "SLEEPING", "RUNNABLE", "RUNNING", "ZOMBIE"}

\* The first element, in table order, of a set of slots.
First(p, S) == p \in S /\ \A q \in S : p <= q

\* The thread of p executes on c, outside interrupt handlers.
Runs(c, p) == /\ ~panicked
              /\ cproc[c] = p
              /\ state[p] = "RUNNING"
              /\ irq[c] = "none"

\* p executes on c at point x holding no lock.
At(c, p, x) == Runs(c, p) /\ ctx[p] = x /\ lock # c /\ tickslock # c

-----------------------------------------------------------------------------
\* userinit() has made the first process RUNNABLE; the CPUs enter scheduler().
Init ==
  /\ state = [p \in Slot |-> IF p = initproc THEN "RUNNABLE" ELSE "UNUSED"]
  /\ pid = [p \in Slot |-> IF p = initproc THEN 1 ELSE 0]
  /\ parent = [p \in Slot |-> Null]
  /\ chan = [p \in Slot |-> Null]
  /\ killed = [p \in Slot |-> FALSE]
  /\ kstack = [p \in Slot |-> p = initproc]
  /\ nextpid = 2
  /\ ctx = [p \in Slot |-> "forkret"]
  /\ np = [p \in Slot |-> Null]
  /\ ticks0 = [p \in Slot |-> 0]
  /\ tn = [p \in Slot |-> 0]
  /\ cproc = [c \in CPU |-> Null]
  /\ scan = [c \in CPU |-> 1]
  /\ irq = [c \in CPU |-> "none"]
  /\ lock = NoCpu
  /\ tickslock = NoCpu
  /\ ticks = 0
  /\ panicked = FALSE

-----------------------------------------------------------------------------
(* Scheduler *)

\* sti(); acquire(&ptable.lock); start of the loop over the table.
SchedAcquire(c) ==
  /\ ~panicked /\ cproc[c] = Null /\ irq[c] = "none"
  /\ lock = NoCpu
  /\ lock' = c
  /\ scan' = [scan EXCEPT ![c] = 1]
  /\ UNCHANGED <<procvars, threadvars, cproc, irq, tickslock, ticks, panicked>>

\* The rest of the table that c's scheduler has still to look at.
Ready(c) == {p \in scan[c]..NPROC : state[p] = "RUNNABLE"}

\* Mutant: the scan starts over after every switch.
SchedRunFromStart(c) ==
  /\ ~panicked /\ cproc[c] = Null /\ lock = c
  /\ \E p \in Slot :
       /\ First(p, Ready(c))
       /\ cproc' = [cproc EXCEPT ![c] = p]
       /\ scan' = [scan EXCEPT ![c] = 1]
       /\ state' = [state EXCEPT ![p] = "RUNNING"]
  /\ UNCHANGED <<pid, parent, chan, killed, kstack, nextpid, threadvars, irq,
                 lockvars>>

\* switch to the next RUNNABLE process; it will release ptable.lock.
SchedRun(c) ==
  /\ ~panicked /\ cproc[c] = Null /\ lock = c
  /\ \E p \in Slot :
       /\ First(p, Ready(c))
       /\ cproc' = [cproc EXCEPT ![c] = p]
       /\ scan' = [scan EXCEPT ![c] = p + 1]
       /\ state' = [state EXCEPT ![p] = "RUNNING"]
  /\ UNCHANGED <<pid, parent, chan, killed, kstack, nextpid, threadvars, irq,
                 lockvars>>

SchedRelease(c) ==
  /\ ~panicked /\ cproc[c] = Null /\ lock = c
  /\ Ready(c) = {}
  /\ lock' = NoCpu
  /\ UNCHANGED <<procvars, threadvars, cpuvars, tickslock, ticks, panicked>>

\* sched(): the process has changed its state and swtches to the scheduler,
\* which clears c->proc and keeps ptable.lock.  The guards on the locks are
\* sched's panics; SchedLocks states that they never fire.
Sched(c) ==
  /\ ~panicked /\ cproc[c] # Null
  /\ state[cproc[c]] # "RUNNING"
  /\ lock = c /\ tickslock # c
  /\ cproc' = [cproc EXCEPT ![c] = Null]
  /\ UNCHANGED <<procvars, threadvars, scan, irq, lockvars>>

\* First return of a new process: forkret() releases ptable.lock.
Forkret(c, p) ==
  /\ Runs(c, p) /\ lock = c /\ ctx[p] = "forkret"
  /\ ctx' = [ctx EXCEPT ![p] = "user"]
  /\ lock' = NoCpu
  /\ UNCHANGED <<procvars, np, ticks0, tn, cpuvars, tickslock, ticks, panicked>>

\* yield() after its sched() returned.
YieldReturn(c, p) ==
  /\ Runs(c, p) /\ lock = c /\ ctx[p] \in Preemptible
  /\ lock' = NoCpu
  /\ UNCHANGED <<procvars, threadvars, cpuvars, tickslock, ticks, panicked>>

-----------------------------------------------------------------------------
(* Timer interrupt: trap() with IRQ_TIMER *)

\* Interrupts are on: c holds no spinlock and is not in a handler.
Interruptible(c) == ~panicked /\ irq[c] = "none" /\ lock # c /\ tickslock # c

\* Mutant: ticks does not wrap.
TickNoWrap(c) ==
  /\ c = BootCpu
  /\ Interruptible(c)
  /\ tickslock = NoCpu
  /\ tickslock' = c
  /\ ticks' = ticks + 1
  /\ irq' = [irq EXCEPT ![c] = "tick"]
  /\ UNCHANGED <<procvars, threadvars, cproc, scan, lock, panicked>>

\* CPU 0: acquire(&tickslock); ticks++.
Tick(c) ==
  /\ c = BootCpu
  /\ Interruptible(c)
  /\ tickslock = NoCpu
  /\ tickslock' = c
  /\ ticks' = (ticks + 1) % TickMod
  /\ irq' = [irq EXCEPT ![c] = "tick"]
  /\ UNCHANGED <<procvars, threadvars, cproc, scan, lock, panicked>>

\* wakeup1(ch): st is the table's state, the result its new state.
wakeup1(st, ch) ==
  [p \in Slot |-> IF st[p] = "SLEEPING" /\ chan[p] = ch THEN "RUNNABLE" ELSE st[p]]

\* Mutant: the handler wakes nobody.
TickNoWakeup(c) ==
  /\ ~panicked /\ irq[c] = "tick"
  /\ lock = NoCpu
  /\ tickslock' = NoCpu
  /\ irq' = [irq EXCEPT ![c] = IF cproc[c] = Null THEN "none" ELSE "yield"]
  /\ UNCHANGED <<procvars, threadvars, cproc, scan, lock, ticks, panicked>>

\* wakeup(&ticks); release(&tickslock).
TickWakeup(c) ==
  /\ ~panicked /\ irq[c] = "tick"
  /\ lock = NoCpu
  /\ state' = wakeup1(state, TicksChan)
  /\ tickslock' = NoCpu
  /\ irq' = [irq EXCEPT ![c] = IF cproc[c] = Null THEN "none" ELSE "yield"]
  /\ UNCHANGED <<pid, parent, chan, killed, kstack, nextpid, threadvars, cproc,
                 scan, lock, ticks, panicked>>

\* Mutant: yield() makes the process RUNNABLE before it has ptable.lock.
YieldUnlocked(c, p) ==
  /\ ~panicked /\ cproc[c] = p /\ state[p] = "RUNNING"
  /\ irq[c] = IF c = BootCpu THEN "yield" ELSE "none"
  /\ ctx[p] \in Preemptible /\ tickslock # c
  /\ state' = [state EXCEPT ![p] = "RUNNABLE"]
  /\ irq' = [irq EXCEPT ![c] = "none"]
  /\ UNCHANGED <<pid, parent, chan, killed, kstack, nextpid, threadvars,
                 cproc, scan, lockvars>>

\* The end of trap() on every CPU: a RUNNING process gives up the CPU, unless
\* it was interrupted in user space and has been killed, when it exits.
Yield(c, p) ==
  /\ ~panicked /\ cproc[c] = p /\ state[p] = "RUNNING"
  /\ irq[c] = IF c = BootCpu THEN "yield" ELSE "none"
  /\ ctx[p] \in Preemptible /\ tickslock # c
  /\ ~(ctx[p] = "user" /\ killed[p])
  /\ lock = NoCpu
  /\ lock' = c
  /\ state' = [state EXCEPT ![p] = "RUNNABLE"]
  /\ irq' = [irq EXCEPT ![c] = "none"]
  /\ UNCHANGED <<pid, parent, chan, killed, kstack, nextpid, threadvars,
                 cproc, scan, tickslock, ticks, panicked>>

-----------------------------------------------------------------------------
(* System calls.  A process in user space that was killed makes no more of
   them: trap() turns its next entry or return into exit(). *)

Calls(c, p) == At(c, p, "user") /\ ~killed[p]

\* Calls that init.c does not make: it forks shells and waits.
NotInitCalls(c, p) == Calls(c, p) /\ p # initproc

\* init.c answers a failed fork with exit(), and exit() of initproc panics.
ForkFails(p) ==
  /\ panicked' = (p = initproc)
  /\ ctx' = [ctx EXCEPT ![p] = "user"]
  /\ np' = [np EXCEPT ![p] = Null]

\* Mutant: nextpid is not advanced.
ForkAllocSamePid(c, p, q) ==
  /\ Calls(c, p)
  /\ lock = NoCpu
  /\ First(q, {r \in Slot : state[r] = "UNUSED"})
  /\ state' = [state EXCEPT ![q] = "EMBRYO"]
  /\ pid' = [pid EXCEPT ![q] = nextpid]
  /\ ctx' = [ctx EXCEPT ![p] = "alloc"]
  /\ np' = [np EXCEPT ![p] = q]
  /\ UNCHANGED <<parent, chan, killed, kstack, nextpid, ticks0, tn, cpuvars,
                 lockvars>>

\* fork -> allocproc, first half: take the first UNUSED slot q.
ForkAlloc(c, p, q) ==
  /\ Calls(c, p)
  /\ lock = NoCpu
  /\ nextpid <= MaxPid
  /\ First(q, {r \in Slot : state[r] = "UNUSED"})
  /\ state' = [state EXCEPT ![q] = "EMBRYO"]
  /\ pid' = [pid EXCEPT ![q] = nextpid]
  /\ nextpid' = nextpid + 1
  /\ ctx' = [ctx EXCEPT ![p] = "alloc"]
  /\ np' = [np EXCEPT ![p] = q]
  /\ UNCHANGED <<parent, chan, killed, kstack, ticks0, tn, cpuvars, lockvars>>

\* No slot is UNUSED.
ForkNoSlot(c, p) ==
  /\ Calls(c, p)
  /\ lock = NoCpu
  /\ \A r \in Slot : state[r] # "UNUSED"
  /\ ForkFails(p)
  /\ UNCHANGED <<procvars, ticks0, tn, cpuvars, lock, tickslock, ticks>>

\* allocproc, second half, without the lock: the kernel stack, and a context
\* that starts at forkret ...
ForkKstack(c, p) ==
  /\ At(c, p, "alloc")
  /\ kstack' = [kstack EXCEPT ![np[p]] = TRUE]
  /\ ctx' = [ctx EXCEPT ![p] = "copy", ![np[p]] = "forkret"]
  /\ UNCHANGED <<state, pid, parent, chan, killed, nextpid, np, ticks0, tn,
                 cpuvars, lockvars>>

\* ... unless kalloc() fails.
ForkNoKstack(c, p) ==
  /\ At(c, p, "alloc")
  /\ state' = [state EXCEPT ![np[p]] = "UNUSED"]
  /\ ForkFails(p)
  /\ UNCHANGED <<pid, parent, chan, killed, kstack, nextpid, ticks0, tn, cpuvars,
                 lock, tickslock, ticks>>

\* copyuvm(), and the fields of the child ...
ForkCopy(c, p) ==
  /\ At(c, p, "copy")
  /\ parent' = [parent EXCEPT ![np[p]] = p]
  /\ ctx' = [ctx EXCEPT ![p] = "publish"]
  /\ UNCHANGED <<state, pid, chan, killed, kstack, nextpid, np, ticks0, tn,
                 cpuvars, lockvars>>

\* ... unless copyuvm() fails.
ForkNoCopy(c, p) ==
  /\ At(c, p, "copy")
  /\ kstack' = [kstack EXCEPT ![np[p]] = FALSE]
  /\ state' = [state EXCEPT ![np[p]] = "UNUSED"]
  /\ ForkFails(p)
  /\ UNCHANGED <<pid, parent, chan, killed, nextpid, ticks0, tn, cpuvars, lock,
                 tickslock, ticks>>

\* np->state = RUNNABLE under ptable.lock.
ForkPublish(c, p) ==
  /\ At(c, p, "publish")
  /\ lock = NoCpu
  /\ state' = [state EXCEPT ![np[p]] = "RUNNABLE"]
  /\ ctx' = [ctx EXCEPT ![p] = "user"]
  /\ np' = [np EXCEPT ![p] = Null]
  /\ UNCHANGED <<pid, parent, chan, killed, kstack, nextpid, ticks0, tn,
                 cpuvars, lockvars>>

\* In user space, at a system call or, if killed, at the end of any trap.
LeavesUser(c, p) ==
  /\ ~panicked /\ cproc[c] = p /\ state[p] = "RUNNING" /\ ctx[p] = "user"
  /\ lock # c /\ tickslock # c
  /\ irq[c] = "none" \/ (irq[c] = "yield" /\ killed[p])

\* Mutants: children are not handed over; nobody is woken.
AbandonNone(p) == parent
ExitWakeupsNone(p) == state

\* The table after p has woken its parent and handed its children to init.
Abandon(p) == [q \in Slot |-> IF parent[q] = p THEN initproc ELSE parent[q]]
ExitWakeups(p) ==
  LET st == wakeup1(state, parent[p])
  IN  IF \E q \in Slot : parent[q] = p /\ state[q] = "ZOMBIE"
      THEN wakeup1(st, initproc) ELSE st

\* Mutant: exit() gives up ptable.lock before it is off its kernel stack.
ExitUnlocked(c, p) ==
  /\ LeavesUser(c, p) /\ p # initproc
  /\ lock = NoCpu
  /\ state' = [ExitWakeups(p) EXCEPT ![p] = "ZOMBIE"]
  /\ parent' = Abandon(p)
  /\ ctx' = [ctx EXCEPT ![p] = "exit"]
  /\ irq' = [irq EXCEPT ![c] = "none"]
  /\ UNCHANGED <<pid, chan, killed, kstack, nextpid, np, ticks0, tn, cproc,
                 scan, lockvars>>

\* exit(), up to its call of sched().
Exit(c, p) ==
  /\ LeavesUser(c, p) /\ p # initproc
  /\ lock = NoCpu
  /\ lock' = c
  /\ state' = [ExitWakeups(p) EXCEPT ![p] = "ZOMBIE"]
  /\ parent' = Abandon(p)
  /\ ctx' = [ctx EXCEPT ![p] = "exit"]
  /\ irq' = [irq EXCEPT ![c] = "none"]
  /\ UNCHANGED <<pid, chan, killed, kstack, nextpid, np, ticks0, tn, cproc,
                 scan, tickslock, ticks, panicked>>

\* exit() of initproc, which only a kill can bring about.
InitExit(c) ==
  /\ LeavesUser(c, initproc) /\ killed[initproc]
  /\ panicked' = TRUE
  /\ UNCHANGED <<procvars, threadvars, cpuvars, lock, tickslock, ticks>>

Kids(p) == {q \in Slot : parent[q] = p}
Zombies(p) == {q \in Kids(p) : state[q] = "ZOMBIE"}

\* wait() is called, or its sleep() returns: c has ptable.lock and scans.
Waits(c, p) ==
  \/ Calls(c, p) /\ lock = NoCpu
  \/ Runs(c, p) /\ lock = c /\ ctx[p] = "wait"

WaitReturns(p) ==
  /\ ctx' = [ctx EXCEPT ![p] = "user"]
  /\ chan' = [chan EXCEPT ![p] = Null]
  /\ lock' = NoCpu

\* wait() reaps its first zombie child.
WaitReap(c, p, q) ==
  /\ Waits(c, p)
  /\ First(q, Zombies(p))
  /\ kstack' = [kstack EXCEPT ![q] = FALSE]
  /\ pid' = [pid EXCEPT ![q] = 0]
  /\ parent' = [parent EXCEPT ![q] = Null]
  /\ killed' = [killed EXCEPT ![q] = FALSE]
  /\ state' = [state EXCEPT ![q] = "UNUSED"]
  /\ WaitReturns(p)
  /\ UNCHANGED <<nextpid, np, ticks0, tn, cpuvars, tickslock, ticks, panicked>>

\* wait() returns -1.
WaitFail(c, p) ==
  /\ Waits(c, p)
  /\ Zombies(p) = {}
  /\ Kids(p) = {} \/ killed[p]
  /\ WaitReturns(p)
  /\ UNCHANGED <<state, pid, parent, killed, kstack, nextpid, np, ticks0, tn,
                 cpuvars, tickslock, ticks, panicked>>

\* sleep(curproc, &ptable.lock) up to sched().
WaitSleep(c, p) ==
  /\ Waits(c, p)
  /\ Zombies(p) = {}
  /\ Kids(p) # {} /\ ~killed[p]
  /\ chan' = [chan EXCEPT ![p] = p]
  /\ state' = [state EXCEPT ![p] = "SLEEPING"]
  /\ ctx' = [ctx EXCEPT ![p] = "wait"]
  /\ lock' = c
  /\ UNCHANGED <<pid, parent, killed, kstack, nextpid, np, ticks0, tn, cpuvars,
                 tickslock, ticks, panicked>>

\* Mutants: kill() makes every victim RUNNABLE; kill() wakes nobody.
KillAnyState(c, p, q) ==
  /\ NotInitCalls(c, p)
  /\ lock = NoCpu
  /\ First(q, {r \in Slot : pid[r] = pid[q]})
  /\ killed' = [killed EXCEPT ![q] = TRUE]
  /\ state' = [state EXCEPT ![q] = IF @ = "RUNNING" THEN @ ELSE "RUNNABLE"]
  /\ UNCHANGED <<pid, parent, chan, kstack, nextpid, threadvars, cpuvars, lockvars>>
KillNoWakeup(c, p, q) ==
  /\ NotInitCalls(c, p)
  /\ lock = NoCpu
  /\ First(q, {r \in Slot : pid[r] = pid[q]})
  /\ killed' = [killed EXCEPT ![q] = TRUE]
  /\ UNCHANGED <<state, pid, parent, chan, kstack, nextpid, threadvars, cpuvars,
                 lockvars>>

\* kill() of any number: q is the first slot with that pid, whatever its state.
Kill(c, p, q) ==
  /\ NotInitCalls(c, p)
  /\ lock = NoCpu
  /\ First(q, {r \in Slot : pid[r] = pid[q]})
  /\ killed' = [killed EXCEPT ![q] = TRUE]
  /\ state' = [state EXCEPT ![q] = IF @ = "SLEEPING" THEN "RUNNABLE" ELSE @]
  /\ UNCHANGED <<pid, parent, chan, kstack, nextpid, threadvars, cpuvars, lockvars>>

-----------------------------------------------------------------------------
(* sys_sleep and the general form of sleep(chan, lk) *)

\* acquire(&tickslock); ticks0 = ticks.
SysSleep(c, p, n) ==
  /\ NotInitCalls(c, p)
  /\ tickslock = NoCpu
  /\ tickslock' = c
  /\ ticks0' = [ticks0 EXCEPT ![p] = ticks]
  /\ tn' = [tn EXCEPT ![p] = n]
  /\ ctx' = [ctx EXCEPT ![p] = "check"]
  /\ UNCHANGED <<procvars, np, cpuvars, lock, ticks, panicked>>

\* ticks - ticks0 < n, in unsigned arithmetic.
StillAsleep(p) == (ticks - ticks0[p]) % TickMod < tn[p]

\* The loop's two tests, under tickslock: sleep, or return.
SleepMore(c, p) ==
  /\ Runs(c, p) /\ tickslock = c /\ ctx[p] = "check"
  /\ StillAsleep(p) /\ ~killed[p]
  /\ ctx' = [ctx EXCEPT ![p] = "sleepcall"]
  /\ UNCHANGED <<procvars, np, ticks0, tn, cpuvars, lockvars>>

SleepDone(c, p) ==
  /\ Runs(c, p) /\ tickslock = c /\ ctx[p] = "check"
  /\ ~StillAsleep(p) \/ killed[p]
  /\ ctx' = [ctx EXCEPT ![p] = "user"]
  /\ tickslock' = NoCpu
  /\ ticks0' = [ticks0 EXCEPT ![p] = 0]
  /\ tn' = [tn EXCEPT ![p] = 0]
  /\ UNCHANGED <<procvars, np, cpuvars, lock, ticks, panicked>>

\* sleep(&ticks, &tickslock) up to sched().
SleepCall(c, p) ==
  /\ Runs(c, p) /\ tickslock = c /\ ctx[p] = "sleepcall"
  /\ lock = NoCpu
  /\ lock' = c
  /\ tickslock' = NoCpu
  /\ chan' = [chan EXCEPT ![p] = TicksChan]
  /\ state' = [state EXCEPT ![p] = "SLEEPING"]
  /\ ctx' = [ctx EXCEPT ![p] = "tsleep"]
  /\ UNCHANGED <<pid, parent, killed, kstack, nextpid, np, ticks0, tn, cpuvars,
                 ticks, panicked>>

\* sleep() after sched(): tidy up and release ptable.lock ...
SleepReturn(c, p) ==
  /\ Runs(c, p) /\ lock = c /\ ctx[p] = "tsleep"
  /\ chan' = [chan EXCEPT ![p] = Null]
  /\ lock' = NoCpu
  /\ ctx' = [ctx EXCEPT ![p] = "reacquire"]
  /\ UNCHANGED <<state, pid, parent, killed, kstack, nextpid, np, ticks0, tn,
                 cpuvars, tickslock, ticks, panicked>>

\* ... and reacquire the caller's lock.
SleepReacquire(c, p) ==
  /\ At(c, p, "reacquire")
  /\ tickslock = NoCpu
  /\ tickslock' = c
  /\ ctx' = [ctx EXCEPT ![p] = "check"]
  /\ UNCHANGED <<procvars, np, ticks0, tn, cpuvars, lock, ticks, panicked>>

\* panic() loops for ever.
Frozen == panicked /\ UNCHANGED vars

CpuStep(c) ==
  \/ SchedAcquire(c) \/ SchedRun(c) \/ SchedRelease(c) \/ Sched(c)
  \/ Tick(c) \/ TickWakeup(c) \/ InitExit(c)

Fork(c, p) ==
  \/ \E q \in Slot : ForkAlloc(c, p, q)
  \/ ForkNoSlot(c, p) \/ ForkKstack(c, p) \/ ForkNoKstack(c, p)
  \/ ForkCopy(c, p) \/ ForkNoCopy(c, p) \/ ForkPublish(c, p)

Wait(c, p) ==
  \/ \E q \in Slot : WaitReap(c, p, q)
  \/ WaitFail(c, p) \/ WaitSleep(c, p)

Sleep(c, p) ==
  \/ \E n \in SleepTimes : SysSleep(c, p, n)
  \/ SleepMore(c, p) \/ SleepDone(c, p)
  \/ SleepCall(c, p) \/ SleepReturn(c, p) \/ SleepReacquire(c, p)

ProcStep(c, p) ==
  \/ Forkret(c, p) \/ YieldReturn(c, p) \/ Yield(c, p)
  \/ Fork(c, p) \/ Exit(c, p) \/ Wait(c, p) \/ Sleep(c, p)
  \/ \E q \in Slot : Kill(c, p, q)

Next ==
  \/ \E c \in CPU : CpuStep(c)
  \/ \E c \in CPU, p \in Slot : ProcStep(c, p)
  \/ Frozen

Spec == Init /\ [][Next]_vars

\* Code of the kernel that the thread of p is in the middle of, and exit() of a
\* killed process, which the next trap brings about.
ThreadStep(p) ==
  \E c \in CPU :
    \/ ctx[p] # "user" /\ (Fork(c, p) \/ Wait(c, p) \/ Sleep(c, p))
    \/ killed[p] /\ Exit(c, p)
    \/ p = initproc /\ InitExit(c)

\* The scheduler and the interrupt handler go on; the periodic timer stays
\* pending until it is let in, so it strikes again and again; code that is
\* interrupted time and again advances, because the way between two points
\* takes far less than a timer period; and init.c always comes back to its
\* wait() loop.  No process has to make any other system call.
Fairness ==
  /\ \A c \in CPU :
       /\ WF_vars(\/ SchedRun(c) \/ SchedRelease(c) \/ Sched(c) \/ TickWakeup(c)
                  \/ \E p \in Slot : Forkret(c, p) \/ YieldReturn(c, p))
       /\ SF_vars(SchedAcquire(c))
       /\ SF_vars(Tick(c))
       /\ SF_vars(\E p \in Slot : Yield(c, p))
       /\ SF_vars(Wait(c, initproc))
  /\ \A p \in Slot : SF_vars(ThreadStep(p))

FairSpec == Spec /\ Fairness

-----------------------------------------------------------------------------
(* Properties *)

ProcType ==
  /\ state \in [Slot -> ProcState]
  /\ pid \in [Slot -> Nat]
  /\ parent \in [Slot -> Slot \cup {Null}]
  /\ chan \in [Slot -> Slot \cup {Null, TicksChan}]
  /\ killed \in [Slot -> BOOLEAN]
  /\ kstack \in [Slot -> BOOLEAN]
  /\ nextpid \in Nat
ThreadType ==
  /\ ctx \in [Slot -> Preemptible \cup Locked]
  /\ np \in [Slot -> Slot \cup {Null}]
  /\ ticks0 \in [Slot -> 0..(TickMod - 1)]
  /\ tn \in [Slot -> Nat]
CpuType ==
  /\ cproc \in [CPU -> Slot \cup {Null}]
  /\ scan \in [CPU -> 1..(NPROC + 1)]
  /\ irq \in [CPU -> {"none", "tick", "yield"}]
LockType ==
  /\ lock \in CPU \cup {NoCpu}
  /\ tickslock \in CPU \cup {NoCpu}
  /\ ticks \in 0..(TickMod - 1)
  /\ panicked \in BOOLEAN

\* Every variable has the type the C declarations and the NULL conventions
\* give it.
TypeOK ==
  /\ ProcType /\ ThreadType /\ CpuType /\ LockType

\* A RUNNING process is on a CPU and no process is on two: scheduler() never
\* starts a process whose kernel stack another CPU is still using.
RunsOnOneCpu ==
  \A p \in Slot :
    /\ state[p] = "RUNNING" => \E c \in CPU : cproc[c] = p
    /\ \A c, d \in CPU : cproc[c] = p /\ cproc[d] = p => c = d

\* A process that has left RUNNING and not yet swtched away holds ptable.lock
\* and no other lock: the panics of sched() never fire.
SchedLocks ==
  \A c \in CPU :
    cproc[c] # Null /\ state[cproc[c]] # "RUNNING" => lock = c /\ tickslock # c

\* The kernel stack a CPU executes on, or that scheduler() may switch to, is
\* allocated: wait() frees a zombie's stack only after its last swtch.
StackSafe ==
  /\ \A c \in CPU : cproc[c] # Null => kstack[cproc[c]]
  /\ \A p \in Slot : state[p] \in {"SLEEPING", "RUNNABLE", "RUNNING"} => kstack[p]

\* No wakeup is lost between exit() and wait(): a process asleep in wait() has
\* a child, none of its children is a zombie, and it has not been killed.
NoLostExit ==
  \A p \in Slot :
    state[p] = "SLEEPING" /\ ctx[p] = "wait" =>
      /\ ~killed[p]
      /\ \E q \in Slot : parent[q] = p
      /\ \A q \in Slot : parent[q] = p => state[q] # "ZOMBIE"

\* No wakeup is lost between the timer and sys_sleep(): once the interrupt
\* handler is done, nobody is still asleep whose time is over.
NoLostTick ==
  \A p \in Slot :
    state[p] = "SLEEPING" /\ chan[p] = TicksChan /\ irq[BootCpu] # "tick" =>
      StillAsleep(p)

\* Every process but init has a parent that can still call wait(): exit()
\* leaves no child behind, zombie or not.
ParentAlive ==
  \A p \in Slot \ {initproc} :
    state[p] \notin {"UNUSED", "EMBRYO"} =>
      /\ parent[p] \in Slot
      /\ state[parent[p]] \in {"SLEEPING", "RUNNABLE", "RUNNING"}

\* Two slots never carry the same pid, even a slot that a failed fork() left
\* UNUSED with its pid: kill() cannot hit a namesake.
PidUnique ==
  \A p, q \in Slot : pid[p] = pid[q] /\ pid[p] # 0 => p = q

\* A zombie stays one until wait() of its parent, running on a CPU, frees the
\* slot: neither wakeup, kill nor the scheduler brings it back.
ZombieReaped ==
  [][\A p \in Slot :
       state[p] = "ZOMBIE" /\ state'[p] # "ZOMBIE" =>
         state'[p] = "UNUSED" /\ \E c \in CPU : cproc[c] = parent[p]]_vars

-----------------------------------------------------------------------------
(* The inductive invariant behind the safety properties *)

OnCpu == {"RUNNING", "RUNNABLE", "SLEEPING", "ZOMBIE"}
Alive == {"RUNNING", "RUNNABLE", "SLEEPING"}
Forking == {"alloc", "copy", "publish"}
HoldsTicks == {"check", "sleepcall"}

\* CPUs: exclusive use of a process, the locks around sched(), the handler.
CpuInv ==
  \A c \in CPU :
    /\ cproc[c] # Null =>
         /\ state[cproc[c]] \in OnCpu
         /\ lock # c => ctx[cproc[c]] \in Preemptible \cup HoldsTicks
         /\ state[cproc[c]] # "RUNNING" => lock = c /\ tickslock # c
         /\ \A d \in CPU : cproc[d] = cproc[c] => d = c
    /\ irq[c] # "none" =>
         /\ c = BootCpu /\ lock # c
         /\ cproc[c] # Null => ctx[cproc[c]] \in Preemptible
    /\ irq[c] = "tick" => tickslock = c
    /\ irq[c] = "yield" => cproc[c] # Null
    /\ tickslock = c =>
         \/ irq[c] = "tick"
         \/ cproc[c] # Null /\ ctx[cproc[c]] \in HoldsTicks

RunInv == \A p \in Slot : state[p] = "RUNNING" => \E c \in CPU : cproc[c] = p

\* fork() in progress: the child is an EMBRYO that nobody else knows of.
ForkInv ==
  \A p \in Slot :
    /\ ctx[p] \in Forking =>
         /\ state[p] \in {"RUNNING", "RUNNABLE"}
         /\ np[p] \in Slot /\ state[np[p]] = "EMBRYO"
         /\ \A q \in Slot : ctx[q] \in Forking /\ np[q] = np[p] => q = p
    /\ ctx[p] \in {"copy", "publish"} => kstack[np[p]]
    /\ ctx[p] = "publish" => parent[np[p]] = p

StackInv == \A p \in Slot : state[p] \in OnCpu => kstack[p]

\* The tree of parents.
TreeInv ==
  /\ state[initproc] \in Alive /\ parent[initproc] = Null
  /\ \A p \in Slot :
       /\ state[p] = "UNUSED" => parent[p] = Null
       /\ state[p] = "EMBRYO" /\ parent[p] # Null =>
            ctx[parent[p]] = "publish" /\ np[parent[p]] = p
       /\ parent[p] # Null => parent[p] # p /\ state[parent[p]] \in Alive
       /\ p # initproc /\ state[p] \in OnCpu => parent[p] # Null

WaitInv ==
  \A p \in Slot :
    state[p] = "SLEEPING" /\ ctx[p] = "wait" =>
      /\ chan[p] = p /\ ~killed[p]
      /\ \E q \in Slot : parent[q] = p
      /\ \A q \in Slot : parent[q] = p => state[q] # "ZOMBIE"

\* Under tickslock the tests of sys_sleep stay valid until it sleeps.
TicksInv ==
  /\ \A p \in Slot :
       /\ ctx[p] \in HoldsTicks =>
            state[p] = "RUNNING" /\ \E c \in CPU : cproc[c] = p /\ tickslock = c
       /\ ctx[p] = "sleepcall" => StillAsleep(p)
  /\ NoLostTick

PidInv == PidUnique /\ \A p \in Slot : pid[p] < nextpid

\* The invariant that the steps of the process table preserve.
IInv ==
  /\ TypeOK /\ CpuInv /\ RunInv /\ ForkInv /\ StackInv
  /\ TreeInv /\ WaitInv /\ TicksInv /\ PidInv

-----------------------------------------------------------------------------
(* Liveness *)

\* An abandoned zombie is reaped by init (or the kernel has panicked).
OrphanReaped ==
  \A p \in Slot \ {initproc} :
    (state[p] = "ZOMBIE" /\ parent[p] = initproc) ~> (state[p] = "UNUSED" \/ panicked)

\* kill() works in the end, wherever it strikes: between sys_sleep's test of
\* killed and its sleep() as well as during fork() or wait().
KilledDies ==
  \A p \in Slot \ {initproc} :
    (killed[p] /\ state[p] \in {"SLEEPING", "RUNNABLE", "RUNNING"})
      ~> (state[p] = "ZOMBIE" \/ panicked)

\* The scan of scheduler() starves no process on a uniprocessor.
RunnableRuns ==
  \A p \in Slot : state[p] = "RUNNABLE" ~> (state[p] = "RUNNING" \/ panicked)

=============================================================================
