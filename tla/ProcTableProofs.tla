-------------------------- MODULE ProcTableProofs --------------------------
(***************************************************************************)
(* The scheduler, the timer interrupt, kill(), sys_sleep() and the returns *)
(* from sched() preserve the invariant of the process table too, and only  *)
(* wait() takes a zombie out of it.  With the lemmas of ProcTableSteps,    *)
(* every step preserves the invariant, and the safety properties of        *)
(* ProcTable follow.                                                       *)
(***************************************************************************)
EXTENDS ProcTableSteps

\* The scheduler takes ptable.lock: no process is on this CPU yet.
LEMMA SchedAcquireStep ==
  ASSUME IInv, NEW c \in CPU, SchedAcquire(c)
  PROVE  IInv'
  <1>a. /\ cproc[c] = Null /\ lock = NoCpu /\ irq[c] = "none"
    BY Zenon DEF SchedAcquire, procvars, threadvars, cpuvars, lockvars
  <1>b. /\ lock' = c
        /\ UNCHANGED <<state, pid, parent, chan, killed, kstack, nextpid,
           ctx, np, ticks0, tn, cproc, irq, tickslock, ticks, panicked>>
    BY Zenon DEF SchedAcquire, procvars, threadvars, cpuvars, lockvars
  <1>s. scan' \in [CPU -> 1..(NPROC + 1)]
    BY Types, NProcAssumption DEF CpuType, SchedAcquire, Slot
  <1>1. TypeOK'
    BY Types, <1>s, Zenon DEF TypeOK, ProcType, ThreadType, CpuType, LockType,
       SchedAcquire, procvars, threadvars, cpuvars, lockvars
  <1>2. RunInv' /\ ForkInv' /\ StackInv' /\ TreeInv' /\ WaitInv' /\ TicksInv' /\ PidInv'
    BY <1>b DEF IInv, RunInv, ForkInv, StackInv, TreeInv, WaitInv, TicksInv,
       NoLostTick, StillAsleep, PidInv, PidUnique
  <1>3. CpuInv'
    BY <1>a, <1>b, CpuAssumption, Points, Pointers, SMTT(30) DEF IInv, CpuInv,
       OnCpu, HoldsTicks
  <1> QED
    BY <1>1, <1>2, <1>3, Zenon DEF IInv

\* The scheduler switches to a RUNNABLE process: no other CPU still runs on it,
\* because a CPU on a process that is not RUNNING has ptable.lock.
LEMMA SchedRunStep ==
  ASSUME IInv, NEW c \in CPU, SchedRun(c)
  PROVE  IInv'
  <1>p. PICK p \in Slot :
          /\ First(p, Ready(c))
          /\ cproc' = [cproc EXCEPT ![c] = p]
          /\ scan' = [scan EXCEPT ![c] = p + 1]
          /\ state' = [state EXCEPT ![p] = "RUNNING"]
    BY Zenon DEF SchedRun
  <1>a. /\ cproc[c] = Null /\ lock = c /\ state[p] = "RUNNABLE"
    BY <1>p, Types, NProcAssumption, Zenon DEF SchedRun, procvars, threadvars,
       cpuvars, lockvars, First, Ready, CpuType
  <1>b. /\ \A x \in CPU : cproc'[x] = IF x = c THEN p ELSE cproc[x]
        /\ \A x \in Slot : state'[x] = IF x = p THEN "RUNNING" ELSE state[x]
        /\ UNCHANGED <<pid, parent, chan, killed, kstack, nextpid, ctx, np,
           ticks0, tn, irq, lock, tickslock, ticks, panicked>>
    BY <1>p, Types, Zenon DEF SchedRun, procvars, threadvars, cpuvars, lockvars,
       ProcType, CpuType
  <1>s. scan' \in [CPU -> 1..(NPROC + 1)]
    BY <1>p, Types, NProcAssumption DEF CpuType, SchedRun, Slot
  <1>1. TypeOK'
    BY <1>p, Types, <1>s, Zenon DEF TypeOK, ProcType, ThreadType, CpuType, LockType,
       SchedRun, procvars, threadvars, cpuvars, lockvars, ProcState
  <1>2. PidInv'
    BY <1>b, Zenon DEF IInv, PidInv, PidUnique
  <1>3. CpuInv'
    BY <1>a, <1>b, CpuAssumption, Points, Pointers, SMTT(30) DEF IInv, CpuInv,
       OnCpu, HoldsTicks
  <1>4. RunInv'
    BY <1>a, <1>b, Pointers, ZenonT(30) DEF IInv, RunInv
  <1>5. ForkInv'
    BY <1>a, <1>b, ZenonT(30) DEF IInv, ForkInv, Forking
  <1>6. StackInv'
    BY <1>a, <1>b, ZenonT(30) DEF IInv, StackInv, OnCpu
  <1>7. TreeInv'
    BY <1>a, <1>b, Pointers, InitSlot, ZenonT(30) DEF IInv, TreeInv, OnCpu, Alive
  <1>8. WaitInv'
    BY <1>a, <1>b, Pointers DEF IInv, WaitInv
  <1>9. TicksInv'
    BY <1>a, <1>b, CpuAssumption, Pointers, SMTT(30) DEF IInv, TicksInv,
       NoLostTick, HoldsTicks, StillAsleep
  <1> QED
    BY <1>1, <1>2, <1>3, <1>4, <1>5, <1>6, <1>7, <1>8, <1>9, Zenon DEF IInv

\* The scheduler releases ptable.lock at the end of its scan.
LEMMA SchedReleaseStep ==
  ASSUME IInv, NEW c \in CPU, SchedRelease(c)
  PROVE  IInv'
  <1>a. /\ cproc[c] = Null /\ lock = c
    BY Zenon DEF SchedRelease, procvars, threadvars, cpuvars, lockvars
  <1>b. /\ lock' = NoCpu
        /\ UNCHANGED <<state, pid, parent, chan, killed, kstack, nextpid,
           ctx, np, ticks0, tn, cproc, scan, irq, tickslock, ticks,
           panicked>>
    BY Zenon DEF SchedRelease, procvars, threadvars, cpuvars, lockvars
  <1>1. TypeOK'
    BY Types, Zenon DEF TypeOK, ProcType, ThreadType, CpuType, LockType,
       SchedRelease, procvars, threadvars, cpuvars, lockvars
  <1>2. RunInv' /\ ForkInv' /\ StackInv' /\ TreeInv' /\ WaitInv' /\ TicksInv' /\ PidInv'
    BY <1>b DEF IInv, RunInv, ForkInv, StackInv, TreeInv, WaitInv, TicksInv,
       NoLostTick, StillAsleep, PidInv, PidUnique
  <1>3. CpuInv'
    BY <1>a, <1>b, CpuAssumption, Points, Pointers, SMTT(30) DEF IInv, CpuInv,
       OnCpu, HoldsTicks
  <1> QED
    BY <1>1, <1>2, <1>3, Zenon DEF IInv

\* sched() leaves the process, which has another state than RUNNING by now.
LEMMA SchedStep ==
  ASSUME IInv, NEW c \in CPU, Sched(c)
  PROVE  IInv'
  <1>a. /\ cproc[c] # Null /\ cproc[c] \in Slot
        /\ state[cproc[c]] # "RUNNING" /\ lock = c /\ tickslock # c
    BY Pointers, Zenon DEF Sched, procvars, threadvars, cpuvars, lockvars
  <1>b. /\ \A x \in CPU : cproc'[x] = IF x = c THEN Null ELSE cproc[x]
        /\ UNCHANGED <<state, pid, parent, chan, killed, kstack, nextpid,
           ctx, np, ticks0, tn, scan, irq, lock, tickslock, ticks,
           panicked>>
    BY Types, Zenon DEF Sched, procvars, threadvars, cpuvars, lockvars, CpuType
  <1>1. TypeOK'
    BY Types, Zenon DEF TypeOK, ProcType, ThreadType, CpuType, LockType, Sched,
       procvars, threadvars, cpuvars, lockvars
  <1>2. ForkInv' /\ StackInv' /\ TreeInv' /\ WaitInv' /\ PidInv'
    BY <1>b DEF IInv, ForkInv, StackInv, TreeInv, WaitInv, PidInv, PidUnique
  <1>3. CpuInv'
    BY <1>a, <1>b, CpuAssumption, Points, Pointers, SMTT(30) DEF IInv, CpuInv,
       OnCpu, HoldsTicks
  <1>4. RunInv'
    BY <1>a, <1>b, ZenonT(30) DEF IInv, RunInv
  <1>5. TicksInv'
    BY <1>a, <1>b, CpuAssumption, Pointers, SMTT(30) DEF IInv, TicksInv,
       NoLostTick, HoldsTicks, StillAsleep
  <1> QED
    BY <1>1, <1>2, <1>3, <1>4, <1>5, Zenon DEF IInv

\* The timer interrupt advances ticks under tickslock: nobody is between the
\* tests of sys_sleep and its sleep.
LEMMA TickStep ==
  ASSUME IInv, NEW c \in CPU, Tick(c)
  PROVE  IInv'
  <1>a. /\ c = BootCpu /\ irq[c] = "none" /\ lock # c
        /\ tickslock = NoCpu
    BY Zenon DEF Tick, procvars, threadvars, cpuvars, lockvars, Interruptible
  <1>b. /\ tickslock' = c
        /\ \A x \in CPU : irq'[x] = IF x = c THEN "tick" ELSE irq[x]
        /\ UNCHANGED <<state, pid, parent, chan, killed, kstack, nextpid,
           ctx, np, ticks0, tn, cproc, scan, lock, panicked>>
    BY Types, Zenon DEF Tick, procvars, threadvars, cpuvars, lockvars, CpuType
  <1>1. TypeOK'
    BY Types, TickAssumption DEF TypeOK, ProcType, ThreadType, CpuType,
       LockType, Tick, procvars, threadvars, cpuvars, lockvars
  <1>2. RunInv' /\ ForkInv' /\ StackInv' /\ TreeInv' /\ WaitInv' /\ PidInv'
    BY <1>b DEF IInv, RunInv, ForkInv, StackInv, TreeInv, WaitInv, PidInv,
       PidUnique
  <1>3. CpuInv'
    BY <1>a, <1>b, CpuAssumption, Points, Pointers, SMTT(30) DEF IInv, CpuInv,
       OnCpu, HoldsTicks, TicksInv
  <1>4. TicksInv'
    BY <1>a, <1>b, CpuAssumption, Pointers, Zenon DEF IInv, TicksInv,
       NoLostTick, HoldsTicks, StillAsleep
  <1> QED
    BY <1>1, <1>2, <1>3, <1>4, Zenon DEF IInv

\* The timer interrupt wakes all that sleep on ticks.
LEMMA TickWakeupStep ==
  ASSUME IInv, NEW c \in CPU, TickWakeup(c)
  PROVE  IInv'
  <1>a. /\ irq[c] = "tick" /\ lock = NoCpu /\ c = BootCpu
        /\ tickslock = c
    BY Zenon DEF TickWakeup, procvars, threadvars, cpuvars, lockvars, IInv, CpuInv
  <1>b. /\ \A x \in Slot : state'[x] = IF state[x] = "SLEEPING" /\ chan[x] = TicksChan THEN "RUNNABLE" ELSE state[x]
        /\ tickslock' = NoCpu
        /\ \A x \in CPU : irq'[x] = IF x = c THEN (IF cproc[c] = Null THEN "none" ELSE "yield") ELSE irq[x]
        /\ UNCHANGED <<pid, parent, chan, killed, kstack, nextpid, ctx, np,
           ticks0, tn, cproc, scan, lock, ticks, panicked>>
    BY Types, Zenon DEF TickWakeup, procvars, threadvars, cpuvars, lockvars,
       ProcType, CpuType, wakeup1
  <1>1. TypeOK'
    BY Types, Zenon DEF TypeOK, ProcType, ThreadType, CpuType, LockType, TickWakeup,
       procvars, threadvars, cpuvars, lockvars, ProcState, wakeup1
  <1>2. PidInv'
    BY <1>b, Zenon DEF IInv, PidInv, PidUnique
  <1>3. CpuInv'
    BY <1>a, <1>b, CpuAssumption, Points, Pointers, SMTT(30) DEF IInv, CpuInv,
       OnCpu, HoldsTicks
  <1>4. RunInv' /\ StackInv'
    BY <1>a, <1>b, Zenon DEF IInv, RunInv, StackInv, OnCpu
  <1>5. ForkInv'
    BY <1>a, <1>b, ZenonT(30) DEF IInv, ForkInv, Forking
  <1>6. TreeInv'
    BY <1>a, <1>b, Pointers, InitSlot, ZenonT(30) DEF IInv, TreeInv, OnCpu, Alive
  <1>7. WaitInv'
    BY <1>a, <1>b, Pointers, ZenonT(30) DEF IInv, WaitInv
  <1>8. TicksInv'
    BY <1>a, <1>b, CpuAssumption, Pointers, Points, SMTT(30) DEF IInv,
       TicksInv, NoLostTick, HoldsTicks, StillAsleep, CpuInv
  <1> QED
    BY <1>1, <1>2, <1>3, <1>4, <1>5, <1>6, <1>7, <1>8, Zenon DEF IInv

\* The panic of exit() in initproc changes nothing in the table.
LEMMA InitExitStep ==
  ASSUME IInv, NEW c \in CPU, InitExit(c)
  PROVE  IInv'
  <1>b. /\ UNCHANGED <<state, pid, parent, chan, killed, kstack, nextpid,
           ctx, np, ticks0, tn, cproc, scan, irq, lock, tickslock,
           ticks>>
    BY Zenon DEF InitExit, procvars, threadvars, cpuvars, lockvars
  <1>1. TypeOK'
    BY Types, Zenon DEF TypeOK, ProcType, ThreadType, CpuType, LockType, InitExit,
       procvars, threadvars, cpuvars, lockvars
  <1>2. CpuInv' /\ RunInv' /\ ForkInv' /\ StackInv' /\ TreeInv' /\ WaitInv' /\ TicksInv' /\ PidInv'
    BY <1>b DEF IInv, CpuInv, RunInv, ForkInv, StackInv, TreeInv, WaitInv,
       TicksInv, NoLostTick, StillAsleep, PidInv, PidUnique
  <1> QED
    BY <1>1, <1>2, Zenon DEF IInv

\* kill() marks a slot and makes a SLEEPING process RUNNABLE.
LEMMA KillStep ==
  ASSUME IInv, NEW c \in CPU, NEW p \in Slot, NEW q \in Slot, Kill(c, p, q)
  PROVE  IInv'
  <1>a. /\ cproc[c] = p /\ state[p] = "RUNNING" /\ irq[c] = "none"
        /\ lock # c /\ tickslock # c /\ lock = NoCpu
    BY Zenon DEF Kill, procvars, threadvars, cpuvars, lockvars, NotInitCalls, Calls,
       At, Runs
  <1>b. /\ \A x \in Slot \ {q} : ~killed[x] => ~killed'[x]
        /\ \A x \in Slot : state'[x] = IF x = q THEN (IF state[q] = "SLEEPING" THEN "RUNNABLE" ELSE state[q]) ELSE state[x]
        /\ UNCHANGED <<pid, parent, chan, kstack, nextpid, ctx, np, ticks0,
           tn, cproc, scan, irq, lock, tickslock, ticks, panicked>>
    BY Types, Zenon DEF Kill, procvars, threadvars, cpuvars, lockvars, ProcType
  <1>1. TypeOK'
    BY Types, Zenon DEF TypeOK, ProcType, ThreadType, CpuType, LockType, Kill,
       procvars, threadvars, cpuvars, lockvars, ProcState
  <1>2. PidInv'
    BY <1>b, Zenon DEF IInv, PidInv, PidUnique
  <1>3. CpuInv'
    BY <1>a, <1>b, CpuAssumption, Points, Pointers, SMTT(30) DEF IInv, CpuInv,
       OnCpu, HoldsTicks
  <1>4. RunInv' /\ StackInv'
    BY <1>a, <1>b, Zenon DEF IInv, RunInv, StackInv, OnCpu
  <1>5. ForkInv'
    BY <1>a, <1>b, SMTT(30) DEF IInv, ForkInv, Forking
  <1>6. TreeInv'
    BY <1>a, <1>b, Pointers, InitSlot DEF IInv, TreeInv, OnCpu, Alive
  <1>7. WaitInv'
    BY <1>a, <1>b, Pointers, ZenonT(30) DEF IInv, WaitInv
  <1>8. TicksInv'
    BY <1>a, <1>b, CpuAssumption, Pointers, Zenon DEF IInv, TicksInv,
       NoLostTick, HoldsTicks, StillAsleep
  <1> QED
    BY <1>1, <1>2, <1>3, <1>4, <1>5, <1>6, <1>7, <1>8, Zenon DEF IInv

\* forkret() of a new process releases ptable.lock.
LEMMA ForkretStep ==
  ASSUME IInv, NEW c \in CPU, NEW p \in Slot, Forkret(c, p)
  PROVE  IInv'
  <1>a. /\ cproc[c] = p /\ state[p] = "RUNNING" /\ irq[c] = "none"
        /\ lock = c /\ ctx[p] = "forkret"
    BY Zenon DEF Forkret, procvars, threadvars, cpuvars, lockvars, Runs
  <1>b. /\ \A x \in Slot : ctx'[x] = IF x = p THEN "user" ELSE ctx[x]
        /\ lock' = NoCpu
        /\ UNCHANGED <<state, pid, parent, chan, killed, kstack, nextpid,
           np, ticks0, tn, cproc, scan, irq, tickslock, ticks,
           panicked>>
    BY Types, Zenon DEF Forkret, procvars, threadvars, cpuvars, lockvars, ThreadType
  <1>1. TypeOK'
    BY Types, Points, Zenon DEF TypeOK, ProcType, ThreadType, CpuType, LockType,
       Forkret, procvars, threadvars, cpuvars, lockvars, Locked
  <1>2. RunInv' /\ StackInv' /\ PidInv'
    BY <1>b, Zenon DEF IInv, RunInv, StackInv, PidInv, PidUnique
  <1>3. CpuInv'
    BY <1>a, <1>b, CpuAssumption, Points, Pointers, SMTT(30) DEF IInv, CpuInv,
       OnCpu, HoldsTicks
  <1>4. ForkInv'
    BY <1>a, <1>b, ZenonT(30) DEF IInv, ForkInv, Forking
  <1>5. TreeInv'
    BY <1>a, <1>b, Pointers, InitSlot DEF IInv, TreeInv, OnCpu, Alive
  <1>6. WaitInv'
    BY <1>a, <1>b, Pointers, ZenonT(30) DEF IInv, WaitInv
  <1>7. TicksInv'
    BY <1>a, <1>b, CpuAssumption, Pointers, Zenon DEF IInv, TicksInv,
       NoLostTick, HoldsTicks, StillAsleep
  <1> QED
    BY <1>1, <1>2, <1>3, <1>4, <1>5, <1>6, <1>7, Zenon DEF IInv

\* yield() releases ptable.lock when the process runs again.
LEMMA YieldReturnStep ==
  ASSUME IInv, NEW c \in CPU, NEW p \in Slot, YieldReturn(c, p)
  PROVE  IInv'
  <1>a. /\ cproc[c] = p /\ state[p] = "RUNNING" /\ irq[c] = "none"
        /\ lock = c /\ ctx[p] \in Preemptible
    BY Zenon DEF YieldReturn, procvars, threadvars, cpuvars, lockvars, Runs
  <1>b. /\ lock' = NoCpu
        /\ UNCHANGED <<state, pid, parent, chan, killed, kstack, nextpid,
           ctx, np, ticks0, tn, cproc, scan, irq, tickslock, ticks,
           panicked>>
    BY Zenon DEF YieldReturn, procvars, threadvars, cpuvars, lockvars
  <1>1. TypeOK'
    BY Types, Zenon DEF TypeOK, ProcType, ThreadType, CpuType, LockType, YieldReturn,
       procvars, threadvars, cpuvars, lockvars
  <1>2. RunInv' /\ ForkInv' /\ StackInv' /\ TreeInv' /\ WaitInv' /\ TicksInv' /\ PidInv'
    BY <1>b DEF IInv, RunInv, ForkInv, StackInv, TreeInv, WaitInv, TicksInv,
       NoLostTick, StillAsleep, PidInv, PidUnique
  <1>3. CpuInv'
    BY <1>a, <1>b, CpuAssumption, Points, Pointers, SMTT(30) DEF IInv, CpuInv,
       OnCpu, HoldsTicks
  <1> QED
    BY <1>1, <1>2, <1>3, Zenon DEF IInv

\* yield() makes the running process RUNNABLE under ptable.lock.
LEMMA YieldStep ==
  ASSUME IInv, NEW c \in CPU, NEW p \in Slot, Yield(c, p)
  PROVE  IInv'
  <1>a. /\ cproc[c] = p /\ state[p] = "RUNNING" /\ lock = NoCpu
        /\ tickslock # c /\ irq[c] # "tick" /\ ctx[p] \in Preemptible
    BY Zenon DEF Yield, procvars, threadvars, cpuvars, lockvars
  <1>b. /\ lock' = c
        /\ \A x \in Slot : state'[x] = IF x = p THEN "RUNNABLE" ELSE state[x]
        /\ \A x \in CPU : irq'[x] = IF x = c THEN "none" ELSE irq[x]
        /\ UNCHANGED <<pid, parent, chan, killed, kstack, nextpid, ctx, np,
           ticks0, tn, cproc, scan, tickslock, ticks, panicked>>
    BY Types, Zenon DEF Yield, procvars, threadvars, cpuvars, lockvars, ProcType,
       CpuType
  <1>1. TypeOK'
    BY Types, Zenon DEF TypeOK, ProcType, ThreadType, CpuType, LockType, Yield,
       procvars, threadvars, cpuvars, lockvars, ProcState
  <1>2. PidInv'
    BY <1>b, Zenon DEF IInv, PidInv, PidUnique
  <1>3. CpuInv'
    BY <1>a, <1>b, CpuAssumption, Points, Pointers, SMTT(30) DEF IInv, CpuInv,
       OnCpu, HoldsTicks
  <1>4. RunInv' /\ StackInv'
    BY <1>a, <1>b, Zenon DEF IInv, RunInv, StackInv, OnCpu
  <1>5. ForkInv'
    BY <1>a, <1>b, ZenonT(30) DEF IInv, ForkInv, Forking
  <1>6. TreeInv'
    BY <1>a, <1>b, Pointers, InitSlot, ZenonT(30) DEF IInv, TreeInv, OnCpu, Alive
  <1>7. WaitInv'
    BY <1>a, <1>b, Pointers DEF IInv, WaitInv
  <1>8. TicksInv'
    BY <1>a, <1>b, CpuAssumption, Pointers, Points, SMTT(30) DEF IInv,
       TicksInv, NoLostTick, HoldsTicks, StillAsleep
  <1> QED
    BY <1>1, <1>2, <1>3, <1>4, <1>5, <1>6, <1>7, <1>8, Zenon DEF IInv

\* sleep() returns: the process releases ptable.lock.
LEMMA SleepReturnStep ==
  ASSUME IInv, NEW c \in CPU, NEW p \in Slot, SleepReturn(c, p)
  PROVE  IInv'
  <1>a. /\ cproc[c] = p /\ state[p] = "RUNNING" /\ irq[c] = "none"
        /\ lock = c /\ ctx[p] = "tsleep"
    BY Zenon DEF SleepReturn, procvars, threadvars, cpuvars, lockvars, Runs
  <1>b. /\ \A x \in Slot : chan'[x] = IF x = p THEN Null ELSE chan[x]
        /\ lock' = NoCpu
        /\ \A x \in Slot : ctx'[x] = IF x = p THEN "reacquire" ELSE ctx[x]
        /\ UNCHANGED <<state, pid, parent, killed, kstack, nextpid, np,
           ticks0, tn, cproc, scan, irq, tickslock, ticks, panicked>>
    BY Types, Zenon DEF SleepReturn, procvars, threadvars, cpuvars, lockvars,
       ProcType, ThreadType
  <1>1. TypeOK'
    BY Types, Points, Zenon DEF TypeOK, ProcType, ThreadType, CpuType, LockType,
       SleepReturn, procvars, threadvars, cpuvars, lockvars, Locked
  <1>2. RunInv' /\ StackInv' /\ PidInv'
    BY <1>b, Zenon DEF IInv, RunInv, StackInv, PidInv, PidUnique
  <1>3. CpuInv'
    BY <1>a, <1>b, CpuAssumption, Points, Pointers, SMTT(30) DEF IInv, CpuInv,
       OnCpu, HoldsTicks
  <1>4. ForkInv'
    BY <1>a, <1>b, ZenonT(30) DEF IInv, ForkInv, Forking
  <1>5. TreeInv'
    BY <1>a, <1>b, Pointers, InitSlot DEF IInv, TreeInv, OnCpu, Alive
  <1>6. WaitInv'
    BY <1>a, <1>b, Pointers, ZenonT(30) DEF IInv, WaitInv
  <1>7. TicksInv'
    BY <1>a, <1>b, CpuAssumption, Pointers, SMTT(30) DEF IInv, TicksInv,
       NoLostTick, HoldsTicks, StillAsleep
  <1> QED
    BY <1>1, <1>2, <1>3, <1>4, <1>5, <1>6, <1>7, Zenon DEF IInv

\* sleep() takes the lock of its caller again.
LEMMA SleepReacquireStep ==
  ASSUME IInv, NEW c \in CPU, NEW p \in Slot, SleepReacquire(c, p)
  PROVE  IInv'
  <1>a. /\ cproc[c] = p /\ state[p] = "RUNNING" /\ irq[c] = "none"
        /\ lock # c /\ tickslock # c /\ ctx[p] = "reacquire"
        /\ tickslock = NoCpu
    BY Zenon DEF SleepReacquire, procvars, threadvars, cpuvars, lockvars, At, Runs
  <1>b. /\ tickslock' = c
        /\ \A x \in Slot : ctx'[x] = IF x = p THEN "check" ELSE ctx[x]
        /\ UNCHANGED <<state, pid, parent, chan, killed, kstack, nextpid,
           np, ticks0, tn, cproc, scan, irq, lock, ticks, panicked>>
    BY Types, Zenon DEF SleepReacquire, procvars, threadvars, cpuvars, lockvars,
       ThreadType
  <1>1. TypeOK'
    BY Types, Points, Zenon DEF TypeOK, ProcType, ThreadType, CpuType, LockType,
       SleepReacquire, procvars, threadvars, cpuvars, lockvars, Locked
  <1>2. RunInv' /\ StackInv' /\ PidInv'
    BY <1>b, Zenon DEF IInv, RunInv, StackInv, PidInv, PidUnique
  <1>3. CpuInv'
    BY <1>a, <1>b, CpuAssumption, Points, Pointers, SMTT(30) DEF IInv, CpuInv,
       OnCpu, HoldsTicks
  <1>4. ForkInv'
    BY <1>a, <1>b, ZenonT(30) DEF IInv, ForkInv, Forking
  <1>5. TreeInv'
    BY <1>a, <1>b, Pointers, InitSlot DEF IInv, TreeInv, OnCpu, Alive
  <1>6. WaitInv'
    BY <1>a, <1>b, Pointers, ZenonT(30) DEF IInv, WaitInv
  <1>7. TicksInv'
    BY <1>a, <1>b, CpuAssumption, Pointers, Zenon DEF IInv, TicksInv,
       NoLostTick, HoldsTicks, StillAsleep
  <1> QED
    BY <1>1, <1>2, <1>3, <1>4, <1>5, <1>6, <1>7, Zenon DEF IInv

\* sys_sleep() takes tickslock and reads ticks.
LEMMA SysSleepStep ==
  ASSUME IInv, NEW c \in CPU, NEW p \in Slot, NEW n \in SleepTimes, SysSleep(c, p, n)
  PROVE  IInv'
  <1>a. /\ cproc[c] = p /\ state[p] = "RUNNING" /\ irq[c] = "none"
        /\ lock # c /\ tickslock # c /\ ctx[p] = "user"
        /\ tickslock = NoCpu
    BY Zenon DEF SysSleep, procvars, threadvars, cpuvars, lockvars, NotInitCalls,
       Calls, At, Runs
  <1>b. /\ tickslock' = c
        /\ \A x \in Slot : ticks0'[x] = IF x = p THEN ticks ELSE ticks0[x]
        /\ \A x \in Slot : tn'[x] = IF x = p THEN n ELSE tn[x]
        /\ \A x \in Slot : ctx'[x] = IF x = p THEN "check" ELSE ctx[x]
        /\ UNCHANGED <<state, pid, parent, chan, killed, kstack, nextpid,
           np, cproc, scan, irq, lock, ticks, panicked>>
    BY Types, Zenon DEF SysSleep, procvars, threadvars, cpuvars, lockvars, ThreadType
  <1>1. TypeOK'
    BY Types, Points, TickAssumption, Zenon DEF TypeOK, ProcType, ThreadType,
       CpuType, LockType, SysSleep, procvars, threadvars, cpuvars, lockvars,
       Locked
  <1>2. RunInv' /\ StackInv' /\ PidInv'
    BY <1>b, Zenon DEF IInv, RunInv, StackInv, PidInv, PidUnique
  <1>3. CpuInv'
    BY <1>a, <1>b, CpuAssumption, Points, Pointers, SMTT(30) DEF IInv, CpuInv,
       OnCpu, HoldsTicks
  <1>4. ForkInv'
    BY <1>a, <1>b, ZenonT(30) DEF IInv, ForkInv, Forking
  <1>5. TreeInv'
    BY <1>a, <1>b, Pointers, InitSlot DEF IInv, TreeInv, OnCpu, Alive
  <1>6. WaitInv'
    BY <1>a, <1>b, Pointers, ZenonT(30) DEF IInv, WaitInv
  <1>7. TicksInv'
    BY <1>a, <1>b, CpuAssumption, Pointers, SMTT(30) DEF IInv, TicksInv,
       NoLostTick, HoldsTicks, StillAsleep
  <1> QED
    BY <1>1, <1>2, <1>3, <1>4, <1>5, <1>6, <1>7, Zenon DEF IInv

\* sys_sleep() decides to sleep on.
LEMMA SleepMoreStep ==
  ASSUME IInv, NEW c \in CPU, NEW p \in Slot, SleepMore(c, p)
  PROVE  IInv'
  <1>a. /\ cproc[c] = p /\ state[p] = "RUNNING" /\ irq[c] = "none"
        /\ tickslock = c /\ ctx[p] = "check"
    BY Zenon DEF SleepMore, procvars, threadvars, cpuvars, lockvars, Runs
  <1>b. /\ \A x \in Slot : ctx'[x] = IF x = p THEN "sleepcall" ELSE ctx[x]
        /\ UNCHANGED <<state, pid, parent, chan, killed, kstack, nextpid,
           np, ticks0, tn, cproc, scan, irq, lock, tickslock, ticks,
           panicked>>
    BY Types, Zenon DEF SleepMore, procvars, threadvars, cpuvars, lockvars,
       ThreadType
  <1>1. TypeOK'
    BY Types, Points, Zenon DEF TypeOK, ProcType, ThreadType, CpuType, LockType,
       SleepMore, procvars, threadvars, cpuvars, lockvars, Locked
  <1>2. RunInv' /\ StackInv' /\ PidInv'
    BY <1>b, Zenon DEF IInv, RunInv, StackInv, PidInv, PidUnique
  <1>3. CpuInv'
    BY <1>a, <1>b, CpuAssumption, Points, Pointers, SMTT(30) DEF IInv, CpuInv,
       OnCpu, HoldsTicks
  <1>4. ForkInv'
    BY <1>a, <1>b, ZenonT(30) DEF IInv, ForkInv, Forking
  <1>5. TreeInv'
    BY <1>a, <1>b, Pointers, InitSlot DEF IInv, TreeInv, OnCpu, Alive
  <1>6. WaitInv'
    BY <1>a, <1>b, Pointers, ZenonT(30) DEF IInv, WaitInv
  <1>7. TicksInv'
    BY <1>a, <1>b, CpuAssumption, Pointers, SMTT(30) DEF IInv, TicksInv,
       NoLostTick, HoldsTicks, StillAsleep, SleepMore
  <1> QED
    BY <1>1, <1>2, <1>3, <1>4, <1>5, <1>6, <1>7, Zenon DEF IInv

\* sys_sleep() returns and releases tickslock.
LEMMA SleepDoneStep ==
  ASSUME IInv, NEW c \in CPU, NEW p \in Slot, SleepDone(c, p)
  PROVE  IInv'
  <1>a. /\ cproc[c] = p /\ state[p] = "RUNNING" /\ irq[c] = "none"
        /\ tickslock = c /\ ctx[p] = "check"
    BY Zenon DEF SleepDone, procvars, threadvars, cpuvars, lockvars, Runs
  <1>b. /\ \A x \in Slot : ctx'[x] = IF x = p THEN "user" ELSE ctx[x]
        /\ tickslock' = NoCpu
        /\ \A x \in Slot : ticks0'[x] = IF x = p THEN 0 ELSE ticks0[x]
        /\ \A x \in Slot : tn'[x] = IF x = p THEN 0 ELSE tn[x]
        /\ UNCHANGED <<state, pid, parent, chan, killed, kstack, nextpid,
           np, cproc, scan, irq, lock, ticks, panicked>>
    BY Types, Zenon DEF SleepDone, procvars, threadvars, cpuvars, lockvars,
       ThreadType
  <1>1. TypeOK'
    BY Types, Points, TickAssumption DEF TypeOK, ProcType, ThreadType,
       CpuType, LockType, SleepDone, procvars, threadvars, cpuvars, lockvars,
       Locked
  <1>2. RunInv' /\ StackInv' /\ PidInv'
    BY <1>b, Zenon DEF IInv, RunInv, StackInv, PidInv, PidUnique
  <1>3. CpuInv'
    BY <1>a, <1>b, CpuAssumption, Points, Pointers, SMTT(30) DEF IInv, CpuInv,
       OnCpu, HoldsTicks
  <1>4. ForkInv'
    BY <1>a, <1>b, ZenonT(30) DEF IInv, ForkInv, Forking
  <1>5. TreeInv'
    BY <1>a, <1>b, Pointers, InitSlot DEF IInv, TreeInv, OnCpu, Alive
  <1>6. WaitInv'
    BY <1>a, <1>b, Pointers, ZenonT(30) DEF IInv, WaitInv
  <1>7. TicksInv'
    BY <1>a, <1>b, CpuAssumption, Pointers, SMTT(30) DEF IInv, TicksInv,
       NoLostTick, HoldsTicks, StillAsleep
  <1> QED
    BY <1>1, <1>2, <1>3, <1>4, <1>5, <1>6, <1>7, Zenon DEF IInv

\* sleep(&ticks, &tickslock) takes ptable.lock before it releases tickslock.
LEMMA SleepCallStep ==
  ASSUME IInv, NEW c \in CPU, NEW p \in Slot, SleepCall(c, p)
  PROVE  IInv'
  <1>a. /\ cproc[c] = p /\ state[p] = "RUNNING" /\ irq[c] = "none"
        /\ tickslock = c /\ ctx[p] = "sleepcall" /\ lock = NoCpu
    BY Zenon DEF SleepCall, procvars, threadvars, cpuvars, lockvars, Runs
  <1>b. /\ lock' = c
        /\ tickslock' = NoCpu
        /\ \A x \in Slot : chan'[x] = IF x = p THEN TicksChan ELSE chan[x]
        /\ \A x \in Slot : state'[x] = IF x = p THEN "SLEEPING" ELSE state[x]
        /\ \A x \in Slot : ctx'[x] = IF x = p THEN "tsleep" ELSE ctx[x]
        /\ UNCHANGED <<pid, parent, killed, kstack, nextpid, np, ticks0,
           tn, cproc, scan, irq, ticks, panicked>>
    BY Types, Zenon DEF SleepCall, procvars, threadvars, cpuvars, lockvars, ProcType,
       ThreadType
  <1>1. TypeOK'
    BY Types, Points, Zenon DEF TypeOK, ProcType, ThreadType, CpuType, LockType,
       SleepCall, procvars, threadvars, cpuvars, lockvars, ProcState, Locked
  <1>2. PidInv'
    BY <1>b, Zenon DEF IInv, PidInv, PidUnique
  <1>3. CpuInv'
    BY <1>a, <1>b, CpuAssumption, Points, Pointers, SMTT(30) DEF IInv, CpuInv,
       OnCpu, HoldsTicks
  <1>4. RunInv' /\ StackInv'
    BY <1>a, <1>b DEF IInv, RunInv, StackInv, OnCpu
  <1>5. ForkInv'
    BY <1>a, <1>b, ZenonT(30) DEF IInv, ForkInv, Forking
  <1>6. TreeInv'
    BY <1>a, <1>b, Pointers, InitSlot DEF IInv, TreeInv, OnCpu, Alive
  <1>7. WaitInv'
    BY <1>a, <1>b, Pointers, ZenonT(30) DEF IInv, WaitInv
  <1>8. TicksInv'
    BY <1>a, <1>b, CpuAssumption, Pointers, SMTT(30) DEF IInv, TicksInv,
       NoLostTick, HoldsTicks, StillAsleep
  <1> QED
    BY <1>1, <1>2, <1>3, <1>4, <1>5, <1>6, <1>7, <1>8, Zenon DEF IInv

\* The step by which a zombie leaves the table is wait() of its parent.
LEMMA ZombieStep ==
  ASSUME IInv, [Next]_vars, NEW z \in Slot, state[z] = "ZOMBIE",
         state'[z] # "ZOMBIE"
  PROVE  state'[z] = "UNUSED" /\ \E c \in CPU : cproc[c] = parent[z]
  <1> DEFINE Reaped == state'[z] = "UNUSED" /\ \E c \in CPU : cproc[c] = parent[z]
  <1>1. ASSUME NEW c \in CPU, CpuStep(c) PROVE FALSE
    <2>1. CASE SchedRun(c)
      BY <2>1, Types, Zenon DEF SchedRun, First, Ready, ProcType
    <2>2. CASE TickWakeup(c)
      BY <2>2, Zenon DEF TickWakeup, wakeup1
    <2> QED
      BY <1>1, <2>1, <2>2, Zenon DEF CpuStep, SchedAcquire, SchedRelease, Sched, Tick,
         InitExit, procvars
  <1>2. ASSUME NEW c \in CPU, NEW p \in Slot, Fork(c, p) PROVE FALSE
    <2>1. CASE \E q \in Slot : ForkAlloc(c, p, q)
      BY <2>1, Types, Zenon DEF ForkAlloc, First, ProcType
    <2>2. CASE ForkNoKstack(c, p) \/ ForkNoCopy(c, p) \/ ForkPublish(c, p)
      BY <2>2, Types, Zenon DEF ForkNoKstack, ForkNoCopy, ForkPublish, At, IInv,
         ForkInv, Forking, ProcType
    <2> QED
      BY <1>2, <2>1, <2>2, Zenon DEF Fork, ForkNoSlot, ForkKstack, ForkCopy, procvars
  <1>3. ASSUME NEW c \in CPU, NEW p \in Slot, Wait(c, p) PROVE Reaped
    <2>1. CASE \E q \in Slot : WaitReap(c, p, q)
      <3>1. PICK q \in Slot : WaitReap(c, p, q)
        BY <2>1, Zenon
      <3>2. cproc[c] = p /\ parent[q] = p
        BY <3>1, WaitsAt, Zenon DEF WaitReap, First, Zombies, Kids
      <3>3. z = q /\ state'[q] = "UNUSED"
        BY <3>1, Types, Zenon DEF WaitReap, ProcType
      <3> QED
        BY <3>2, <3>3, Zenon
    <2>2. CASE WaitSleep(c, p)
      BY <2>2, WaitsAt, Types DEF WaitSleep, ProcType
    <2> QED
      BY <1>3, <2>1, <2>2, Zenon DEF Wait, WaitFail
  <1>4. ASSUME NEW c \in CPU, NEW p \in Slot, Sleep(c, p) PROVE FALSE
    <2>1. CASE SleepCall(c, p)
      BY <2>1, Types, Zenon DEF SleepCall, Runs, ProcType
    <2> QED
      BY <1>4, <2>1, Zenon DEF Sleep, SysSleep, SleepMore, SleepDone, SleepReturn,
         SleepReacquire, procvars
  <1>5. ASSUME NEW c \in CPU, NEW p \in Slot, ProcStep(c, p) PROVE Reaped
    <2>1. CASE Yield(c, p)
      BY <2>1, Types, Zenon DEF Yield, ProcType
    <2>2. CASE Exit(c, p)
      BY <2>2, Types, Zenon DEF Exit, ExitWakeups, wakeup1, ProcType
    <2>3. CASE \E q \in Slot : Kill(c, p, q)
      BY <2>3, Types, Zenon DEF Kill, ProcType
    <2> QED
      BY <1>2, <1>3, <1>4, <1>5, <2>1, <2>2, <2>3, Zenon DEF ProcStep, Forkret,
         YieldReturn, procvars
  <1> QED
    BY <1>1, <1>5, Zenon DEF Next, Frozen, vars, procvars

\* The state that userinit() leaves satisfies the invariant.
LEMMA InitIInv == Init => IInv
  <1> SUFFICES ASSUME Init PROVE IInv
    BY Zenon
  <1>1. TypeOK
    <2>1. kstack \in [Slot -> BOOLEAN]
      BY Zenon DEF Init
    <2>2. ProcType
      BY <2>1, Zenon DEF Init, ProcType, ProcState
    <2>3. 1 \in 1..(NPROC + 1) /\ 0 \in 0..(TickMod - 1)
      BY NProcAssumption, TickAssumption
    <2>4. ThreadType /\ LockType
      BY <2>3, Zenon DEF Init, ThreadType, LockType, Locked
    <2>5. CpuType
      BY <2>3, Zenon DEF Init, CpuType
    <2> QED
      BY <2>2, <2>4, <2>5, Zenon DEF TypeOK
  <1>2. CpuInv /\ RunInv /\ StackInv
    BY CpuAssumption, Zenon DEF Init, CpuInv, RunInv, StackInv, OnCpu
  <1>3. ForkInv /\ WaitInv
    BY Zenon DEF Init, ForkInv, Forking, WaitInv
  <1>4. TreeInv
    BY InitSlot, Zenon DEF Init, TreeInv, OnCpu, Alive
  <1>5. TicksInv
    BY Zenon DEF Init, TicksInv, NoLostTick, HoldsTicks
  <1>6. PidInv
    BY DEF Init, PidInv, PidUnique
  <1> QED
    BY <1>1, <1>2, <1>3, <1>4, <1>5, <1>6, Zenon DEF IInv

\* Every step of the kernel, on whatever CPU, preserves the invariant.
LEMMA NextIInv == IInv /\ [Next]_vars => IInv'
  <1> SUFFICES ASSUME IInv, [Next]_vars PROVE IInv'
    BY Zenon
  <1>1. ASSUME NEW c \in CPU, CpuStep(c) PROVE IInv'
    BY <1>1, SchedAcquireStep, SchedRunStep, SchedReleaseStep, SchedStep,
       TickStep, TickWakeupStep, InitExitStep, Zenon DEF CpuStep
  <1>2. ASSUME NEW c \in CPU, NEW p \in Slot, Fork(c, p) PROVE IInv'
    BY <1>2, ForkAllocStep, ForkNoSlotStep, ForkKstackStep, ForkNoKstackStep,
       ForkCopyStep, ForkNoCopyStep, ForkPublishStep, Zenon DEF Fork
  <1>3. ASSUME NEW c \in CPU, NEW p \in Slot, Wait(c, p) PROVE IInv'
    BY <1>3, WaitReapStep, WaitFailStep, WaitSleepStep, Zenon DEF Wait
  <1>4. ASSUME NEW c \in CPU, NEW p \in Slot, Sleep(c, p) PROVE IInv'
    BY <1>4, SysSleepStep, SleepMoreStep, SleepDoneStep, SleepCallStep,
       SleepReturnStep, SleepReacquireStep, Zenon DEF Sleep
  <1>5. ASSUME NEW c \in CPU, NEW p \in Slot, ProcStep(c, p) PROVE IInv'
    BY <1>2, <1>3, <1>4, <1>5, ForkretStep, YieldReturnStep, YieldStep,
       ExitStep, KillStep, Zenon DEF ProcStep
  <1>6. CASE UNCHANGED vars
    <2>1. UNCHANGED <<state, pid, parent, chan, killed, kstack, nextpid, ctx,
                      np, ticks0, tn, cproc, scan, irq, lock, tickslock,
                      ticks, panicked>>
      BY <1>6, Zenon DEF vars, procvars, threadvars, cpuvars, lockvars
    <2>2. TypeOK' /\ CpuInv' /\ RunInv' /\ ForkInv'
      BY <2>1 DEF IInv, TypeOK, ProcType, ThreadType, CpuType, LockType, CpuInv,
         RunInv, ForkInv
    <2>3. StackInv' /\ TreeInv' /\ WaitInv' /\ TicksInv' /\ PidInv'
      BY <2>1 DEF IInv, StackInv, TreeInv, WaitInv, TicksInv, NoLostTick,
         StillAsleep, PidInv, PidUnique
    <2> QED
      BY <2>2, <2>3, Zenon DEF IInv
  <1> QED
    BY <1>1, <1>5, <1>6, Zenon DEF Next, Frozen

\* The inductive invariant of the process table holds for any number of CPUs
\* and of slots.
THEOREM Invariance == Spec => []IInv
  BY InitIInv, NextIInv, PTL DEF Spec

\* Every variable of the process table keeps its type.
THEOREM TypeCorrect == Spec => []TypeOK
  <1>1. IInv => TypeOK
    BY Zenon DEF IInv
  <1> QED
    BY <1>1, Invariance, PTL

\* scheduler() never runs one process on two CPUs, and a process that is RUNNING
\* is on a CPU.
THEOREM OneCpu == Spec => []RunsOnOneCpu
  <1>1. IInv => RunsOnOneCpu
    BY Pointers DEF IInv, CpuInv, RunInv, RunsOnOneCpu
  <1> QED
    BY <1>1, Invariance, PTL

\* sched() is called with ptable.lock, and with no other lock: its panics never
\* fire.
THEOREM SchedNoPanic == Spec => []SchedLocks
  <1>1. IInv => SchedLocks
    BY Zenon DEF IInv, CpuInv, SchedLocks
  <1> QED
    BY <1>1, Invariance, PTL

\* No CPU executes on, or switches to, a kernel stack that wait() or a failed
\* fork() has freed.
THEOREM StacksSafe == Spec => []StackSafe
  <1>1. IInv => StackSafe
    BY Pointers, Zenon DEF IInv, CpuInv, StackInv, OnCpu, StackSafe
  <1> QED
    BY <1>1, Invariance, PTL

\* The exit() of a child never goes unnoticed by a parent asleep in wait().
THEOREM ExitNotLost == Spec => []NoLostExit
  <1>1. IInv => NoLostExit
    BY Zenon DEF IInv, WaitInv, NoLostExit
  <1> QED
    BY <1>1, Invariance, PTL

\* The timer never leaves a process asleep in sys_sleep() whose time is over.
THEOREM TickNotLost == Spec => []NoLostTick
  <1>1. IInv => NoLostTick
    BY Zenon DEF IInv, TicksInv
  <1> QED
    BY <1>1, Invariance, PTL

\* Every process but init has a parent that can still reap it.
THEOREM ParentsAlive == Spec => []ParentAlive
  <1>1. IInv => ParentAlive
    <2> SUFFICES ASSUME IInv, NEW p \in Slot \ {initproc},
                        state[p] \notin {"UNUSED", "EMBRYO"}
                 PROVE  /\ parent[p] \in Slot
                        /\ state[parent[p]] \in {"SLEEPING", "RUNNABLE", "RUNNING"}
      BY Zenon DEF ParentAlive
    <2>1. state[p] \in OnCpu
      BY Types, Zenon DEF ProcType, ProcState, OnCpu
    <2> QED
      BY <2>1, Pointers, Zenon DEF IInv, TreeInv, Alive
  <1> QED
    BY <1>1, Invariance, PTL

\* No two slots carry the same pid.
THEOREM PidsUnique == Spec => []PidUnique
  <1>1. IInv => PidUnique
    BY Zenon DEF IInv, PidInv
  <1> QED
    BY <1>1, Invariance, PTL

\* A zombie leaves the table only through wait() of its parent, which is running
\* on a CPU: neither a wakeup, nor kill(), nor the scheduler brings it back.
THEOREM ZombiesReaped == Spec => ZombieReaped
  <1>1. IInv /\ [Next]_vars =>
          [\A p \in Slot :
             state[p] = "ZOMBIE" /\ state'[p] # "ZOMBIE" =>
               state'[p] = "UNUSED" /\ \E c \in CPU : cproc[c] = parent[p]]_vars
    BY ZombieStep, Zenon
  <1> QED
    BY <1>1, Invariance, PTL DEF Spec, ZombieReaped

============================================================================
