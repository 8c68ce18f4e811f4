-------------------------- MODULE ProcTableSteps --------------------------
(***************************************************************************)
(* fork(), exit() and wait() preserve the invariant of the process table.  *)
(* Each lemma first states what the step finds (<1>a) and what it changes  *)
(* (<1>b), then takes the conjuncts of IInv in turn.                       *)
(***************************************************************************)
EXTENDS ProcTable, TLAPS

\* The types of the variables.
LEMMA Types == IInv => ProcType /\ ThreadType /\ CpuType /\ LockType
  BY Zenon DEF IInv, TypeOK

\* Which points of a kernel thread are preemptible.
LEMMA Points ==
  /\ "user" \in Preemptible /\ "alloc" \in Preemptible /\ "copy" \in Preemptible
  /\ "publish" \in Preemptible /\ "reacquire" \in Preemptible
  /\ "forkret" \notin Preemptible /\ "wait" \notin Preemptible
  /\ "check" \notin Preemptible /\ "sleepcall" \notin Preemptible
  /\ "tsleep" \notin Preemptible /\ "exit" \notin Preemptible
  BY PointAssumption, Zenon DEF Preemptible

\* initproc is a slot of the table.
LEMMA InitSlot == initproc \in Slot
  BY NProcAssumption DEF Slot, initproc

\* A slot is neither a null pointer nor a channel, and the pointers that are not
\* null are slots.
LEMMA Pointers ==
  /\ \A x \in Slot : x # Null /\ x # TicksChan
  /\ Null # TicksChan
  /\ IInv => /\ \A x \in Slot : parent[x] # Null => parent[x] \in Slot
             /\ \A x \in CPU : cproc[x] # Null => cproc[x] \in Slot
  BY Types, NProcAssumption DEF ProcType, CpuType, Slot, Null, TicksChan

\* Where a process is when it scans the table in wait().
LEMMA WaitsAt ==
  ASSUME NEW c \in CPU, NEW p \in Slot, Waits(c, p)
  PROVE  /\ cproc[c] = p /\ state[p] = "RUNNING" /\ irq[c] = "none"
         /\ \/ lock = NoCpu /\ tickslock # c /\ ctx[p] = "user"
            \/ lock = c /\ ctx[p] = "wait"
  BY Zenon DEF Waits, Calls, At, Runs

\* allocproc() takes an UNUSED slot, which nobody else refers to.
LEMMA ForkAllocStep ==
  ASSUME IInv, NEW c \in CPU, NEW p \in Slot, NEW q \in Slot, ForkAlloc(c, p, q)
  PROVE  IInv'
  <1>a. /\ cproc[c] = p /\ state[p] = "RUNNING" /\ irq[c] = "none"
        /\ lock # c /\ tickslock # c /\ ctx[p] = "user"
        /\ state[q] = "UNUSED"
    BY Zenon DEF ForkAlloc, procvars, threadvars, cpuvars, lockvars, Calls, At,
       Runs, First
  <1>b. /\ \A x \in Slot : state'[x] = IF x = q THEN "EMBRYO" ELSE state[x]
        /\ \A x \in Slot : pid'[x] = IF x = q THEN nextpid ELSE pid[x]
        /\ nextpid' = nextpid + 1
        /\ \A x \in Slot : ctx'[x] = IF x = p THEN "alloc" ELSE ctx[x]
        /\ \A x \in Slot : np'[x] = IF x = p THEN q ELSE np[x]
        /\ UNCHANGED <<parent, chan, killed, kstack, ticks0, tn, cproc,
           scan, irq, lock, tickslock, ticks, panicked>>
    BY Types, Zenon DEF ForkAlloc, procvars, threadvars, cpuvars, lockvars, ProcType,
       ThreadType
  <1>1. TypeOK'
    BY Types, Points DEF TypeOK, ProcType, ThreadType, CpuType, LockType,
       ForkAlloc, procvars, threadvars, cpuvars, lockvars, ProcState, Locked,
       Null
  <1>2. CpuInv'
    BY <1>a, <1>b, CpuAssumption, Points, Pointers, SMTT(30) DEF IInv, CpuInv,
       OnCpu, HoldsTicks
  <1>3. RunInv' /\ StackInv'
    BY <1>a, <1>b DEF IInv, RunInv, StackInv, OnCpu
  <1>4. ForkInv'
    BY <1>a, <1>b, SMTT(30) DEF IInv, ForkInv, Forking
  <1>5. TreeInv'
    BY <1>a, <1>b, Pointers, InitSlot DEF IInv, TreeInv, OnCpu, Alive
  <1>6. WaitInv'
    BY <1>a, <1>b, Pointers DEF IInv, WaitInv
  <1>7. TicksInv'
    BY <1>a, <1>b, CpuAssumption, Pointers, SMTT(30) DEF IInv, TicksInv,
       NoLostTick, HoldsTicks, StillAsleep
  <1>8. PidInv'
    BY <1>a, <1>b, Types DEF IInv, PidInv, PidUnique, ProcType
  <1> QED
    BY <1>1, <1>2, <1>3, <1>4, <1>5, <1>6, <1>7, <1>8, Zenon DEF IInv

\* fork() fails for want of a slot.
LEMMA ForkNoSlotStep ==
  ASSUME IInv, NEW c \in CPU, NEW p \in Slot, ForkNoSlot(c, p)
  PROVE  IInv'
  <1>a. /\ cproc[c] = p /\ state[p] = "RUNNING" /\ irq[c] = "none"
        /\ lock # c /\ tickslock # c /\ ctx[p] = "user"
    BY Zenon DEF ForkNoSlot, procvars, threadvars, cpuvars, lockvars, ForkFails,
       Calls, At, Runs
  <1>b. /\ \A x \in Slot : ctx'[x] = IF x = p THEN "user" ELSE ctx[x]
        /\ \A x \in Slot : np'[x] = IF x = p THEN Null ELSE np[x]
        /\ UNCHANGED <<state, pid, parent, chan, killed, kstack, nextpid,
           ticks0, tn, cproc, scan, irq, lock, tickslock, ticks>>
    BY Types, Zenon DEF ForkNoSlot, procvars, threadvars, cpuvars, lockvars,
       ForkFails, ThreadType
  <1>1. TypeOK'
    BY Types, Points, Zenon DEF TypeOK, ProcType, ThreadType, CpuType, LockType,
       ForkNoSlot, procvars, threadvars, cpuvars, lockvars, ForkFails, Locked,
       Null
  <1>2. RunInv' /\ StackInv' /\ PidInv'
    BY <1>b, Zenon DEF IInv, RunInv, StackInv, PidInv, PidUnique
  <1>3. CpuInv'
    BY <1>a, <1>b, CpuAssumption, Points, Pointers, SMTT(30) DEF IInv, CpuInv,
       OnCpu, HoldsTicks
  <1>4. ForkInv'
    BY <1>a, <1>b, SMTT(30) DEF IInv, ForkInv, Forking
  <1>5. TreeInv'
    BY <1>a, <1>b, Pointers, InitSlot DEF IInv, TreeInv, OnCpu, Alive
  <1>6. WaitInv'
    BY <1>a, <1>b, Pointers, ZenonT(30) DEF IInv, WaitInv
  <1>7. TicksInv'
    BY <1>a, <1>b, CpuAssumption, Pointers, Zenon DEF IInv, TicksInv,
       NoLostTick, HoldsTicks, StillAsleep
  <1> QED
    BY <1>1, <1>2, <1>3, <1>4, <1>5, <1>6, <1>7, Zenon DEF IInv

\* allocproc() gives the EMBRYO of this fork a kernel stack.
LEMMA ForkKstackStep ==
  ASSUME IInv, NEW c \in CPU, NEW p \in Slot, ForkKstack(c, p)
  PROVE  IInv'
  <1>a. /\ cproc[c] = p /\ state[p] = "RUNNING" /\ irq[c] = "none"
        /\ lock # c /\ tickslock # c /\ ctx[p] = "alloc"
        /\ np[p] \in Slot /\ state[np[p]] = "EMBRYO" /\ np[p] # p
    BY Zenon DEF ForkKstack, procvars, threadvars, cpuvars, lockvars, At, Runs,
       IInv, ForkInv, Forking
  <1>b. /\ kstack'[np[p]] /\ \A x \in Slot : kstack[x] => kstack'[x]
        /\ \A x \in Slot : ctx'[x] = IF x = np[p] THEN "forkret" ELSE IF x = p THEN "copy" ELSE ctx[x]
        /\ UNCHANGED <<state, pid, parent, chan, killed, nextpid, np,
           ticks0, tn, cproc, scan, irq, lock, tickslock, ticks,
           panicked>>
    BY Types, <1>a, Zenon DEF ForkKstack, procvars, threadvars, cpuvars, lockvars,
       ProcType, ThreadType
  <1>1. TypeOK'
    BY Types, <1>a, Points, Zenon DEF TypeOK, ProcType, ThreadType, CpuType,
       LockType, ForkKstack, procvars, threadvars, cpuvars, lockvars, Locked
  <1>2. RunInv' /\ PidInv'
    BY <1>b, Zenon DEF IInv, RunInv, PidInv, PidUnique
  <1>3. CpuInv'
    BY <1>a, <1>b, CpuAssumption, Points, Pointers, SMTT(30) DEF IInv, CpuInv,
       OnCpu, HoldsTicks
  <1>4. ForkInv'
    BY <1>a, <1>b, SMTT(30) DEF IInv, ForkInv, Forking
  <1>5. StackInv'
    BY <1>a, <1>b, ZenonT(30) DEF IInv, StackInv, OnCpu
  <1>6. TreeInv'
    BY <1>a, <1>b, Pointers, InitSlot DEF IInv, TreeInv, OnCpu, Alive,
       ForkInv, Forking
  <1>7. WaitInv'
    BY <1>a, <1>b, Pointers DEF IInv, WaitInv
  <1>8. TicksInv'
    BY <1>a, <1>b, CpuAssumption, Pointers, SMTT(30) DEF IInv, TicksInv,
       NoLostTick, HoldsTicks, StillAsleep
  <1> QED
    BY <1>1, <1>2, <1>3, <1>4, <1>5, <1>6, <1>7, <1>8, Zenon DEF IInv

\* allocproc() gives its EMBRYO back, without ptable.lock.
LEMMA ForkNoKstackStep ==
  ASSUME IInv, NEW c \in CPU, NEW p \in Slot, ForkNoKstack(c, p)
  PROVE  IInv'
  <1>a. /\ cproc[c] = p /\ state[p] = "RUNNING" /\ irq[c] = "none"
        /\ lock # c /\ tickslock # c /\ ctx[p] = "alloc"
        /\ np[p] \in Slot /\ state[np[p]] = "EMBRYO" /\ np[p] # p
    BY Zenon DEF ForkNoKstack, procvars, threadvars, cpuvars, lockvars, ForkFails,
       At, Runs, IInv, ForkInv, Forking
  <1>b. /\ \A x \in Slot : state'[x] = IF x = np[p] THEN "UNUSED" ELSE state[x]
        /\ \A x \in Slot : ctx'[x] = IF x = p THEN "user" ELSE ctx[x]
        /\ \A x \in Slot : np'[x] = IF x = p THEN Null ELSE np[x]
        /\ UNCHANGED <<pid, parent, chan, killed, kstack, nextpid, ticks0,
           tn, cproc, scan, irq, lock, tickslock, ticks>>
    BY Types, Zenon DEF ForkNoKstack, procvars, threadvars, cpuvars, lockvars,
       ForkFails, ProcType, ThreadType
  <1>1. TypeOK'
    BY Types, <1>a, Points, Zenon DEF TypeOK, ProcType, ThreadType, CpuType,
       LockType, ForkNoKstack, procvars, threadvars, cpuvars, lockvars,
       ForkFails, ProcState, Locked, Null
  <1>2. PidInv'
    BY <1>b, Zenon DEF IInv, PidInv, PidUnique
  <1>3. CpuInv'
    BY <1>a, <1>b, CpuAssumption, Points, Pointers, SMTT(30) DEF IInv, CpuInv,
       OnCpu, HoldsTicks
  <1>4. RunInv' /\ StackInv'
    BY <1>a, <1>b DEF IInv, RunInv, StackInv, OnCpu
  <1>5. ForkInv'
    BY <1>a, <1>b, SMTT(30) DEF IInv, ForkInv, Forking
  <1>6. TreeInv'
    BY <1>a, <1>b, Pointers, InitSlot DEF IInv, TreeInv, OnCpu, Alive,
       ForkInv, Forking
  <1>7. WaitInv'
    BY <1>a, <1>b, Pointers DEF IInv, WaitInv
  <1>8. TicksInv'
    BY <1>a, <1>b, CpuAssumption, Pointers, SMTT(30) DEF IInv, TicksInv,
       NoLostTick, HoldsTicks, StillAsleep
  <1> QED
    BY <1>1, <1>2, <1>3, <1>4, <1>5, <1>6, <1>7, <1>8, Zenon DEF IInv

\* fork() sets the parent of its EMBRYO.
LEMMA ForkCopyStep ==
  ASSUME IInv, NEW c \in CPU, NEW p \in Slot, ForkCopy(c, p)
  PROVE  IInv'
  <1>a. /\ cproc[c] = p /\ state[p] = "RUNNING" /\ irq[c] = "none"
        /\ lock # c /\ tickslock # c /\ ctx[p] = "copy"
        /\ np[p] \in Slot /\ state[np[p]] = "EMBRYO" /\ np[p] # p
    BY Zenon DEF ForkCopy, procvars, threadvars, cpuvars, lockvars, At, Runs, IInv,
       ForkInv, Forking
  <1>b. /\ \A x \in Slot : parent'[x] = IF x = np[p] THEN p ELSE parent[x]
        /\ \A x \in Slot : ctx'[x] = IF x = p THEN "publish" ELSE ctx[x]
        /\ UNCHANGED <<state, pid, chan, killed, kstack, nextpid, np,
           ticks0, tn, cproc, scan, irq, lock, tickslock, ticks,
           panicked>>
    BY Types, Zenon DEF ForkCopy, procvars, threadvars, cpuvars, lockvars, ProcType,
       ThreadType
  <1>1. TypeOK'
    BY Types, <1>a, InitSlot, Points, Zenon DEF TypeOK, ProcType, ThreadType,
       CpuType, LockType, ForkCopy, procvars, threadvars, cpuvars, lockvars,
       Null, Locked
  <1>2. RunInv' /\ StackInv' /\ PidInv'
    BY <1>b, Zenon DEF IInv, RunInv, StackInv, PidInv, PidUnique
  <1>3. CpuInv'
    BY <1>a, <1>b, CpuAssumption, Points, Pointers, SMTT(30) DEF IInv, CpuInv,
       OnCpu, HoldsTicks
  <1>4. ForkInv'
    BY <1>a, <1>b, SMTT(30) DEF IInv, ForkInv, Forking
  <1>5. TreeInv'
    BY <1>a, <1>b, Pointers, InitSlot DEF IInv, TreeInv, OnCpu, Alive,
       ForkInv, Forking
  <1>6. WaitInv'
    BY <1>a, <1>b, Pointers DEF IInv, WaitInv, TreeInv
  <1>7. TicksInv'
    BY <1>a, <1>b, CpuAssumption, Pointers, SMTT(30) DEF IInv, TicksInv,
       NoLostTick, HoldsTicks, StillAsleep
  <1> QED
    BY <1>1, <1>2, <1>3, <1>4, <1>5, <1>6, <1>7, Zenon DEF IInv

\* fork() gives its EMBRYO and its stack back, without ptable.lock.
LEMMA ForkNoCopyStep ==
  ASSUME IInv, NEW c \in CPU, NEW p \in Slot, ForkNoCopy(c, p)
  PROVE  IInv'
  <1>a. /\ cproc[c] = p /\ state[p] = "RUNNING" /\ irq[c] = "none"
        /\ lock # c /\ tickslock # c /\ ctx[p] = "copy"
        /\ np[p] \in Slot /\ state[np[p]] = "EMBRYO" /\ np[p] # p
    BY Zenon DEF ForkNoCopy, procvars, threadvars, cpuvars, lockvars, ForkFails, At,
       Runs, IInv, ForkInv, Forking
  <1>b. /\ \A x \in Slot \ {np[p]} : kstack[x] => kstack'[x]
        /\ \A x \in Slot : state'[x] = IF x = np[p] THEN "UNUSED" ELSE state[x]
        /\ \A x \in Slot : ctx'[x] = IF x = p THEN "user" ELSE ctx[x]
        /\ \A x \in Slot : np'[x] = IF x = p THEN Null ELSE np[x]
        /\ UNCHANGED <<pid, parent, chan, killed, nextpid, ticks0, tn,
           cproc, scan, irq, lock, tickslock, ticks>>
    BY Types, Zenon DEF ForkNoCopy, procvars, threadvars, cpuvars, lockvars,
       ForkFails, ProcType, ThreadType
  <1>1. TypeOK'
    BY Types, <1>a, Points, Zenon DEF TypeOK, ProcType, ThreadType, CpuType,
       LockType, ForkNoCopy, procvars, threadvars, cpuvars, lockvars,
       ForkFails, ProcState, Locked, Null
  <1>2. PidInv'
    BY <1>b, Zenon DEF IInv, PidInv, PidUnique
  <1>3. CpuInv'
    BY <1>a, <1>b, CpuAssumption, Points, Pointers, SMTT(30) DEF IInv, CpuInv,
       OnCpu, HoldsTicks
  <1>4. RunInv' /\ StackInv'
    BY <1>a, <1>b DEF IInv, RunInv, StackInv, OnCpu
  <1>5. ForkInv'
    BY <1>a, <1>b, SMTT(30) DEF IInv, ForkInv, Forking
  <1>6. TreeInv'
    BY <1>a, <1>b, Pointers, InitSlot DEF IInv, TreeInv, OnCpu, Alive,
       ForkInv, Forking
  <1>7. WaitInv'
    BY <1>a, <1>b, Pointers DEF IInv, WaitInv
  <1>8. TicksInv'
    BY <1>a, <1>b, CpuAssumption, Pointers, SMTT(30) DEF IInv, TicksInv,
       NoLostTick, HoldsTicks, StillAsleep
  <1> QED
    BY <1>1, <1>2, <1>3, <1>4, <1>5, <1>6, <1>7, <1>8, Zenon DEF IInv

\* fork() publishes the child: it has a stack and a living parent.
LEMMA ForkPublishStep ==
  ASSUME IInv, NEW c \in CPU, NEW p \in Slot, ForkPublish(c, p)
  PROVE  IInv'
  <1>a. /\ cproc[c] = p /\ state[p] = "RUNNING" /\ irq[c] = "none"
        /\ lock # c /\ tickslock # c /\ ctx[p] = "publish"
        /\ lock = NoCpu /\ np[p] \in Slot /\ state[np[p]] = "EMBRYO"
        /\ np[p] # p
    BY Zenon DEF ForkPublish, procvars, threadvars, cpuvars, lockvars, At, Runs,
       IInv, ForkInv, Forking
  <1>b. /\ \A x \in Slot : state'[x] = IF x = np[p] THEN "RUNNABLE" ELSE state[x]
        /\ \A x \in Slot : ctx'[x] = IF x = p THEN "user" ELSE ctx[x]
        /\ \A x \in Slot : np'[x] = IF x = p THEN Null ELSE np[x]
        /\ UNCHANGED <<pid, parent, chan, killed, kstack, nextpid, ticks0,
           tn, cproc, scan, irq, lock, tickslock, ticks, panicked>>
    BY Types, Zenon DEF ForkPublish, procvars, threadvars, cpuvars, lockvars,
       ProcType, ThreadType
  <1>1. TypeOK'
    BY Types, <1>a, Points, Zenon DEF TypeOK, ProcType, ThreadType, CpuType,
       LockType, ForkPublish, procvars, threadvars, cpuvars, lockvars,
       ProcState, Locked, Null
  <1>2. PidInv'
    BY <1>b, Zenon DEF IInv, PidInv, PidUnique
  <1>3. CpuInv'
    BY <1>a, <1>b, CpuAssumption, Points, Pointers, SMTT(30) DEF IInv, CpuInv,
       OnCpu, HoldsTicks
  <1>4. RunInv'
    BY <1>a, <1>b, ZenonT(30) DEF IInv, RunInv
  <1>5. ForkInv'
    BY <1>a, <1>b, SMTT(30) DEF IInv, ForkInv, Forking
  <1>6. StackInv'
    BY <1>a, <1>b, ZenonT(30) DEF IInv, StackInv, OnCpu, ForkInv, Forking
  <1>7. TreeInv'
    BY <1>a, <1>b, Pointers, InitSlot DEF IInv, TreeInv, OnCpu, Alive,
       ForkInv, Forking
  <1>8. WaitInv'
    BY <1>a, <1>b, Pointers DEF IInv, WaitInv, TreeInv
  <1>9. TicksInv'
    BY <1>a, <1>b, CpuAssumption, Pointers, SMTT(30) DEF IInv, TicksInv,
       NoLostTick, HoldsTicks, StillAsleep
  <1> QED
    BY <1>1, <1>2, <1>3, <1>4, <1>5, <1>6, <1>7, <1>8, <1>9, Zenon DEF IInv

\* exit() wakes the parent, and init if it inherits a zombie; no child keeps a
\* parent that is gone.
LEMMA ExitStep ==
  ASSUME IInv, NEW c \in CPU, NEW p \in Slot, Exit(c, p)
  PROVE  IInv'
  <1>a. /\ cproc[c] = p /\ state[p] = "RUNNING" /\ ctx[p] = "user"
        /\ p # initproc /\ lock = NoCpu /\ tickslock # c
        /\ irq[c] # "tick"
    BY Zenon DEF Exit, procvars, threadvars, cpuvars, lockvars, LeavesUser
  <1>s. /\ state'[p] = "ZOMBIE"
        /\ \A x \in Slot \ {p} :
             \/ state'[x] = state[x]
             \/ state[x] = "SLEEPING" /\ state'[x] = "RUNNABLE"
        /\ \A x \in Slot \ {p} : chan[x] = parent[p] => state'[x] # "SLEEPING"
        /\ \A x, y \in Slot :
             chan[x] = initproc /\ parent[y] = p /\ state[y] = "ZOMBIE" => state'[x] # "SLEEPING"
    BY <1>a, InitSlot, Types, Zenon DEF ProcType, Exit, ExitWakeups, wakeup1
  <1>b. /\ lock' = c
        /\ \A x \in Slot : parent'[x] = IF parent[x] = p THEN initproc ELSE parent[x]
        /\ \A x \in Slot : ctx'[x] = IF x = p THEN "exit" ELSE ctx[x]
        /\ \A x \in CPU : irq'[x] = IF x = c THEN "none" ELSE irq[x]
        /\ UNCHANGED <<pid, chan, killed, kstack, nextpid, np, ticks0, tn,
           cproc, scan, tickslock, ticks, panicked>>
    BY Types, Zenon DEF Exit, procvars, threadvars, cpuvars, lockvars, ProcType,
       ThreadType, CpuType, Abandon
  <1>1. TypeOK'
    BY Types, InitSlot, Points, Zenon DEF TypeOK, ProcType, ThreadType, CpuType,
       LockType, Exit, procvars, threadvars, cpuvars, lockvars, ProcState,
       ExitWakeups, wakeup1, Null, Abandon, Locked
  <1>2. PidInv'
    BY <1>b, Zenon DEF IInv, PidInv, PidUnique
  <1>3. CpuInv'
    BY <1>a, <1>b, <1>s, CpuAssumption, Points, Pointers, SMTT(30) DEF IInv,
       CpuInv, OnCpu, HoldsTicks
  <1>4. RunInv' /\ StackInv'
    <2>1. \A x \in Slot : state'[x] = "RUNNING" => state[x] = "RUNNING"
      BY <1>s, Zenon
    <2>2. \A x \in Slot : state'[x] \in OnCpu => state[x] \in OnCpu
      BY <1>a, <1>s, Zenon DEF OnCpu
    <2>3. UNCHANGED <<cproc, kstack>>
      BY <1>b, Zenon
    <2> QED
      BY <2>1, <2>2, <2>3, Zenon DEF IInv, RunInv, StackInv
  <1>5. ForkInv'
    <2>1. ForkInv /\ \A x \in Slot : ctx'[x] \in Forking => x # p /\ ctx[x] = ctx'[x]
      BY <1>a, <1>b, Zenon DEF IInv, Forking
    <2>2. \A x \in Slot : state[x] = "EMBRYO" => parent'[x] = parent[x] /\ state'[x] = "EMBRYO"
      <3>1. \A x \in Slot : state[x] = "EMBRYO" => parent[x] # p
        BY <1>a, Pointers, Zenon DEF IInv, TreeInv
      <3> QED
        BY <1>a, <1>b, <1>s, <3>1, Zenon
    <2>3. \A x \in Slot : x # p /\ state[x] \in {"RUNNING", "RUNNABLE"} =>
                           state'[x] \in {"RUNNING", "RUNNABLE"}
      BY <1>s, Zenon
    <2>4. UNCHANGED <<np, kstack>> /\ {"copy", "publish"} \subseteq Forking
      BY <1>b, Zenon DEF Forking
    <2> QED
      BY <2>1, <2>2, <2>3, <2>4 DEF ForkInv
  <1>6. TreeInv'
    <2>1. /\ TreeInv /\ initproc \in Slot /\ p # Null /\ initproc # Null
          /\ \A x \in Slot : parent[x] # Null => parent[x] \in Slot
      BY InitSlot, Pointers, Zenon DEF IInv
    <2>2. \A x \in Slot : /\ state'[x] = "UNUSED" => state[x] = "UNUSED"
                          /\ state'[x] = "EMBRYO" => state[x] = "EMBRYO"
                          /\ state'[x] \in OnCpu => state[x] \in OnCpu
                          /\ x # p /\ state[x] \in Alive => state'[x] \in Alive
      BY <1>a, <1>s, Zenon DEF OnCpu, Alive
    <2>3. /\ \A x \in Slot : parent'[x] = IF parent[x] = p THEN initproc ELSE parent[x]
          /\ \A x \in Slot : x # p => ctx'[x] = ctx[x]
          /\ UNCHANGED np
      BY <1>b, Zenon
    <2>4. \A x \in Slot : state[x] = "EMBRYO" => parent[x] # p
      BY <1>a, <2>1, Zenon DEF TreeInv
    <2>5. state'[initproc] \in Alive /\ parent'[initproc] = Null
      BY <1>a, <2>1, <2>2, <2>3, Zenon DEF TreeInv
    <2>6. \A x \in Slot : parent'[x] # Null => parent'[x] # x /\ state'[parent'[x]] \in Alive
      BY <1>a, <2>1, <2>2, <2>3, <2>5 DEF TreeInv
    <2>7. \A x \in Slot : /\ state'[x] = "UNUSED" => parent'[x] = Null
                          /\ x # initproc /\ state'[x] \in OnCpu => parent'[x] # Null
      BY <2>1, <2>2, <2>3, Zenon DEF TreeInv
    <2>8. \A x \in Slot : state'[x] = "EMBRYO" /\ parent'[x] # Null =>
            ctx'[parent'[x]] = "publish" /\ np'[parent'[x]] = x
      BY <2>1, <2>2, <2>3, <2>4 DEF TreeInv
    <2> QED
      BY <2>5, <2>6, <2>7, <2>8, Zenon DEF TreeInv
  <1>7. WaitInv'
    BY <1>a, <1>b, <1>s, Pointers DEF IInv, WaitInv, TreeInv, Alive
  <1>8. TicksInv'
    BY <1>a, <1>b, <1>s, CpuAssumption, Pointers, SMTT(30) DEF IInv, TicksInv,
       NoLostTick, HoldsTicks, StillAsleep
  <1> QED
    BY <1>1, <1>2, <1>3, <1>4, <1>5, <1>6, <1>7, <1>8, Zenon DEF IInv

\* wait() frees a zombie that is on no CPU any more.
LEMMA WaitReapStep ==
  ASSUME IInv, NEW c \in CPU, NEW p \in Slot, NEW q \in Slot, WaitReap(c, p, q)
  PROVE  IInv'
  <1>a. /\ cproc[c] = p /\ state[p] = "RUNNING" /\ irq[c] = "none"
        /\ ((lock = NoCpu /\ tickslock # c /\ ctx[p] = "user") \/ (lock = c /\ ctx[p] = "wait"))
        /\ state[q] = "ZOMBIE" /\ parent[q] = p /\ q # p
    BY WaitsAt DEF WaitReap, procvars, threadvars, cpuvars, lockvars,
       WaitReturns, First, Zombies, Kids
  <1>b. /\ \A x \in Slot \ {q} : kstack[x] => kstack'[x]
        /\ \A x \in Slot : pid'[x] = IF x = q THEN 0 ELSE pid[x]
        /\ \A x \in Slot : parent'[x] = IF x = q THEN Null ELSE parent[x]
        /\ \A x \in Slot : ~killed[x] => ~killed'[x]
        /\ \A x \in Slot : state'[x] = IF x = q THEN "UNUSED" ELSE state[x]
        /\ \A x \in Slot : ctx'[x] = IF x = p THEN "user" ELSE ctx[x]
        /\ \A x \in Slot : chan'[x] = IF x = p THEN Null ELSE chan[x]
        /\ lock' = NoCpu
        /\ UNCHANGED <<nextpid, np, ticks0, tn, cproc, scan, irq,
           tickslock, ticks, panicked>>
    BY Types, Zenon DEF WaitReap, procvars, threadvars, cpuvars, lockvars,
       WaitReturns, ProcType, ThreadType
  <1>1. TypeOK'
    BY Types, InitSlot, Points, Zenon DEF TypeOK, ProcType, ThreadType, CpuType,
       LockType, WaitReap, procvars, threadvars, cpuvars, lockvars,
       WaitReturns, ProcState, Null, Locked
  <1>2. CpuInv'
    <2>1. CpuInv /\ \A d \in CPU : cproc[d] # Null => cproc[d] \in Slot
      BY Pointers, Zenon DEF IInv
    <2>2. q # Null /\ p # Null /\ NoCpu \notin CPU
      BY Pointers, CpuAssumption, Zenon
    <2>3. lock \in {NoCpu, c} /\ tickslock # c
      BY <1>a, <2>1, <2>2, Zenon DEF CpuInv, HoldsTicks
    <2>4. ASSUME NEW d \in CPU PROVE cproc[d] # q /\ (d # c => cproc[d] # p)
      <3>1. cproc[d] # Null => (state[cproc[d]] # "RUNNING" => lock = d)
        BY <2>1, Zenon DEF CpuInv
      <3>2. d # c => cproc[d] # cproc[c]
        BY <1>a, <2>1, <2>2, Zenon DEF CpuInv
      <3> QED
        BY <1>a, <2>2, <2>3, <3>1, <3>2, Zenon
    <2>5. \A d \in CPU : cproc[d] # Null =>
            /\ state'[cproc[d]] = state[cproc[d]]
            /\ ctx'[cproc[d]] = IF d = c THEN "user" ELSE ctx[cproc[d]]
      BY <1>a, <1>b, <2>1, <2>4, Zenon
    <2>6. "user" \in Preemptible /\ lock' = NoCpu /\ UNCHANGED <<cproc, irq, tickslock>>
      BY <1>b, Points, Zenon
    <2>7. \A d \in CPU : cproc[d] # Null =>
            /\ state'[cproc[d]] \in OnCpu /\ state'[cproc[d]] = "RUNNING"
            /\ ctx'[cproc[d]] \in Preemptible \cup HoldsTicks
            /\ \A e \in CPU : cproc[e] = cproc[d] => e = d
      <3>1. \A d \in CPU : cproc[d] # Null => state[cproc[d]] = "RUNNING"
        <4>1. \A d \in CPU : cproc[d] # Null /\ state[cproc[d]] # "RUNNING" => lock = d
          BY <2>1, Zenon DEF CpuInv
        <4>2. \A d \in CPU : lock = d => d = c
          BY <2>2, <2>3, Zenon
        <4>3. state[cproc[c]] = "RUNNING"
          BY <1>a, Zenon
        <4> QED
          BY <4>1, <4>2, <4>3, Zenon
      <3>2. \A d \in CPU : cproc[d] # Null /\ d # c => ctx[cproc[d]] \in Preemptible \cup HoldsTicks
        BY <2>1, <2>2, <2>3, Zenon DEF CpuInv
      <3>3. \A d, e \in CPU : cproc[d] # Null /\ cproc[e] = cproc[d] => e = d
        BY <2>1, Zenon DEF CpuInv
      <3> QED
        BY <2>5, <2>6, <3>1, <3>2, <3>3, Zenon DEF OnCpu
    <2>8. \A d \in CPU : irq[d] # "none" =>
            d = BootCpu /\ (cproc[d] # Null => ctx'[cproc[d]] \in Preemptible)
      BY <2>1, <2>5, <2>6, Zenon DEF CpuInv
    <2>9. ASSUME NEW d \in CPU, tickslock = d
          PROVE  irq[d] = "tick" \/ (cproc[d] # Null /\ ctx'[cproc[d]] \in HoldsTicks)
      <3>1. d # c
        BY <2>3, <2>9, Zenon
      <3>2. irq[d] = "tick" \/ (cproc[d] # Null /\ ctx[cproc[d]] \in HoldsTicks)
        BY <2>1, <2>9, Zenon DEF CpuInv
      <3>3. cproc[d] # Null => ctx'[cproc[d]] = ctx[cproc[d]]
        BY <2>5, <3>1, Zenon
      <3> QED
        BY <3>2, <3>3, Zenon
    <2>10. \A d \in CPU : (irq[d] = "tick" => tickslock = d) /\ (irq[d] = "yield" => cproc[d] # Null)
      BY <2>1, Zenon DEF CpuInv
    <2> QED
      BY <2>2, <2>6, <2>7, <2>8, <2>9, <2>10, Zenon DEF CpuInv
  <1>3. RunInv' /\ StackInv'
    BY <1>a, <1>b, Zenon DEF IInv, RunInv, StackInv, OnCpu
  <1>4. ForkInv'
    BY <1>a, <1>b, SMTT(30) DEF IInv, ForkInv, Forking
  <1>5. TreeInv'
    BY <1>a, <1>b, Pointers, InitSlot DEF IInv, TreeInv, OnCpu, Alive
  <1>6. WaitInv'
    BY <1>a, <1>b, Pointers DEF IInv, WaitInv
  <1>7. TicksInv'
    BY <1>a, <1>b, CpuAssumption, Pointers, SMTT(30) DEF IInv, TicksInv,
       NoLostTick, HoldsTicks, StillAsleep
  <1>8. PidInv'
    BY <1>a, <1>b, Types DEF IInv, PidInv, PidUnique, ProcType
  <1> QED
    BY <1>1, <1>2, <1>3, <1>4, <1>5, <1>6, <1>7, <1>8, Zenon DEF IInv

\* wait() returns without a child.
LEMMA WaitFailStep ==
  ASSUME IInv, NEW c \in CPU, NEW p \in Slot, WaitFail(c, p)
  PROVE  IInv'
  <1>a. /\ cproc[c] = p /\ state[p] = "RUNNING" /\ irq[c] = "none"
        /\ ((lock = NoCpu /\ tickslock # c /\ ctx[p] = "user") \/ (lock = c /\ ctx[p] = "wait"))
    BY WaitsAt, Zenon DEF WaitFail, procvars, threadvars, cpuvars, lockvars,
       WaitReturns
  <1>b. /\ \A x \in Slot : ctx'[x] = IF x = p THEN "user" ELSE ctx[x]
        /\ \A x \in Slot : chan'[x] = IF x = p THEN Null ELSE chan[x]
        /\ lock' = NoCpu
        /\ UNCHANGED <<state, pid, parent, killed, kstack, nextpid, np,
           ticks0, tn, cproc, scan, irq, tickslock, ticks, panicked>>
    BY Types, Zenon DEF WaitFail, procvars, threadvars, cpuvars, lockvars,
       WaitReturns, ProcType, ThreadType
  <1>1. TypeOK'
    BY Types, Points, Zenon DEF TypeOK, ProcType, ThreadType, CpuType, LockType,
       WaitFail, procvars, threadvars, cpuvars, lockvars, WaitReturns, Locked
  <1>2. RunInv' /\ StackInv' /\ PidInv'
    BY <1>b, Zenon DEF IInv, RunInv, StackInv, PidInv, PidUnique
  <1>3. CpuInv'
    BY <1>a, <1>b, CpuAssumption, Points, Pointers, SMTT(30) DEF IInv, CpuInv,
       OnCpu, HoldsTicks
  <1>4. ForkInv'
    BY <1>a, <1>b, ZenonT(30) DEF IInv, ForkInv, Forking
  <1>5. TreeInv'
    BY <1>a, <1>b, Pointers, InitSlot DEF IInv, TreeInv, OnCpu, Alive
  <1>6. WaitInv'
    BY <1>a, <1>b, Pointers, ZenonT(30) DEF IInv, WaitInv
  <1>7. TicksInv'
    BY <1>a, <1>b, CpuAssumption, Pointers, SMTT(30) DEF IInv, TicksInv,
       NoLostTick, HoldsTicks, StillAsleep
  <1> QED
    BY <1>1, <1>2, <1>3, <1>4, <1>5, <1>6, <1>7, Zenon DEF IInv

\* wait() goes to sleep under ptable.lock, under which it has found children
\* and no zombie among them.
LEMMA WaitSleepStep ==
  ASSUME IInv, NEW c \in CPU, NEW p \in Slot, WaitSleep(c, p)
  PROVE  IInv'
  <1>a. /\ cproc[c] = p /\ state[p] = "RUNNING" /\ irq[c] = "none"
        /\ ((lock = NoCpu /\ tickslock # c /\ ctx[p] = "user") \/ (lock = c /\ ctx[p] = "wait"))
        /\ ~killed[p] /\ (\E q \in Slot : parent[q] = p)
        /\ \A q \in Slot : parent[q] = p => state[q] # "ZOMBIE"
    BY WaitsAt DEF WaitSleep, procvars, threadvars, cpuvars, lockvars,
       Zombies, Kids
  <1>b. /\ \A x \in Slot : chan'[x] = IF x = p THEN p ELSE chan[x]
        /\ \A x \in Slot : state'[x] = IF x = p THEN "SLEEPING" ELSE state[x]
        /\ \A x \in Slot : ctx'[x] = IF x = p THEN "wait" ELSE ctx[x]
        /\ lock' = c
        /\ UNCHANGED <<pid, parent, killed, kstack, nextpid, np, ticks0,
           tn, cproc, scan, irq, tickslock, ticks, panicked>>
    BY Types, Zenon DEF WaitSleep, procvars, threadvars, cpuvars, lockvars, ProcType,
       ThreadType
  <1>1. TypeOK'
    BY Types, Points, Zenon DEF TypeOK, ProcType, ThreadType, CpuType, LockType,
       WaitSleep, procvars, threadvars, cpuvars, lockvars, ProcState, Locked
  <1>2. PidInv'
    BY <1>b, Zenon DEF IInv, PidInv, PidUnique
  <1>3. CpuInv'
    BY <1>a, <1>b, CpuAssumption, Points, Pointers, SMTT(30) DEF IInv, CpuInv,
       OnCpu, HoldsTicks
  <1>4. RunInv' /\ StackInv'
    BY <1>a, <1>b DEF IInv, RunInv, StackInv, OnCpu
  <1>5. ForkInv'
    BY <1>a, <1>b, SMTT(30) DEF IInv, ForkInv, Forking
  <1>6. TreeInv'
    BY <1>a, <1>b, Pointers, InitSlot DEF IInv, TreeInv, OnCpu, Alive
  <1>7. WaitInv'
    BY <1>a, <1>b, Pointers DEF IInv, WaitInv
  <1>8. TicksInv'
    BY <1>a, <1>b, CpuAssumption, Pointers, SMTT(30) DEF IInv, TicksInv,
       NoLostTick, HoldsTicks, StillAsleep
  <1> QED
    BY <1>1, <1>2, <1>3, <1>4, <1>5, <1>6, <1>7, <1>8, Zenon DEF IInv

============================================================================
