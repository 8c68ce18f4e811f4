------------------------------ MODULE Spinlock ------------------------------
(***************************************************************************)
(* Spin locks, pushcli() and popcli() (spinlock.c) under what uses them:   *)
(* the hand-over of ptable.lock between a thread and its CPU's scheduler,  *)
(* sleep() on a second lock, myproc(), and the timer interrupt, which may  *)
(* come at any instruction while FL_IF is set and takes the same locks.    *)
(*                                                                         *)
(* code[x] is what context x still has to do: a sequence of instructions   *)
(* with their locals.  A call puts its instructions in front, an interrupt *)
(* its handler, and a switched-out context keeps the rest for later.       *)
(* A CPU stands for the context of its own scheduler().                    *)
(***************************************************************************)
EXTENDS Integers, Sequences, FiniteSets

CONSTANTS LockCpu, Thread, BootCpu, NoThread, NoCpu

ASSUME LockAssumption ==
  /\ Thread \subseteq Nat /\ LockCpu \cap Thread = {} /\ BootCpu \in LockCpu
  /\ NoThread \notin Thread \cup LockCpu /\ NoCpu \notin LockCpu

VARIABLES code,
          cpu,         \* of each CPU: proc, ncli, intena and the flag FL_IF
          lock,        \* of each lock: locked, cpu, and the context that got it
          tstate,      \* p->state of each thread
          halted       \* a panic

lockvars == <<code, cpu, lock, tstate, halted>>

-----------------------------------------------------------------------------
(* The instructions of each function.  Calls of myproc() and holding() by code that has a *)
(* lock, or is in a handler, are left out: interrupts are off before and after them.      *)

acquire(l) == << <<"pushcli">>, <<"check", l>>, <<"xchg", l>>, <<"own", l>> >>
\* Mutant: interrupts may come back on before the lock is free.
release_early(l) == << <<"disown", l>>, <<"popcli">>, <<"unlock", l>> >>
release(l) == << <<"disown", l>>, <<"unlock", l>>, <<"popcli">> >>
myproc == << <<"pushcli">>, <<"mycpu">>, <<"popcli">> >>
yield == acquire("ptable") \o << <<"state", "RUNNABLE">>, <<"sched">> >> \o release("ptable")
sleep(l) ==
  acquire("ptable") \o release(l) \o << <<"state", "SLEEPING">>, <<"sched">> >>
    \o release("ptable") \o acquire(l)
wakeup == acquire("ptable") \o << <<"wakeup1">> >> \o release("ptable")
forkret == release("ptable") \o << <<"trapret">> >>
scheduler == << <<"sti">> >> \o acquire("ptable") \o << <<"scan", 0>> >>

\* The system calls that matter here: one that only asks who it is, one that takes ptable.lock
\* to wake others, and sys_sleep(), which sleeps on tickslock.
sys_sleep == acquire("tickslock") \o << <<"while">> >>
SysCalls == {myproc, wakeup, sys_sleep}

\* trap() for a timer interrupt of context x on CPU c.
Tick(c) == IF c = BootCpu THEN acquire("tickslock") \o wakeup \o release("tickslock") ELSE <<>>
Preempt(x) == IF x \in Thread /\ tstate[x] = "RUNNING" THEN yield ELSE <<>>
trap(c, x) == Tick(c) \o Preempt(x) \o << <<"iret">> >>

-----------------------------------------------------------------------------
Lock == {"ptable", "tickslock"}

LockInit ==
  /\ code = [x \in LockCpu \cup Thread |-> IF x \in Thread THEN forkret ELSE scheduler]
  /\ cpu = [c \in LockCpu |-> [proc |-> NoThread, ncli |-> 0, intena |-> FALSE, fl_if |-> FALSE]]
  /\ lock = [l \in Lock |-> [locked |-> FALSE, cpu |-> NoCpu, owner |-> NoThread]]
  /\ tstate = [t \in Thread |-> "RUNNABLE"]
  /\ halted = FALSE

Cur(c) == IF cpu[c].proc = NoThread THEN c ELSE cpu[c].proc
Doing(c, op) == ~halted /\ code[Cur(c)] # <<>> /\ Head(code[Cur(c)])[1] = op
Arg(c) == Head(code[Cur(c)])[2]
Call(c, s) == code' = [code EXCEPT ![Cur(c)] = s \o Tail(@)]
Continue(c) == Call(c, <<>>)

\* The instruction is reached with ok, or the kernel panics.
Unless(ok, step) ==
  IF ok THEN step /\ UNCHANGED halted
        ELSE halted' = TRUE /\ UNCHANGED <<code, cpu, lock, tstate>>

-----------------------------------------------------------------------------
(* pushcli() reads the flags, and an interrupt may come before its cli(); mycpu() is called *)
(* after it.                                                                               *)

ReadEflags(c) ==
  /\ Doing(c, "pushcli")
  /\ Call(c, << <<"cli", cpu[c].fl_if>> >>)
  /\ UNCHANGED <<cpu, lock, tstate, halted>>

\* Mutant: a nested pushcli() records the flags again.
Intena_always(c) == Arg(c)
Intena(c) == IF cpu[c].ncli = 0 THEN Arg(c) ELSE cpu[c].intena
\* Mutant: pushcli() counts, and leaves the interrupts as they are.
PushedFlag_kept(c) == cpu[c].fl_if
PushedFlag(c) == FALSE
Cli(c) ==
  /\ Doing(c, "cli")
  /\ Continue(c)
  /\ cpu' = [cpu EXCEPT ![c].fl_if = PushedFlag(c), ![c].ncli = @ + 1, ![c].intena = Intena(c)]
  /\ UNCHANGED <<lock, tstate, halted>>

\* Mutant: the inner popcli() of two already enables interrupts.
PoppedFlag_inner(c) == cpu[c].intena
PoppedFlag(c) == cpu[c].ncli = 1 /\ cpu[c].intena
popcli(c) ==
  /\ Doing(c, "popcli")
  /\ Unless(~cpu[c].fl_if /\ cpu[c].ncli > 0,
            /\ Continue(c)
            /\ cpu' = [cpu EXCEPT ![c].ncli = @ - 1, ![c].fl_if = PoppedFlag(c)]
            /\ UNCHANGED <<lock, tstate>>)

\* myproc(): the CPU, then its proc.  The pointer stays in use between the two.
mycpu(c) ==
  /\ Doing(c, "mycpu")
  /\ Unless(~cpu[c].fl_if,
            Call(c, << <<"proc", c>> >>) /\ UNCHANGED <<cpu, lock, tstate>>)
ReadProc(c) == Doing(c, "proc") /\ Continue(c) /\ UNCHANGED <<cpu, lock, tstate, halted>>

-----------------------------------------------------------------------------
(* acquire() and release() *)

\* Whether this CPU holds l.
holding(c, l) == lock[l].locked /\ lock[l].cpu = c

CheckFree(c) ==
  /\ Doing(c, "check")
  /\ Unless(~holding(c, Arg(c)), Continue(c) /\ UNCHANGED <<cpu, lock, tstate>>)
Xchg(c) ==
  /\ Doing(c, "xchg") /\ ~lock[Arg(c)].locked
  /\ Continue(c)
  /\ lock' = [lock EXCEPT ![Arg(c)].locked = TRUE, ![Arg(c)].owner = Cur(c)]
  /\ UNCHANGED <<cpu, tstate, halted>>
Own(c) ==
  /\ Doing(c, "own")
  /\ Continue(c)
  /\ lock' = [lock EXCEPT ![Arg(c)].cpu = c]
  /\ UNCHANGED <<cpu, tstate, halted>>

Disown(c) ==
  /\ Doing(c, "disown")
  /\ Unless(holding(c, Arg(c)),
            /\ Continue(c)
            /\ lock' = [lock EXCEPT ![Arg(c)].cpu = NoCpu]
            /\ UNCHANGED <<cpu, tstate>>)
Unlock(c) ==
  /\ Doing(c, "unlock")
  /\ Continue(c)
  /\ lock' = [lock EXCEPT ![Arg(c)].locked = FALSE, ![Arg(c)].owner = NoThread]
  /\ UNCHANGED <<cpu, tstate, halted>>

-----------------------------------------------------------------------------
(* Threads and schedulers *)

SetState(c) ==
  /\ Doing(c, "state")
  /\ Continue(c)
  /\ tstate' = [tstate EXCEPT ![Cur(c)] = Arg(c)]
  /\ UNCHANGED <<cpu, lock, halted>>
wakeup1(c) ==
  /\ Doing(c, "wakeup1")
  /\ Continue(c)
  /\ tstate' = [t \in Thread |-> IF tstate[t] = "SLEEPING" THEN "RUNNABLE" ELSE tstate[t]]
  /\ UNCHANGED <<cpu, lock, halted>>

\* sys_sleep(): the time is over or the process was killed, or it sleeps once more.
SleepTest(c) ==
  /\ Doing(c, "while")
  /\ \/ Call(c, release("tickslock"))
     \/ Call(c, sleep("tickslock") \o << <<"while">> >>)
  /\ UNCHANGED <<cpu, lock, tstate, halted>>

\* sched() up to swtch(): ptable.lock goes to the scheduler of the CPU, which goes on after
\* its own swtch().  intena waits in a local.
SwitchOut(c) ==
  /\ Doing(c, "sched")
  /\ Unless(/\ holding(c, "ptable") /\ cpu[c].ncli = 1 /\ ~cpu[c].fl_if
            /\ tstate[Cur(c)] # "RUNNING",
            /\ Call(c, << <<"resume", cpu[c].intena>> >>)
            /\ cpu' = [cpu EXCEPT ![c].proc = NoThread]
            /\ lock' = [lock EXCEPT !["ptable"].owner = c]
            /\ UNCHANGED tstate)
\* Mutant: intena stays with the CPU.
Restored_cpu(c) == cpu[c].intena
Restored(c) == Arg(c)
Resume(c) ==
  /\ Doing(c, "resume")
  /\ Continue(c)
  /\ cpu' = [cpu EXCEPT ![c].intena = Restored(c)]
  /\ UNCHANGED <<lock, tstate, halted>>

\* scheduler(): the next runnable thread of the table, or the end of the loop.
Runnable(c) == {t \in Thread : t >= Arg(c) /\ tstate[t] = "RUNNABLE"}
Switch(c) ==
  /\ Doing(c, "scan")
  /\ \E t \in Runnable(c) :
       /\ \A u \in Runnable(c) : t <= u
       /\ Call(c, << <<"scan", t + 1>> >>)
       /\ cpu' = [cpu EXCEPT ![c].proc = t]
       /\ lock' = [lock EXCEPT !["ptable"].owner = t]
       /\ tstate' = [tstate EXCEPT ![t] = "RUNNING"]
  /\ UNCHANGED halted
EndScan(c) ==
  /\ Doing(c, "scan") /\ Runnable(c) = {}
  /\ Call(c, release("ptable") \o scheduler)
  /\ UNCHANGED <<cpu, lock, tstate, halted>>

-----------------------------------------------------------------------------
(* Interrupts and system calls *)

SetIf(c) ==
  /\ Doing(c, "sti") \/ Doing(c, "iret") \/ Doing(c, "trapret")
  /\ Continue(c)
  /\ cpu' = [cpu EXCEPT ![c].fl_if = TRUE]
  /\ UNCHANGED <<lock, tstate, halted>>
Interrupt(c) ==
  /\ cpu[c].fl_if /\ ~halted
  /\ code' = [code EXCEPT ![Cur(c)] = trap(c, Cur(c)) \o @]
  /\ cpu' = [cpu EXCEPT ![c].fl_if = FALSE]
  /\ UNCHANGED <<lock, tstate, halted>>
SysCall(c) ==
  /\ ~halted /\ cpu[c].proc # NoThread /\ code[Cur(c)] = <<>>
  /\ \E s \in SysCalls : code' = [code EXCEPT ![Cur(c)] = s]
  /\ UNCHANGED <<cpu, lock, tstate, halted>>

LockNext ==
  \E c \in LockCpu :
    \/ ReadEflags(c) \/ Cli(c) \/ popcli(c) \/ mycpu(c) \/ ReadProc(c)
    \/ CheckFree(c) \/ Xchg(c) \/ Own(c) \/ Disown(c) \/ Unlock(c)
    \/ SetState(c) \/ wakeup1(c) \/ SleepTest(c) \/ SwitchOut(c) \/ Resume(c) \/ Switch(c)
    \/ EndScan(c) \/ SetIf(c) \/ Interrupt(c) \/ SysCall(c)

-----------------------------------------------------------------------------
Pending(x, op) == \E i \in DOMAIN code[x] : code[x][i][1] = op
Spinning(c) == Doing(c, "xchg") /\ lock[Arg(c)].locked

\* Whoever has a lock runs on a CPU that nothing can interrupt, even after ptable.lock went
\* from one context to another, so nobody spins for a lock whose holder waits below.
HolderRuns ==
  \A l \in Lock : lock[l].locked =>
    \E c \in LockCpu : Cur(c) = lock[l].owner /\ ~cpu[c].fl_if /\ lock[l].cpu \in {c, NoCpu}

\* Outside its locks a thread has the interrupts it had before: on in its own code, off in
\* the handler, whichever CPU it continues on, so handlers do not pile up on its stack.
FlagsFollowThread ==
  \A c \in LockCpu : cpu[c].proc # NoThread /\ cpu[c].ncli = 0 /\ ~Pending(Cur(c), "trapret") =>
    cpu[c].fl_if = ~Pending(Cur(c), "iret")

\* The locks of spinlock.c: no panic of acquire(), release(), popcli(), mycpu() or sched(), a
\* holder that runs uninterrupted, flags that follow the thread, a myproc() that is the
\* caller, and never every CPU spinning.
LocksSound ==
  /\ ~halted
  /\ HolderRuns
  /\ FlagsFollowThread
  /\ \A c \in LockCpu : Doing(c, "proc") => cpu[Arg(c)].proc = cpu[c].proc
  /\ \E c \in LockCpu : ~Spinning(c)
=============================================================================
