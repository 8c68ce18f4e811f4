------------------------------ MODULE Messages ------------------------------
(***************************************************************************)
(* send() and recv() of proc.c, on the ring buffers msg_queue[pid - 1].    *)
(* A process here is a kernel thread on a CPU of its own, or asleep; the   *)
(* critical sections of ptable.lock (sleep, wakeup) are single steps.  The *)
(* lock of a queue may outlive the call that took it: send() on a full and *)
(* recv() on an empty queue return without releasing it, and the CPU then  *)
(* keeps it, and its ncli, until the thread is to be switched away.        *)
(***************************************************************************)
EXTENDS Integers, Sequences

CONSTANTS Sender, Receiver, \* pids; the sets may overlap
          NoHolder,         \* holder of a free lock
          Msg,              \* message contents
          Zero, Junk,       \* an array element never written; what lies past it
          MSGBUFFSIZE       \* param.h

ASSUME RingAssumption == MSGBUFFSIZE \in Nat \ {0}
ASSUME HolderAssumption == NoHolder \notin Sender \cup Receiver
ASSUME JunkAssumption == Zero \notin Msg /\ Junk \notin Msg

VARIABLES front, rear, size, array,  \* struct queue
          qlock,                     \* ... and its spinlock's holder
          state,                     \* of struct proc, as far as sleep() goes
          step, to, item,            \* send's locals p and in_msg
          m, got,                    \* recv's m (an index), and what it copied
          panicked

ring == <<front, rear, size, array>>
msgvars == <<ring, qlock, state, step, to, item, m, got, panicked>>

Thread == Sender \cup Receiver
Index == 0..(MSGBUFFSIZE - 1)

\* msg_queue is static storage: all zeros.
MsgInit ==
  /\ front = [r \in Receiver |-> 0]
  /\ rear = [r \in Receiver |-> 0]
  /\ size = [r \in Receiver |-> 0]
  /\ array = [r \in Receiver |-> [i \in Index |-> Zero]]
  /\ qlock = [r \in Receiver |-> NoHolder]
  /\ state = [p \in Thread |-> "RUNNING"]
  /\ step = [p \in Thread |-> "user"]
  /\ to = [p \in Thread |-> NoHolder]
  /\ item = [p \in Thread |-> Zero]
  /\ m = [p \in Thread |-> 0]
  /\ got = [p \in Thread |-> Zero]
  /\ panicked = FALSE

At(p, point) == ~panicked /\ state[p] = "RUNNING" /\ step[p] = point
StepTo(p, point) == step' = [step EXCEPT ![p] = point]
Holds(p) == \E r \in Receiver : qlock[r] = p

\* acquire() of a lock that this CPU already holds.
AcquirePanics(p, r) ==
  /\ qlock[r] = p
  /\ panicked' = TRUE
  /\ UNCHANGED <<ring, qlock, state, step, to, item, m, got>>

-----------------------------------------------------------------------------
(* The ring buffer *)

\* Mutants: room for one more; the new element's index does not wrap in time.
EnqueueOverfull(r, x) ==
  /\ size[r] <= MSGBUFFSIZE
  /\ rear' = [rear EXCEPT ![r] = (@ + 1) % MSGBUFFSIZE]
  /\ array' = [array EXCEPT ![r][rear'[r]] = x]
  /\ size' = [size EXCEPT ![r] = @ + 1]
  /\ UNCHANGED front
EnqueueAtRear(r, x) ==
  /\ size[r] # MSGBUFFSIZE
  /\ array' = [array EXCEPT ![r][rear[r]] = x]
  /\ rear' = [rear EXCEPT ![r] = (@ + 1) % MSGBUFFSIZE]
  /\ size' = [size EXCEPT ![r] = @ + 1]
  /\ UNCHANGED front

enqueue(r, x) ==
  /\ size[r] # MSGBUFFSIZE
  /\ rear' = [rear EXCEPT ![r] = (@ + 1) % MSGBUFFSIZE]
  /\ array' = [array EXCEPT ![r][rear'[r]] = x]
  /\ size' = [size EXCEPT ![r] = @ + 1]
  /\ UNCHANGED front

dequeue(r) ==
  /\ size[r] # 0
  /\ front' = [front EXCEPT ![r] = (@ + 1) % MSGBUFFSIZE]
  /\ size' = [size EXCEPT ![r] = @ - 1]
  /\ UNCHANGED <<rear, array>>

\* What a pointer to element i of the array points to.
Element(r, i) == IF i \in Index THEN array[r][i] ELSE Junk

-----------------------------------------------------------------------------
(* send(pid, r, x) *)

\* The receiver's state is read without ptable.lock.
SendFind(p, r, x) ==
  /\ At(p, "user")
  /\ StepTo(p, IF state[r] = "SLEEPING" THEN "wakeup" ELSE "enqueue")
  /\ to' = [to EXCEPT ![p] = r]
  /\ item' = [item EXCEPT ![p] = x]
  /\ UNCHANGED <<ring, qlock, state, m, got, panicked>>

\* wakeup(p), before there is anything in the queue.
SendWakeup(p) ==
  /\ At(p, "wakeup")
  /\ state' = [state EXCEPT ![to[p]] = "RUNNING"]
  /\ StepTo(p, "enqueue")
  /\ UNCHANGED <<ring, qlock, to, item, m, got, panicked>>

SendReturns(p) ==
  /\ StepTo(p, "user")
  /\ to' = [to EXCEPT ![p] = NoHolder]
  /\ item' = [item EXCEPT ![p] = Zero]

SendEnqueue(p) ==
  /\ At(p, "enqueue")
  /\ qlock[to[p]] = NoHolder
  /\ enqueue(to[p], item[p])
  /\ SendReturns(p)
  /\ UNCHANGED <<qlock, state, m, got, panicked>>

\* return -1 with the lock held.
SendFull(p) ==
  /\ At(p, "enqueue")
  /\ qlock[to[p]] = NoHolder
  /\ size[to[p]] = MSGBUFFSIZE
  /\ qlock' = [qlock EXCEPT ![to[p]] = p]
  /\ SendReturns(p)
  /\ UNCHANGED <<ring, state, m, got, panicked>>

SendPanics(p) == At(p, "enqueue") /\ AcquirePanics(p, to[p])

-----------------------------------------------------------------------------
(* recv(msg) *)

\* size is read without the queue's lock.
RecvTest(p) ==
  /\ At(p, "user")
  /\ StepTo(p, IF size[p] = 0 THEN "sleep" ELSE "front")
  /\ UNCHANGED <<ring, qlock, state, to, item, m, got, panicked>>

\* sleep(curproc, &ptable.lock); sched() panics if another lock is held.
RecvSleep(p) ==
  /\ At(p, "sleep")
  /\ IF Holds(p)
     THEN panicked' = TRUE /\ UNCHANGED <<state, step>>
     ELSE /\ state' = [state EXCEPT ![p] = "SLEEPING"]
          /\ StepTo(p, "front")
          /\ UNCHANGED panicked
  /\ UNCHANGED <<ring, qlock, to, item, m, got>>

\* Mutant: front() of the queue before this one's first element.
RecvFrontOld(p) ==
  /\ At(p, "front")
  /\ m' = [m EXCEPT ![p] = front[p]]
  /\ StepTo(p, "dequeue")
  /\ UNCHANGED <<ring, qlock, state, to, item, got, panicked>>

\* m = front(...), before the lock is taken; the index is not reduced.
RecvFront(p) ==
  /\ At(p, "front")
  /\ m' = [m EXCEPT ![p] = front[p] + 1]
  /\ StepTo(p, "dequeue")
  /\ UNCHANGED <<ring, qlock, state, to, item, got, panicked>>

RecvDequeue(p) ==
  /\ At(p, "dequeue")
  /\ qlock[p] = NoHolder
  /\ dequeue(p)
  /\ got' = [got EXCEPT ![p] = Element(p, m[p])]
  /\ m' = [m EXCEPT ![p] = 0]
  /\ StepTo(p, "user")
  /\ UNCHANGED <<qlock, state, to, item, panicked>>

\* return -1 with the lock held.
RecvEmpty(p) ==
  /\ At(p, "dequeue")
  /\ qlock[p] = NoHolder
  /\ size[p] = 0
  /\ qlock' = [qlock EXCEPT ![p] = p]
  /\ m' = [m EXCEPT ![p] = 0]
  /\ StepTo(p, "user")
  /\ UNCHANGED <<ring, state, to, item, got, panicked>>

RecvPanics(p) == At(p, "dequeue") /\ AcquirePanics(p, p)

-----------------------------------------------------------------------------
\* exit() of a child wakes the channel recv() sleeps on; kill() wakes as well.
OtherWakeup(p) ==
  /\ ~panicked /\ state[p] = "SLEEPING"
  /\ state' = [state EXCEPT ![p] = "RUNNING"]
  /\ UNCHANGED <<ring, qlock, step, to, item, m, got, panicked>>

\* A timer interrupt in user space: yield() and sched(), which panics if the
\* CPU still holds a queue's lock and otherwise changes nothing here.
Preempt(p) ==
  /\ At(p, "user") /\ Holds(p)
  /\ panicked' = TRUE
  /\ UNCHANGED <<ring, qlock, state, step, to, item, m, got>>

Send(p) ==
  \/ \E r \in Receiver, x \in Msg : SendFind(p, r, x)
  \/ SendWakeup(p) \/ SendEnqueue(p) \/ SendFull(p) \/ SendPanics(p)
Recv(p) ==
  \/ RecvTest(p) \/ RecvSleep(p) \/ RecvFront(p)
  \/ RecvDequeue(p) \/ RecvEmpty(p) \/ RecvPanics(p)

\* After a panic, or once every thread spins for a lock that is never released,
\* nothing happens any more.
MsgNext ==
  \/ \E p \in Sender : Send(p)
  \/ \E p \in Receiver : Recv(p) \/ OtherWakeup(p)
  \/ \E p \in Thread : Preempt(p)

MsgSpec == MsgInit /\ [][MsgNext]_msgvars

-----------------------------------------------------------------------------
(* Properties *)

\* Indices stay inside the ring, and everything else in its type.
MsgTypeOK ==
  /\ front \in [Receiver -> Index] /\ rear \in [Receiver -> Index]
  /\ size \in [Receiver -> 0..MSGBUFFSIZE]
  /\ array \in [Receiver -> [Index -> Msg \cup {Zero}]]
  /\ qlock \in [Receiver -> Thread \cup {NoHolder}]
  /\ state \in [Thread -> {"RUNNING", "SLEEPING"}]
  /\ step \in [Thread -> {"user", "wakeup", "enqueue", "sleep", "front", "dequeue"}]
  /\ to \in [Thread -> Receiver \cup {NoHolder}]
  /\ item \in [Thread -> Msg \cup {Zero}]
  /\ m \in [Thread -> 0..MSGBUFFSIZE]
  /\ got \in [Thread -> Msg \cup {Zero, Junk}]
  /\ panicked \in BOOLEAN

\* The messages in the ring of r, oldest first.
Contents(r) == [i \in 1..size[r] |-> array[r][(front[r] + i) % MSGBUFFSIZE]]

Fifo == INSTANCE MsgFifo WITH pending <- [r \in Receiver |-> Contents(r)]

\* The rings of msg_queue implement bounded FIFOs, however sends and receives
\* interleave and wherever the indices wrap.
IsFifo == Fifo!Spec

\* recv() returns the oldest message although it takes the address of the
\* element before it has the lock, unless that element is the one past the end.
DeliveredInOrder ==
  [][\A p \in Receiver :
       size'[p] < size[p] /\ front[p] + 1 \in Index =>
         got'[p] = Head(Contents(p))]_msgvars

\* No wakeup is missed: nobody sleeps in recv() while a message waits for them.
NoLostMessage == \A p \in Receiver : state[p] = "SLEEPING" => size[p] = 0

=============================================================================
