------------------------------ MODULE Signals -------------------------------
(***************************************************************************)
(* Broadcast by send_multi() to sister processes that registered with      *)
(* store(), sleep in sleepcustom() and fetch the message with read_mean()  *)
(* (proc.c).  Neither the table of pairs nor mean_buffer has a lock, and   *)
(* wakeupcustom() calls wakeup1() without ptable.lock: its test of a state *)
(* and its write are two steps, and so are the two halves of store().      *)
(***************************************************************************)
EXTENDS Integers, FiniteSets

CONSTANTS Brother, Sister, Nobody, MaxMean     \* bound: number of broadcasts

ASSUME NobodyAssumption == Nobody \notin Sister

VARIABLES sis,         \* each sister: state, what she does, the broadcast that woke her, and
                       \* the map_len she read in store()
          pairs, map_len, mean,
          bro,         \* each brother: sisters still to wake, the one found asleep, his broadcast
          due          \* for each brother, the sisters asleep since before his broadcast

sigvars == <<sis, pairs, map_len, mean, bro, due>>

IdleBrother == [todo |-> {}, victim |-> Nobody, num |-> 0]
SigInit ==
  /\ sis = [s \in Sister |-> [state |-> "RUNNING", at |-> "start", woke |-> 0, idx |-> 0]]
  /\ pairs = [j \in 0..Cardinality(Sister) |-> Nobody]
  /\ map_len = 0 /\ mean = 0
  /\ bro = [b \in Brother |-> IdleBrother]
  /\ due = [b \in Brother |-> {}]

Sis(s, from, to) ==
  /\ sis[s].state = "RUNNING" /\ sis[s].at = from
  /\ sis' = [sis EXCEPT ![s].at = to]
AwakeNow(s) == due' = [b \in Brother |-> due[b] \ {s}]

\* store(): the entry, and map_len++.  Another store() may come between, and then the
\* increment is lost or not, as the compiler loads map_len once or twice.
store(s) ==
  /\ sis[s].state = "RUNNING" /\ sis[s].at = "start"
  /\ sis' = [sis EXCEPT ![s].at = "store", ![s].idx = map_len]
  /\ pairs' = [pairs EXCEPT ![map_len] = s]
  /\ UNCHANGED <<map_len, mean, bro, due>>
StoreNext(s) ==
  /\ Sis(s, "store", "user")
  /\ map_len' \in {map_len + 1, sis[s].idx + 1}
  /\ UNCHANGED <<pairs, mean, bro, due>>

\* sleepcustom(), under ptable.lock, and read_mean() after it.
sleepcustom(s) ==
  /\ sis[s].state = "RUNNING" /\ sis[s].at = "user"
  /\ sis' = [sis EXCEPT ![s].state = "SLEEPING", ![s].at = "sleep", ![s].woke = 0]
  /\ UNCHANGED <<pairs, map_len, mean, bro, due>>
read_mean(s) == Sis(s, "sleep", "user") /\ UNCHANGED <<pairs, map_len, mean, bro, due>>

\* exit() of a child wakes the channel of its parent, which is the one sleepcustom() uses.
ChildExits(s) ==
  /\ sis[s].state = "SLEEPING"
  /\ sis' = [sis EXCEPT ![s].state = "RUNNING"]
  /\ AwakeNow(s)
  /\ UNCHANGED <<pairs, map_len, mean, bro>>

\* kill() wakes a sleeper, which exits; a late WakeupWrite can still make her runnable.
KillSister(s) ==
  /\ sis[s].at # "exit"
  /\ sis' = [sis EXCEPT ![s].state = "ZOMBIE", ![s].at = "exit"]
  /\ AwakeNow(s)
  /\ UNCHANGED <<pairs, map_len, mean, bro>>

Registered == {pairs[j] : j \in 0..(map_len - 1)} \ {Nobody}

\* send_multi(): mean_buffer first, then the sisters of the receivers that are in the table.
\* Mutant: only the first receiver that is found is woken.
Receivers_one(S) == IF S \cap Registered = {} THEN {} ELSE {CHOOSE s \in S \cap Registered : TRUE}
Receivers(S) == S \cap Registered
\* Mutant: the message is stored when everyone has been woken.
MeanStored_late == mean
MeanStored == mean + 1
send_multi(b, S) ==
  /\ bro[b].todo = {} /\ bro[b].victim = Nobody /\ mean < MaxMean
  /\ mean' = MeanStored
  /\ bro' = [bro EXCEPT ![b] = [todo |-> Receivers(S), victim |-> Nobody, num |-> mean + 1]]
  /\ due' = [due EXCEPT ![b] = {s \in S \cap Registered : sis[s].state = "SLEEPING"}]
  /\ UNCHANGED <<sis, pairs, map_len>>

\* wakeupcustom() -> wakeup1(): the test, and the write.
WakeupTest(b, s) ==
  /\ s \in bro[b].todo /\ bro[b].victim = Nobody
  /\ bro' = [bro EXCEPT ![b].todo = @ \ {s},
                        ![b].victim = IF sis[s].state = "SLEEPING" THEN s ELSE Nobody]
  /\ UNCHANGED <<sis, pairs, map_len, mean, due>>
WakeupWrite(b) ==
  LET s == bro[b].victim IN
  /\ s # Nobody
  /\ sis' = [sis EXCEPT ![s].state = "RUNNING", ![s].woke = bro[b].num]
  /\ bro' = [bro EXCEPT ![b].victim = Nobody]
  /\ AwakeNow(s)
  /\ UNCHANGED <<pairs, map_len, mean>>

SigNext ==
  \/ \E s \in Sister : store(s) \/ StoreNext(s) \/ sleepcustom(s) \/ read_mean(s)
                    \/ ChildExits(s) \/ KillSister(s)
  \/ \E b \in Brother :
       \/ \E S \in SUBSET Sister : send_multi(b, S)
       \/ \E s \in Sister : WakeupTest(b, s)
       \/ WakeupWrite(b)

SigSpec == SigInit /\ [][SigNext]_sigvars

-----------------------------------------------------------------------------
(* Properties *)

\* When send_multi() returns, every registered sister of a receiver that was asleep when it
\* began has left that sleep, also when two broadcasts overlap or she is killed meanwhile.
SleepersTold ==
  \A b \in Brother : bro[b].todo = {} /\ bro[b].victim = Nobody => due[b] = {}

\* A sister that a broadcast has woken finds this broadcast in mean_buffer, or a later one.
WokenSeesMean == \A s \in Sister : sis[s].woke > 0 => mean >= sis[s].woke

\* A broadcast reaches every sister that sleeps, and with the mean.
BroadcastSound == SleepersTold /\ WokenSeesMean

=============================================================================
