-------------------------- MODULE UnlockedProofs ---------------------------
(***************************************************************************)
(* What proc.c does to its tables without their locks, for any sizes.      *)
(* Broadcasts reach every sleeping sister.  When calls do not overlap, the *)
(* container table is full only when it says so, no container is handed    *)
(* out twice, and no member is overwritten.  The message rings are bounded *)
(* FIFOs, although recv() looks for its message before it has their lock.  *)
(***************************************************************************)
EXTENDS Containers, Signals, Messages, TLAPS

(* Signals *)

SisterType == [state : {"RUNNING", "SLEEPING", "ZOMBIE"},
               at : {"start", "store", "user", "sleep", "exit"}, woke : Nat, idx : Int]
BrotherType == [todo : SUBSET Sister, victim : Sister \cup {Nobody}, num : Nat]
SigTypes ==
  /\ sis \in [Sister -> SisterType] /\ bro \in [Brother -> BrotherType]
  /\ due \in [Brother -> SUBSET Sister] /\ mean \in Nat /\ map_len \in Int

\* Whoever a broadcast still owes a wakeup sleeps, and is still to come or has just been
\* found asleep; nobody runs ahead of mean_buffer.
SigInv ==
  /\ SigTypes
  /\ \A b \in Brother : due[b] \subseteq bro[b].todo \cup {bro[b].victim}
  /\ \A b \in Brother : \A s \in due[b] : sis[s].state = "SLEEPING"
  /\ \A b \in Brother : bro[b].num <= mean
  /\ \A s \in Sister : sis[s].woke <= mean

\* In the beginning nobody is registered.
LEMMA SigInitInv == SigInit => SigInv
  <1> SUFFICES ASSUME SigInit PROVE SigInv
    BY Zenon
  <1>1. IdleBrother \in BrotherType
    BY Zenon DEF IdleBrother, BrotherType
  <1>2. SigTypes
    BY <1>1 DEF SigInit, SigTypes, SisterType
  <1> QED
    BY <1>2 DEF SigInit, SigInv, IdleBrother

\* What a sister does by herself.
LEMMA SisterSteps ==
  ASSUME SigInv, NEW s \in Sister,
         store(s) \/ StoreNext(s) \/ sleepcustom(s) \/ read_mean(s)
  PROVE  SigInv'
  <1>a. /\ UNCHANGED <<bro, due, mean>> /\ sis[s].state = "RUNNING"
        /\ SigTypes
    BY Zenon DEF store, StoreNext, sleepcustom, read_mean, Sis, SigInv
  <1>b. sis' \in [Sister -> SisterType] /\ map_len' \in Int
    BY <1>a DEF store, StoreNext, sleepcustom, read_mean, Sis, SigTypes, SisterType
  <1>c. /\ \A t \in Sister : t # s => sis'[t] = sis[t]
        /\ sis'[s].woke \in {sis[s].woke, 0}
    BY <1>a DEF store, StoreNext, sleepcustom, read_mean, Sis, SigTypes, SisterType
  <1>1. SigTypes'
    BY <1>a, <1>b, Zenon DEF SigTypes
  <1>2. \A b \in Brother : \A t \in due[b] : sis'[t].state = "SLEEPING"
    BY <1>a, <1>c, Zenon DEF SigInv, SigTypes
  <1>3. \A t \in Sister : sis'[t].woke <= mean
    BY <1>a, <1>c DEF SigInv, SigTypes
  <1> QED
    BY <1>a, <1>1, <1>2, <1>3, Zenon DEF SigInv

\* A sister that leaves her sleep, by the exit of a child, a kill or a broadcast, is owed
\* no wakeup any more.
LEMMA AwakeSteps ==
  ASSUME SigInv, NEW s \in Sister, AwakeNow(s),
         sis' \in [Sister -> SisterType], \A t \in Sister : t # s => sis'[t] = sis[t],
         sis'[s].woke <= mean, UNCHANGED <<map_len, mean>>,
         bro' \in [Brother -> BrotherType],
         \A b \in Brother : /\ bro'[b].todo = bro[b].todo /\ bro'[b].num = bro[b].num
                            /\ bro'[b].victim = bro[b].victim \/ bro[b].victim = s
  PROVE  SigInv'
  <1>1. due' \in [Brother -> SUBSET Sister] /\ \A b \in Brother : due'[b] = due[b] \ {s}
    BY Zenon DEF AwakeNow, SigInv, SigTypes
  <1>2. SigTypes'
    BY <1>1, Zenon DEF SigInv, SigTypes
  <1>3. \A b \in Brother : due'[b] \subseteq bro'[b].todo \cup {bro'[b].victim}
    BY <1>1, Zenon DEF SigInv
  <1>4. \A b \in Brother : \A t \in due'[b] : sis'[t].state = "SLEEPING"
    BY <1>1 DEF SigInv, SigTypes
  <1>5. /\ \A b \in Brother : bro'[b].num <= mean'
        /\ \A t \in Sister : sis'[t].woke <= mean'
    BY Zenon DEF SigInv
  <1> QED
    BY <1>2, <1>3, <1>4, <1>5, Zenon DEF SigInv

\* The exit of a child, and kill().
LEMMA OthersWake ==
  ASSUME SigInv, NEW s \in Sister, ChildExits(s) \/ KillSister(s)
  PROVE  SigInv'
  <1>1. /\ AwakeNow(s) /\ UNCHANGED <<map_len, mean, bro>>
        /\ sis' \in [Sister -> SisterType] /\ \A t \in Sister : t # s => sis'[t] = sis[t]
        /\ sis'[s].woke = sis[s].woke
    BY DEF ChildExits, KillSister, SigInv, SigTypes, SisterType
  <1>2. sis'[s].woke <= mean /\ bro' \in [Brother -> BrotherType]
    BY <1>1, Zenon DEF SigInv, SigTypes
  <1> QED
    BY <1>1, <1>2, AwakeSteps, Zenon

\* send_multi() stores the mean first.
LEMMA SendStep ==
  ASSUME SigInv, NEW b \in Brother, NEW S \in SUBSET Sister, send_multi(b, S)
  PROVE  SigInv'
  <1>a. SigTypes
    BY Zenon DEF SigInv
  <1>1. /\ mean' = mean + 1 /\ UNCHANGED <<sis, map_len>>
        /\ bro' = [bro EXCEPT ![b] = [todo |-> S \cap Registered, victim |-> Nobody, num |-> mean + 1]]
        /\ due' = [due EXCEPT ![b] = {s \in S \cap Registered : sis[s].state = "SLEEPING"}]
    BY Zenon DEF send_multi, MeanStored, Receivers
  <1>2. SigTypes'
    BY <1>a, <1>1 DEF SigTypes, BrotherType
  <1>3. \A c \in Brother : /\ due'[c] \subseteq bro'[c].todo \cup {bro'[c].victim}
                           /\ \A s \in due'[c] : sis[s].state = "SLEEPING"
    BY <1>a, <1>1, Zenon DEF SigInv, SigTypes
  <1>4. /\ \A c \in Brother : bro'[c].num <= mean'
        /\ \A s \in Sister : sis[s].woke <= mean'
    BY <1>a, <1>1 DEF SigInv, SigTypes, BrotherType, SisterType
  <1> QED
    BY <1>1, <1>2, <1>3, <1>4, Zenon DEF SigInv

\* wakeup1() passes over a sister only when she is not asleep.
LEMMA TestStep ==
  ASSUME SigInv, NEW b \in Brother, NEW s \in Sister, WakeupTest(b, s)
  PROVE  SigInv'
  <1>a. SigTypes
    BY Zenon DEF SigInv
  <1>1. /\ UNCHANGED <<sis, map_len, mean, due>> /\ bro[b].victim = Nobody
        /\ bro' = [bro EXCEPT ![b].todo = @ \ {s},
                              ![b].victim = IF sis[s].state = "SLEEPING" THEN s ELSE Nobody]
    BY Zenon DEF WakeupTest
  <1>2. SigTypes'
    <2>1. bro' \in [Brother -> BrotherType]
      <3> DEFINE v == IF sis[s].state = "SLEEPING" THEN s ELSE Nobody
      <3>1. v \in Sister \cup {Nobody}
        BY Zenon
      <3>2. bro' = [bro EXCEPT ![b].todo = @ \ {s}, ![b].victim = v]
        BY <1>1, Zenon
      <3> HIDE DEF v
      <3> QED
        BY <1>a, <3>1, <3>2, Zenon DEF SigTypes, BrotherType
    <2> QED
      BY <1>a, <1>1, <2>1, Zenon DEF SigTypes
  <1>3. \A c \in Brother : due[c] \subseteq bro'[c].todo \cup {bro'[c].victim}
    <2>1. \A c \in Brother : c # b => bro'[c] = bro[c]
      BY <1>a, <1>1, Zenon DEF SigTypes
    <2>2. bro'[b].todo = bro[b].todo \ {s} /\ (sis[s].state = "SLEEPING" => bro'[b].victim = s)
      BY <1>a, <1>1, Zenon DEF SigTypes, BrotherType
    <2>3. due[b] \subseteq bro[b].todo
      BY <1>a, <1>1, NobodyAssumption, Zenon DEF SigInv, SigTypes
    <2>4. due[b] \subseteq bro'[b].todo \cup {bro'[b].victim}
      BY <2>2, <2>3, Zenon DEF SigInv
    <2> QED
      BY <2>1, <2>4, Zenon DEF SigInv
  <1>4. \A c \in Brother : bro'[c].num <= mean
    BY <1>a, <1>1 DEF SigInv, SigTypes, BrotherType
  <1> QED
    BY <1>1, <1>2, <1>3, <1>4, Zenon DEF SigInv

\* wakeup1() wakes the sister it found asleep, whatever has become of her.
LEMMA WriteStep ==
  ASSUME SigInv, NEW b \in Brother, WakeupWrite(b)
  PROVE  SigInv'
  <1>a. SigTypes
    BY Zenon DEF SigInv
  <1> DEFINE s == bro[b].victim
  <1>1. s \in Sister /\ bro[b].num \in Nat /\ bro[b].num <= mean
    BY <1>a, Zenon DEF WakeupWrite, SigTypes, BrotherType, SigInv
  <1>2. /\ AwakeNow(s) /\ UNCHANGED <<map_len, mean>>
        /\ sis' = [sis EXCEPT ![s].state = "RUNNING", ![s].woke = bro[b].num]
        /\ bro' = [bro EXCEPT ![b].victim = Nobody]
    BY Zenon DEF WakeupWrite
  <1> HIDE DEF s
  <1>3. /\ sis' \in [Sister -> SisterType] /\ \A t \in Sister : t # s => sis'[t] = sis[t]
        /\ sis'[s].woke <= mean
    BY <1>a, <1>1, <1>2, Zenon DEF SigTypes, SisterType
  <1>4. /\ bro' \in [Brother -> BrotherType]
        /\ \A c \in Brother : /\ bro'[c].todo = bro[c].todo /\ bro'[c].num = bro[c].num
                              /\ bro'[c].victim = bro[c].victim \/ bro[c].victim = s
    BY <1>a, <1>1, <1>2, Zenon DEF SigTypes, BrotherType, s
  <1> QED
    BY <1>1, <1>2, <1>3, <1>4, AwakeSteps, Zenon

\* Every step preserves the invariant.
LEMMA SigNextInv == SigInv /\ [SigNext]_sigvars => SigInv'
  <1> SUFFICES ASSUME SigInv, [SigNext]_sigvars PROVE SigInv'
    BY Zenon
  <1>1. CASE UNCHANGED sigvars
    BY <1>1, Zenon DEF sigvars, SigInv, SigTypes
  <1> QED
    BY <1>1, SisterSteps, OthersWake, SendStep, TestStep, WriteStep, Zenon DEF SigNext

\* When send_multi() returns, no sister sleeps on that slept before it began, and whoever
\* it woke finds its message or a later one, however many broadcasts overlap.
THEOREM BroadcastsReach == SigSpec => []BroadcastSound
  <1>1. SigInv => BroadcastSound
    <2> SUFFICES ASSUME SigInv PROVE BroadcastSound
      BY Zenon
    <2>1. SleepersTold
      BY NobodyAssumption DEF SigInv, SigTypes, SleepersTold
    <2>2. WokenSeesMean
      BY Zenon DEF SigInv, SigTypes, SisterType, WokenSeesMean
    <2> QED
      BY <2>1, <2>2, Zenon DEF BroadcastSound
  <1> QED
    BY <1>1, SigInitInv, SigNextInv, PTL DEF SigSpec

-----------------------------------------------------------------------------
(* Containers *)

\* At most one call is in progress.
Serial == \A p, q \in Proc : pc[p] # "idle" /\ pc[q] # "idle" => p = q

\* Where a call is says what it has found and not yet written.
Free(i) == i \in Container /\ c_active[i] = 0
CallInv ==
  \A p \in Proc :
    /\ pc[p] = "mark" => id[p] = c_pointer /\ Free(id[p])
    /\ pc[p] = "scan" => id[p] = c_pointer /\ id[p] \in Container /\ c_active[id[p]] = 1
    /\ pc[p] = "write" =>
         /\ next[p] \in Container \cup {-1}
         /\ IF next[p] = -1 THEN \A i \in Container : c_active[i] = 1 ELSE Free(next[p])
    /\ pc[p] \in {"test", "offer"} => Free(id[p])
    /\ pc[p] = "offer" => c_pointer = -1
    /\ pc[p] = "store" => /\ id[p] \in Container /\ next[p] \in Entry
                          /\ process_active[id[p]][next[p]] = 0
    /\ pc[p] = "jscan" => id[p] \in Container
    /\ pc[p] = "jwrite" => /\ id[p] \in Container /\ next[p] \in Entry \cup {-1}
                           /\ next[p] # -1 => process_active[id[p]][next[p]] = 0

\* Unless a call is about to move it, c_pointer is at a free container, or at none when
\* all are in use.
PointerInv ==
  /\ (\A p \in Proc : pc[p] \notin {"scan", "write"}) /\ c_pointer # -1 => Free(c_pointer)
  /\ (\A p \in Proc : pc[p] \notin {"test", "offer"}) /\ c_pointer = -1 =>
       \A i \in Container : c_active[i] = 1
  /\ \A p \in Proc : pc[p] \in {"test", "offer"} /\ c_pointer = -1 =>
       \A i \in Container : i # id[p] => c_active[i] = 1

\* The same of the containers' process_pointer, but for a container that is being joined.
EntryInv ==
  \A i \in Container :
    process_pointer[i] # -1 =>
      \/ process_active[i][process_pointer[i]] = 0
      \/ \E p \in Proc : pc[p] \in {"jscan", "jwrite"} /\ id[p] = i

CInv == TypeOK /\ Serial /\ CallInv /\ PointerInv /\ EntryInv

\* Indices are not -1.
LEMMA Indices ==
  /\ -1 \notin Container /\ -1 \notin Entry /\ 0 \in Container /\ 0 \in Entry
  BY SizeAssumption DEF Container, Entry

\* The scan for the next free index finds a free one, or there is none but where it began.
LEMMA ScanFinds ==
  ASSUME NEW a, DOMAIN a \subseteq Nat, \A i \in DOMAIN a : a[i] \in {0, 1}, NEW from \in Int,
         NEW n, NextFree(n, a, from)
  PROVE  /\ n # -1 => n \in DOMAIN a /\ a[n] = 0
         /\ n = -1 => \A i \in DOMAIN a : i # from => a[i] = 1
  <1> DEFINE F == {i \in DOMAIN a : a[i] = 0}
             After == {i \in F : i > from}
             Before == {i \in F : i < from}
  <1>2. \/ n \in After
        \/ n \in Before
        \/ After = {} /\ Before = {} /\ n = -1
    BY Zenon DEF NextFree
  <1>3. n \in After \/ n \in Before => n \in DOMAIN a /\ a[n] = 0 /\ n # -1
    OBVIOUS
  <1>4. After = {} /\ Before = {} => \A i \in DOMAIN a : i # from => a[i] = 1
    <2> SUFFICES ASSUME After = {}, Before = {}, NEW i \in DOMAIN a, i # from PROVE a[i] = 1
      BY Zenon
    <2>1. i > from \/ i < from
      OBVIOUS
    <2>2. a[i] # 0
      BY <2>1, Zenon
    <2> QED
      BY <2>2, Zenon
  <1> QED
    BY <1>2, <1>3, <1>4, Zenon

\* So it does for the containers.
LEMMA ContainerScan ==
  ASSUME NEW a \in [Container -> {0, 1}], NEW from \in Int, NEW n, NextFree(n, a, from)
  PROVE  /\ n # -1 => n \in Container /\ a[n] = 0
         /\ n = -1 => \A i \in Container : i # from => a[i] = 1
  <1>1. DOMAIN a = Container /\ Container \subseteq Nat
    BY SizeAssumption DEF Container
  <1>2. \A i \in DOMAIN a : a[i] \in {0, 1}
    BY Zenon
  <1> QED
    BY <1>1, <1>2, ScanFinds, Zenon

\* So it does for the entries of a container.
LEMMA EntryScan ==
  ASSUME NEW a \in [Entry -> {0, 1}], NEW from \in Int, NEW n, NextFree(n, a, from)
  PROVE  n # -1 => n \in Entry /\ a[n] = 0
  <1>1. DOMAIN a = Entry /\ Entry \subseteq Nat
    BY SizeAssumption DEF Entry
  <1>2. \A i \in DOMAIN a : a[i] \in {0, 1}
    BY Zenon
  <1> QED
    BY <1>1, <1>2, ScanFinds, Zenon

\* The table is empty when the system starts.
LEMMA InitCInv == Init => CInv
  BY Indices DEF Init, CInv, TypeOK, Serial, CallInv, PointerInv, EntryInv, Free

-----------------------------------------------------------------------------
(* create_container() *)

\* Whoever is in a call is alone.
LEMMA Alone ==
  ASSUME CInv, NEW p \in Proc, pc[p] # "idle"
  PROVE  \A q \in Proc : q # p => pc[q] = "idle"
  BY Zenon DEF CInv, Serial

\* A call begins only between calls.
LEMMA BeginsAlone ==
  ASSUME ~Overlap, NEW p \in Proc, Begins(p)
  PROVE  \A q \in Proc : pc[q] = "idle"
  BY Zenon DEF Begins

\* create_container() takes the container at c_pointer.
LEMMA CreateTakeStep ==
  ASSUME CInv, ~Overlap, NEW p \in Proc, CreateTake(p)
  PROVE  CInv'
  <1>a. /\ \A q \in Proc : pc[q] = "idle" /\ TypeOK /\ PointerInv /\ EntryInv
    BY BeginsAlone, Zenon DEF CreateTake, CInv
  <1>b. /\ c_pointer # -1 /\ pc' = [pc EXCEPT ![p] = "mark"] /\ id' = [id EXCEPT ![p] = c_pointer]
        /\ UNCHANGED <<c_active, c_pointer, process_active, process_pointer, process_table, container_id,
                       next>>
    BY Zenon DEF CreateTake, Goes, ctable, members
  <1>c. /\ Free(c_pointer) /\ \A q \in Proc : pc'[q] = (IF q = p THEN "mark" ELSE "idle")
        /\ id'[p] = c_pointer
    BY <1>a, <1>b, Zenon DEF PointerInv, TypeOK
  <1>1. TypeOK'
    BY <1>a, <1>b, Zenon DEF TypeOK
  <1>2. Serial' /\ CallInv'
    BY <1>b, <1>c DEF Serial, CallInv, Free
  <1>3. PointerInv' /\ EntryInv'
    BY <1>a, <1>b, <1>c, Zenon DEF PointerInv, EntryInv, Free
  <1> QED
    BY <1>1, <1>2, <1>3, Zenon DEF CInv

\* It marks it and empties it.
LEMMA CreateMarkStep ==
  ASSUME CInv, NEW p \in Proc, CreateMark(p)
  PROVE  CInv'
  <1>a. /\ pc[p] = "mark" /\ id[p] = c_pointer /\ Free(c_pointer)
        /\ \A q \in Proc : q # p => pc[q] = "idle"
        /\ TypeOK /\ PointerInv /\ EntryInv
    BY Alone, Zenon DEF CreateMark, Goes, CInv, CallInv
  <1>b. /\ pc' = [pc EXCEPT ![p] = "scan"] /\ c_active' = [c_active EXCEPT ![c_pointer] = 1]
        /\ process_active' = [process_active EXCEPT ![c_pointer] = [e \in Entry |-> 0]]
        /\ process_pointer' = [process_pointer EXCEPT ![c_pointer] = 0]
        /\ process_table' = [process_table EXCEPT ![c_pointer] = [e \in Entry |-> NoProc]]
        /\ UNCHANGED <<c_pointer, container_id, id, next>>
    BY <1>a, Zenon DEF CreateMark, Goes
  <1>c. /\ c_pointer \in Container /\ c_pointer # -1 /\ c_active'[c_pointer] = 1
        /\ \A q \in Proc : pc'[q] = (IF q = p THEN "scan" ELSE "idle")
    BY <1>a, <1>b, Indices, Zenon DEF Free, TypeOK
  <1>1. TypeOK'
    BY <1>a, <1>b, <1>c, Indices, Zenon DEF TypeOK
  <1>2. Serial' /\ CallInv' /\ PointerInv'
    BY <1>a, <1>b, <1>c DEF Serial, CallInv, PointerInv, Free
  <1>3. EntryInv'
    <2>1. ASSUME NEW i \in Container, process_pointer'[i] # -1
          PROVE  process_active'[i][process_pointer'[i]] = 0
      <3>1. CASE i = c_pointer
        BY <1>a, <1>b, <3>1, Indices, Zenon DEF TypeOK
      <3>2. CASE i # c_pointer
        <4>1. process_pointer'[i] = process_pointer[i] /\ process_active'[i] = process_active[i]
          BY <1>a, <1>b, <3>2, Zenon DEF TypeOK
        <4> QED
          BY <1>a, <2>1, <4>1, Zenon DEF EntryInv
      <3> QED
        BY <3>1, <3>2, Zenon
    <2> QED
      BY <2>1, Zenon DEF EntryInv
  <1> QED
    BY <1>1, <1>2, <1>3, Zenon DEF CInv

\* It looks for the next free one ...
LEMMA CreateScanStep ==
  ASSUME CInv, NEW p \in Proc, CreateScan(p)
  PROVE  CInv'
  <1>a. /\ pc[p] = "scan" /\ id[p] = c_pointer /\ c_pointer \in Container /\ c_active[c_pointer] = 1
        /\ \A q \in Proc : q # p => pc[q] = "idle"
        /\ TypeOK /\ PointerInv /\ EntryInv
    BY Alone, Zenon DEF CreateScan, Goes, CInv, CallInv
  <1>b. PICK n \in Container \cup {-1} :
          /\ NextFree(n, c_active, c_pointer) /\ next' = [next EXCEPT ![p] = n]
          /\ pc' = [pc EXCEPT ![p] = "write"]
          /\ UNCHANGED <<c_active, c_pointer, process_active, process_pointer, process_table,
                         container_id, id>>
    BY Zenon DEF CreateScan, Goes, ctable, members
  <1>c. /\ n # -1 => Free(n)
        /\ n = -1 => \A i \in Container : c_active[i] = 1
    <2>1. c_active \in [Container -> {0, 1}] /\ c_pointer \in Int
      BY <1>a, SizeAssumption DEF Container, TypeOK
    <2>2. /\ n # -1 => n \in Container /\ c_active[n] = 0
          /\ n = -1 => \A i \in Container : i # c_pointer => c_active[i] = 1
      BY <1>b, <2>1, ContainerScan, Zenon
    <2> QED
      BY <1>a, <2>2, Zenon DEF Free
  <1>d. /\ next'[p] = n /\ \A q \in Proc : pc'[q] = (IF q = p THEN "write" ELSE "idle")
        /\ c_pointer # -1
    BY <1>a, <1>b, Indices, Zenon DEF TypeOK
  <1>1. TypeOK'
    BY <1>a, <1>b, Zenon DEF TypeOK
  <1>2. Serial' /\ CallInv' /\ PointerInv'
    BY <1>a, <1>b, <1>c, <1>d DEF Serial, CallInv, PointerInv, Free
  <1>3. EntryInv'
    BY <1>a, <1>b, Zenon DEF EntryInv
  <1> QED
    BY <1>1, <1>2, <1>3, Zenon DEF CInv

\* ... and moves c_pointer there.
LEMMA CreateWriteStep ==
  ASSUME CInv, NEW p \in Proc, CreateWrite(p)
  PROVE  CInv'
  <1>a. /\ pc[p] = "write" /\ next[p] \in Container \cup {-1}
        /\ (next[p] = -1 => \A i \in Container : c_active[i] = 1)
        /\ (next[p] # -1 => Free(next[p]))
        /\ \A q \in Proc : q # p => pc[q] = "idle"
        /\ TypeOK /\ EntryInv
    BY Alone, Zenon DEF CreateWrite, Returns, Goes, CInv, CallInv
  <1>b. /\ pc' = [pc EXCEPT ![p] = "idle"] /\ c_pointer' = next[p]
        /\ id' = [id EXCEPT ![p] = -1] /\ next' = [next EXCEPT ![p] = -1]
        /\ UNCHANGED <<c_active, process_active, process_pointer, process_table, container_id>>
    BY Zenon DEF CreateWrite, Returns, Goes, members
  <1>c. \A q \in Proc : pc'[q] = "idle"
    BY <1>a, <1>b, Zenon DEF TypeOK
  <1>1. TypeOK'
    BY <1>a, <1>b, Zenon DEF TypeOK
  <1>2. Serial' /\ CallInv' /\ PointerInv'
    BY <1>a, <1>b, <1>c, Zenon DEF Serial, CallInv, PointerInv, Free
  <1>3. EntryInv'
    BY <1>a, <1>b, Zenon DEF EntryInv
  <1> QED
    BY <1>1, <1>2, <1>3, Zenon DEF CInv

-----------------------------------------------------------------------------
(* destroy_container(i) *)

\* destroy_container() frees a container ...
LEMMA DestroyMarkStep ==
  ASSUME CInv, ~Overlap, NEW p \in Proc, NEW i, DestroyMark(p, i)
  PROVE  CInv'
  <1>a. (\A q \in Proc : pc[q] = "idle") /\ TypeOK /\ PointerInv /\ EntryInv
    BY BeginsAlone, Zenon DEF DestroyMark, CInv
  <1>b. /\ i \in Container /\ pc' = [pc EXCEPT ![p] = "test"]
        /\ c_active' = [c_active EXCEPT ![i] = 0] /\ id' = [id EXCEPT ![p] = i]
        /\ UNCHANGED <<c_pointer, process_active, process_pointer, process_table, container_id, next>>
    BY Zenon DEF DestroyMark, Goes, members
  <1>c. /\ \A q \in Proc : pc'[q] = (IF q = p THEN "test" ELSE "idle")
        /\ id'[p] = i
        /\ \A j \in Container : c_active'[j] = (IF j = i THEN 0 ELSE c_active[j])
    BY <1>a, <1>b, Zenon DEF TypeOK
  <1>1. TypeOK'
    BY <1>a, <1>b, Zenon DEF TypeOK
  <1>2. Serial' /\ CallInv'
    BY <1>b, <1>c DEF Serial, CallInv, Free
  <1>3. PointerInv'
    <2>1. c_pointer # -1 => c_pointer \in Container /\ c_active[c_pointer] = 0
      BY <1>a, Zenon DEF PointerInv, Free
    <2>2. c_pointer = -1 => \A j \in Container : c_active[j] = 1
      BY <1>a, Zenon DEF PointerInv
    <2> QED
      BY <1>b, <1>c, <2>1, <2>2 DEF PointerInv, Free
  <1>4. EntryInv'
    BY <1>a, <1>b, Zenon DEF EntryInv
  <1> QED
    BY <1>1, <1>2, <1>3, <1>4, Zenon DEF CInv

\* ... looks whether the table was full ...
LEMMA DestroyTestStep ==
  ASSUME CInv, NEW p \in Proc, DestroyTest(p)
  PROVE  CInv'
  <1>a. /\ pc[p] = "test" /\ Free(id[p]) /\ \A q \in Proc : q # p => pc[q] = "idle"
        /\ TypeOK /\ PointerInv /\ EntryInv
    BY Alone, Zenon DEF DestroyTest, Returns, Goes, CInv, CallInv
  <1>b. UNCHANGED <<c_active, c_pointer, process_active, process_pointer, process_table, container_id>>
    BY Zenon DEF DestroyTest, ctable, members
  <1>c. EntryInv'
    BY <1>a, <1>b, Zenon DEF EntryInv
  <1>1. CASE c_pointer = -1
    <2>1. pc' = [pc EXCEPT ![p] = "offer"] /\ UNCHANGED <<id, next>>
      BY <1>1, Zenon DEF DestroyTest, Goes
    <2>2. \A q \in Proc : pc'[q] = (IF q = p THEN "offer" ELSE "idle")
      BY <1>a, <2>1, Zenon DEF TypeOK
    <2>3. TypeOK'
      BY <1>a, <1>b, <2>1, Zenon DEF TypeOK
    <2>4. Serial' /\ CallInv'
      BY <1>a, <1>b, <1>1, <2>1, <2>2 DEF Serial, CallInv, Free
    <2>5. PointerInv'
      BY <1>a, <1>b, <1>1, <2>1, <2>2, Zenon DEF PointerInv, Free
    <2> QED
      BY <1>c, <2>3, <2>4, <2>5, Zenon DEF CInv
  <1>2. CASE c_pointer # -1
    <2>1. /\ pc' = [pc EXCEPT ![p] = "idle"]
          /\ id' = [id EXCEPT ![p] = -1] /\ next' = [next EXCEPT ![p] = -1]
      BY <1>2, Zenon DEF DestroyTest, Returns, Goes
    <2>2. \A q \in Proc : pc'[q] = "idle"
      BY <1>a, <2>1, Zenon DEF TypeOK
    <2>3. TypeOK'
      BY <1>a, <1>b, <2>1, Zenon DEF TypeOK
    <2>4. Serial' /\ CallInv'
      BY <2>2, Zenon DEF Serial, CallInv
    <2>5. PointerInv'
      BY <1>a, <1>b, <1>2, <2>2, Zenon DEF PointerInv, Free
    <2> QED
      BY <1>c, <2>3, <2>4, <2>5, Zenon DEF CInv
  <1> QED
    BY <1>1, <1>2, Zenon

\* ... and if it was, offers the freed one.
LEMMA DestroyOfferStep ==
  ASSUME CInv, NEW p \in Proc, DestroyOffer(p)
  PROVE  CInv'
  <1>a. /\ pc[p] = "offer" /\ Free(id[p]) /\ \A q \in Proc : q # p => pc[q] = "idle"
        /\ TypeOK /\ EntryInv
    BY Alone, Zenon DEF DestroyOffer, Returns, Goes, CInv, CallInv
  <1>b. /\ pc' = [pc EXCEPT ![p] = "idle"] /\ c_pointer' = id[p]
        /\ id' = [id EXCEPT ![p] = -1] /\ next' = [next EXCEPT ![p] = -1]
        /\ UNCHANGED <<c_active, process_active, process_pointer, process_table, container_id>>
    BY Zenon DEF DestroyOffer, Returns, Goes, members
  <1>c. \A q \in Proc : pc'[q] = "idle"
    BY <1>a, <1>b, Zenon DEF TypeOK
  <1>1. TypeOK'
    BY <1>a, <1>b, Zenon DEF TypeOK
  <1>2. Serial' /\ CallInv'
    BY <1>c, Zenon DEF Serial, CallInv
  <1>3. PointerInv'
    BY <1>a, <1>b, <1>c, Indices, Zenon DEF PointerInv, Free
  <1>4. EntryInv'
    BY <1>a, <1>b, Zenon DEF EntryInv
  <1> QED
    BY <1>1, <1>2, <1>3, <1>4, Zenon DEF CInv

-----------------------------------------------------------------------------
(* join_container(i) and leave_container() *)

\* join_container() takes the entry at process_pointer.
LEMMA JoinTakeStep ==
  ASSUME CInv, ~Overlap, NEW p \in Proc, NEW i, JoinTake(p, i)
  PROVE  CInv'
  <1>a. (\A q \in Proc : pc[q] = "idle") /\ TypeOK /\ PointerInv /\ EntryInv
    BY BeginsAlone, Zenon DEF JoinTake, CInv
  <1>b. /\ i \in Container /\ process_pointer[i] # -1 /\ pc' = [pc EXCEPT ![p] = "store"]
        /\ id' = [id EXCEPT ![p] = i] /\ next' = [next EXCEPT ![p] = process_pointer[i]]
        /\ UNCHANGED <<c_active, c_pointer, process_active, process_pointer, process_table, container_id>>
    BY Zenon DEF JoinTake, Goes, ctable, members
  <1>c. /\ \A q \in Proc : pc'[q] = (IF q = p THEN "store" ELSE "idle")
        /\ id'[p] = i /\ next'[p] = process_pointer[i]
        /\ process_pointer[i] \in Entry /\ process_active[i][process_pointer[i]] = 0
    BY <1>a, <1>b, Zenon DEF TypeOK, EntryInv
  <1>1. TypeOK'
    BY <1>a, <1>b, Zenon DEF TypeOK
  <1>2. Serial' /\ CallInv'
    BY <1>b, <1>c DEF Serial, CallInv
  <1>3. PointerInv'
    BY <1>a, <1>b, <1>c, Zenon DEF PointerInv, Free
  <1>4. EntryInv'
    BY <1>a, <1>b, Zenon DEF EntryInv
  <1> QED
    BY <1>1, <1>2, <1>3, <1>4, Zenon DEF CInv

\* It stores the caller there ...
LEMMA JoinStoreStep ==
  ASSUME CInv, NEW p \in Proc, JoinStore(p)
  PROVE  CInv'
  <1> DEFINE i == id[p]
             e == next[p]
  <1>a. /\ pc[p] = "store" /\ i \in Container /\ e \in Entry
        /\ \A q \in Proc : q # p => pc[q] = "idle"
        /\ TypeOK /\ PointerInv /\ EntryInv
    BY Alone, Zenon DEF JoinStore, Goes, CInv, CallInv
  <1>b. /\ pc' = [pc EXCEPT ![p] = "jscan"]
        /\ process_table' = [process_table EXCEPT ![i][e] = p]
        /\ process_active' = [process_active EXCEPT ![i][e] = 1]
        /\ UNCHANGED <<c_active, c_pointer, process_pointer, container_id, id, next>>
    BY Zenon DEF JoinStore, Goes, ctable
  <1>c. \A q \in Proc : pc'[q] = (IF q = p THEN "jscan" ELSE "idle")
    BY <1>a, <1>b, Zenon DEF TypeOK
  <1>1. TypeOK'
    <2>1. process_table' \in [Container -> [Entry -> Proc \cup {NoProc}]]
      BY <1>a, <1>b, Zenon DEF TypeOK
    <2>2. process_active' \in [Container -> [Entry -> {0, 1}]]
      BY <1>a, <1>b, Zenon DEF TypeOK
    <2>3. pc' \in [Proc -> {"idle", "mark", "scan", "write", "test", "offer", "store", "jscan", "jwrite"}]
      BY <1>a, <1>b, Zenon DEF TypeOK
    <2> QED
      BY <1>a, <1>b, <2>1, <2>2, <2>3, Zenon DEF TypeOK
  <1>2. Serial' /\ CallInv'
    BY <1>a, <1>b, <1>c DEF Serial, CallInv
  <1>3. PointerInv'
    BY <1>a, <1>b, <1>c, Zenon DEF PointerInv, Free
  <1>4. EntryInv'
    <2> SUFFICES ASSUME NEW j \in Container, process_pointer'[j] # -1, j # i
                 PROVE  process_active'[j][process_pointer'[j]] = 0
      BY <1>b, <1>c, Zenon DEF EntryInv
    <2>1. process_active'[j] = process_active[j] /\ process_pointer'[j] = process_pointer[j]
      BY <1>a, <1>b, Zenon DEF TypeOK
    <2> QED
      BY <1>a, <2>1, Zenon DEF EntryInv
  <1> QED
    BY <1>1, <1>2, <1>3, <1>4, Zenon DEF CInv

\* ... looks for the next free entry ...
LEMMA JoinScanStep ==
  ASSUME CInv, NEW p \in Proc, JoinScan(p)
  PROVE  CInv'
  <1>a. /\ pc[p] = "jscan" /\ id[p] \in Container
        /\ \A q \in Proc : q # p => pc[q] = "idle"
        /\ TypeOK /\ PointerInv /\ EntryInv
    BY Alone, Zenon DEF JoinScan, Goes, CInv, CallInv
  <1>b. PICK n \in Entry \cup {-1} :
          /\ NextFree(n, process_active[id[p]], c_pointer) /\ next' = [next EXCEPT ![p] = n]
          /\ pc' = [pc EXCEPT ![p] = "jwrite"]
          /\ UNCHANGED <<c_active, c_pointer, process_active, process_pointer, process_table,
                         container_id, id>>
    BY Zenon DEF JoinScan, Goes, ctable, members
  <1>c. n # -1 => process_active[id[p]][n] = 0
    <2>1. process_active[id[p]] \in [Entry -> {0, 1}] /\ c_pointer \in Int
      BY <1>a, SizeAssumption DEF Container, TypeOK
    <2> QED
      BY <1>b, <2>1, EntryScan, Zenon
  <1>d. next'[p] = n /\ \A q \in Proc : pc'[q] = (IF q = p THEN "jwrite" ELSE "idle")
    BY <1>a, <1>b, Zenon DEF TypeOK
  <1>1. TypeOK'
    BY <1>a, <1>b, Zenon DEF TypeOK
  <1>2. Serial' /\ CallInv'
    BY <1>a, <1>b, <1>c, <1>d DEF Serial, CallInv
  <1>3. PointerInv'
    BY <1>a, <1>b, <1>d, Zenon DEF PointerInv, Free
  <1>4. EntryInv'
    BY <1>a, <1>b, <1>d DEF EntryInv
  <1> QED
    BY <1>1, <1>2, <1>3, <1>4, Zenon DEF CInv

\* ... and moves process_pointer there.
LEMMA JoinWriteStep ==
  ASSUME CInv, NEW p \in Proc, JoinWrite(p)
  PROVE  CInv'
  <1> DEFINE i == id[p]
             n == next[p]
  <1>a. /\ pc[p] = "jwrite" /\ i \in Container /\ n \in Entry \cup {-1}
        /\ (n # -1 => process_active[i][n] = 0)
        /\ \A q \in Proc : q # p => pc[q] = "idle"
        /\ TypeOK /\ PointerInv /\ EntryInv
    BY Alone, Zenon DEF JoinWrite, Returns, Goes, CInv, CallInv
  <1>b. /\ pc' = [pc EXCEPT ![p] = "idle"]
        /\ process_pointer' = [process_pointer EXCEPT ![i] = n]
        /\ id' = [id EXCEPT ![p] = -1] /\ next' = [next EXCEPT ![p] = -1]
        /\ UNCHANGED <<c_active, c_pointer, process_active, process_table, container_id>>
    BY Zenon DEF JoinWrite, Returns, Goes, ctable
  <1>c. \A q \in Proc : pc'[q] = "idle"
    BY <1>a, <1>b, Zenon DEF TypeOK
  <1>1. TypeOK'
    BY <1>a, <1>b, Zenon DEF TypeOK
  <1>2. Serial' /\ CallInv'
    BY <1>c, Zenon DEF Serial, CallInv
  <1>3. PointerInv'
    BY <1>a, <1>b, <1>c, Zenon DEF PointerInv, Free
  <1>4. EntryInv'
    <2> SUFFICES ASSUME NEW j \in Container, process_pointer'[j] # -1
                 PROVE  process_active'[j][process_pointer'[j]] = 0
      BY Zenon DEF EntryInv
    <2>1. process_pointer'[j] = IF j = i THEN n ELSE process_pointer[j]
      BY <1>a, <1>b, Zenon DEF TypeOK
    <2>2. j # i => ~ \E q \in Proc : pc[q] \in {"jscan", "jwrite"} /\ id[q] = j
      BY <1>a, Zenon
    <2> QED
      BY <1>a, <1>b, <2>1, <2>2 DEF EntryInv
  <1> QED
    BY <1>1, <1>2, <1>3, <1>4, Zenon DEF CInv

\* leave_container() only clears entries.
LEMMA LeaveClears ==
  ASSUME CInv, NEW p \in Proc, Leave(p)
  PROVE  /\ process_active' \in [Container -> [Entry -> {0, 1}]]
         /\ \A i \in Container, e \in Entry :
              process_active'[i][e] = 0 \/ process_active'[i][e] = process_active[i][e]
  <1> DEFINE i == container_id[p]
             ok == IF i \in Container THEN c_active[i] # 0 ELSE FALSE
             row == [e \in Entry |-> IF e \in Mine(p, i) /\ \A f \in Mine(p, i) : e <= f
                                     THEN 0 ELSE process_active[i][e]]
  <1>1. process_active' = IF ok THEN [process_active EXCEPT ![i] = row] ELSE process_active
    BY Zenon DEF Leave
  <1>2. process_active \in [Container -> [Entry -> {0, 1}]]
    BY Zenon DEF CInv, TypeOK
  <1>3. CASE ~ok
    BY <1>1, <1>2, <1>3, Zenon
  <1>4. CASE ok
    <2>1. i \in Container /\ process_active' = [process_active EXCEPT ![i] = row]
      BY <1>1, <1>4, Zenon
    <2>2. /\ row \in [Entry -> {0, 1}]
          /\ \A e \in Entry : row[e] = 0 \/ row[e] = process_active[i][e]
      BY <1>2, <2>1, Zenon
    <2> HIDE DEF row, i
    <2> QED
      BY <1>2, <2>1, <2>2, Zenon
  <1> QED
    BY <1>3, <1>4, Zenon

\* It keeps the invariant.
LEMMA LeaveStep ==
  ASSUME CInv, ~Overlap, NEW p \in Proc, Leave(p)
  PROVE  CInv'
  <1>a. (\A q \in Proc : pc[q] = "idle") /\ TypeOK /\ PointerInv /\ EntryInv
    BY BeginsAlone, Zenon DEF Leave, CInv
  <1>b. UNCHANGED <<c_active, c_pointer, process_pointer, process_table, container_id, pc, id, next>>
    BY Zenon DEF Leave, ctable
  <1>1. TypeOK'
    BY <1>a, <1>b, LeaveClears, Zenon DEF TypeOK
  <1>2. Serial' /\ CallInv'
    BY <1>a, <1>b, Zenon DEF Serial, CallInv
  <1>3. PointerInv'
    BY <1>a, <1>b, Zenon DEF PointerInv, Free
  <1>4. EntryInv'
    <2> SUFFICES ASSUME NEW j \in Container, process_pointer[j] # -1
                 PROVE  process_active'[j][process_pointer[j]] = 0
      BY <1>b, Zenon DEF EntryInv
    <2>1. process_pointer[j] \in Entry /\ process_active[j][process_pointer[j]] = 0
      BY <1>a, Zenon DEF TypeOK, EntryInv
    <2> QED
      BY <2>1, LeaveClears, Zenon
  <1> QED
    BY <1>1, <1>2, <1>3, <1>4, Zenon DEF CInv

-----------------------------------------------------------------------------
(* The theorems *)

\* Every step keeps the invariant.
LEMMA StepCInv ==
  ASSUME CInv, ~Overlap, [Next]_vars
  PROVE  CInv'
  <1>1. CASE UNCHANGED vars
    <2>1. UNCHANGED <<c_active, c_pointer, process_active, process_pointer, process_table,
                      container_id, pc, id, next>>
      BY <1>1, Zenon DEF vars, ctable, members
    <2> QED
      BY <2>1 DEF CInv, TypeOK, Serial, CallInv, PointerInv, EntryInv, Free
  <1>2. ASSUME NEW p \in Proc, Create(p) PROVE CInv'
    BY <1>1, <1>2, CreateTakeStep, CreateMarkStep, CreateScanStep, CreateWriteStep, Zenon
       DEF Create, CreateFull
  <1>3. ASSUME NEW p \in Proc, Destroy(p) PROVE CInv'
    BY <1>1, <1>3, DestroyMarkStep, DestroyTestStep, DestroyOfferStep, Zenon DEF Destroy,
       DestroyFail
  <1>4. ASSUME NEW p \in Proc, Join(p) PROVE CInv'
    BY <1>1, <1>4, JoinTakeStep, JoinStoreStep, JoinScanStep, JoinWriteStep, Zenon DEF Join,
       JoinFail
  <1> QED
    BY <1>1, <1>2, <1>3, <1>4, LeaveStep, Zenon DEF Next

\* When calls do not overlap, c_pointer says that the table is full only when it is, and
\* every index and flag is in its array: create_container() relies on it.
THEOREM TablesSound ==
  ASSUME ~Overlap
  PROVE  Spec => []TableSound
  <1>1. CInv => TableSound
    BY Zenon DEF CInv, TableSound, FullMeansFull, Quiet, PointerInv
  <1> QED
    BY <1>1, InitCInv, StepCInv, PTL DEF Spec

\* When calls do not overlap, create_container() marks only a container that is free.
THEOREM ContainersFresh ==
  ASSUME ~Overlap
  PROVE  Spec => CreatedFresh
  <1>1. CInv /\ [Next]_vars => [\A p \in Proc : CreateMark(p) => c_active[id[p]] = 0]_vars
    BY Zenon DEF CInv, CallInv, CreateMark, Goes, Free
  <1> QED
    BY <1>1, InitCInv, StepCInv, PTL DEF Spec, CreatedFresh

\* Only create_container() and join_container() write a process_table: the one that of a
\* container that was not in use, the other an entry that was not.
LEMMA TableWrites ==
  ASSUME CInv, [Next]_vars, NEW i \in Container, NEW e \in Entry,
         c_active[i] = 1, process_active[i][e] = 1
  PROVE  process_table'[i][e] = process_table[i][e]
  <1>1. CASE UNCHANGED process_table
    BY <1>1, Zenon
  <1>2. ASSUME NEW p \in Proc, CreateMark(p) PROVE process_table'[i] = process_table[i]
    <2>1. id[p] # i /\ process_table' = [process_table EXCEPT ![id[p]] = [f \in Entry |-> NoProc]]
      BY <1>2 DEF CreateMark, Goes, CInv, CallInv, Free
    <2> QED
      BY <2>1, Zenon DEF CInv, TypeOK
  <1>3. ASSUME NEW p \in Proc, JoinStore(p) PROVE process_table'[i][e] = process_table[i][e]
    <2>1. /\ id[p] # i \/ next[p] # e
          /\ id[p] \in Container /\ next[p] \in Entry
          /\ process_table' = [process_table EXCEPT ![id[p]][next[p]] = p]
      BY <1>3 DEF JoinStore, Goes, CInv, CallInv
    <2> QED
      BY <2>1, Zenon DEF CInv, TypeOK
  <1>4. CASE UNCHANGED vars
    BY <1>1, <1>4, Zenon DEF vars, members
  <1>5. ASSUME NEW p \in Proc, Create(p) PROVE process_table'[i][e] = process_table[i][e]
    BY <1>1, <1>2, <1>4, <1>5, Zenon DEF Create, CreateFull, CreateTake, CreateScan, CreateWrite,
       members
  <1>6. ASSUME NEW p \in Proc, Destroy(p) PROVE UNCHANGED process_table
    BY <1>6, Zenon DEF Destroy, DestroyFail, DestroyMark, DestroyTest, DestroyOffer, members, vars
  <1>7. ASSUME NEW p \in Proc, Join(p) PROVE process_table'[i][e] = process_table[i][e]
    BY <1>1, <1>3, <1>4, <1>7, Zenon DEF Join, JoinFail, JoinTake, JoinScan, JoinWrite, members
  <1>8. ASSUME NEW p \in Proc, Leave(p) PROVE UNCHANGED process_table
    BY <1>8, Zenon DEF Leave
  <1> QED
    BY <1>1, <1>4, <1>5, <1>6, <1>7, <1>8, Zenon DEF Next

\* When calls do not overlap, join_container() never overwrites a member of a live container.
THEOREM MembersKept ==
  ASSUME ~Overlap
  PROVE  Spec => MemberKept
  <1> DEFINE Kept == \A i \in Container, e \in Entry :
               c_active[i] = 1 /\ c_active'[i] = 1 /\ process_active[i][e] = 1
               /\ process_active'[i][e] = 1 => process_table'[i][e] = process_table[i][e]
  <1>1. CInv /\ [Next]_vars => [Kept]_vars
    BY TableWrites, Zenon
  <1> QED
    BY <1>1, InitCInv, StepCInv, PTL DEF Spec, MemberKept

-----------------------------------------------------------------------------
(* Messages *)

\* The types of MsgTypeOK: the rings, whose rear is size elements after front, and the rest.
RingType ==
  /\ front \in [Receiver -> Index] /\ rear \in [Receiver -> Index]
  /\ size \in [Receiver -> 0..MSGBUFFSIZE]
  /\ array \in [Receiver -> [Index -> Msg \cup {Zero}]]
RingInv == RingType /\ \A r \in Receiver : rear[r] = (front[r] + size[r]) % MSGBUFFSIZE

\* send() has a message for somebody, and the index that recv() computed before it took the
\* lock is still that of the oldest message.
LocalInv ==
  /\ \A p \in Thread : step[p] \in {"wakeup", "enqueue"} => to[p] \in Receiver /\ item[p] \in Msg
  /\ \A p \in Receiver : step[p] = "dequeue" => m[p] = front[p] + 1
LocalType ==
  /\ qlock \in [Receiver -> Thread \cup {NoHolder}]
  /\ state \in [Thread -> {"RUNNING", "SLEEPING"}]
  /\ step \in [Thread -> {"user", "wakeup", "enqueue", "sleep", "front", "dequeue"}]
  /\ to \in [Thread -> Receiver \cup {NoHolder}]
  /\ item \in [Thread -> Msg \cup {Zero}]
  /\ m \in [Thread -> 0..MSGBUFFSIZE]
  /\ got \in [Thread -> Msg \cup {Zero, Junk}]
  /\ panicked \in BOOLEAN

MsgInv == RingInv /\ LocalType /\ LocalInv

\* Reducing an index that went round at most once.
LEMMA Wrap ==
  ASSUME NEW x \in 0..(2 * MSGBUFFSIZE - 1)
  PROVE  x % MSGBUFFSIZE = IF x < MSGBUFFSIZE THEN x ELSE x - MSGBUFFSIZE
  <1>1. MSGBUFFSIZE \in Nat /\ MSGBUFFSIZE > 0
    BY RingAssumption
  <1>2. x % MSGBUFFSIZE \in 0..(MSGBUFFSIZE - 1)
    BY <1>1
  <1>3. x = MSGBUFFSIZE * (x \div MSGBUFFSIZE) + (x % MSGBUFFSIZE) /\ x \div MSGBUFFSIZE \in Int
    BY <1>1
  <1>4. CASE x \div MSGBUFFSIZE = 0
    BY <1>1, <1>2, <1>3, <1>4
  <1>5. CASE x \div MSGBUFFSIZE = 1
    BY <1>1, <1>2, <1>3, <1>5
  <1>6. x \div MSGBUFFSIZE \in {0, 1}
    BY <1>1, <1>2, <1>3
  <1> QED
    BY <1>4, <1>5, <1>6, Zenon

\* Sequences that are given element by element.
LEMMA FunSeq ==
  ASSUME NEW S, NEW n \in Nat, NEW f \in [1..n -> S]
  PROVE  f \in Seq(S) /\ Len(f) = n
  <1>1. f \in Seq(S)
    OBVIOUS
  <1> QED
    BY <1>1

LEMMA AppendPointwise ==
  ASSUME NEW S, NEW n \in Nat, NEW f \in [1..n -> S], NEW g \in [1..(n + 1) -> S],
         \A i \in 1..n : g[i] = f[i]
  PROVE  g = Append(f, g[n + 1])
  <1>1. f \in Seq(S) /\ Len(f) = n /\ g \in Seq(S) /\ Len(g) = n + 1 /\ g[n + 1] \in S
    BY FunSeq
  <1>2. Append(f, g[n + 1]) \in Seq(S) /\ Len(Append(f, g[n + 1])) = n + 1
    BY <1>1
  <1>3. \A i \in 1..(n + 1) : Append(f, g[n + 1])[i] = g[i]
    BY <1>1
  <1> QED
    BY <1>1, <1>2, <1>3

LEMMA TailPointwise ==
  ASSUME NEW S, NEW n \in Nat, NEW f \in [1..(n + 1) -> S], NEW g \in [1..n -> S],
         \A i \in 1..n : g[i] = f[i + 1]
  PROVE  g = Tail(f)
  <1>1. f \in Seq(S) /\ Len(f) = n + 1 /\ g \in Seq(S) /\ Len(g) = n
    BY FunSeq
  <1>2. Tail(f) \in Seq(S) /\ Len(Tail(f)) = n
    BY <1>1
  <1>3. \A i \in 1..n : Tail(f)[i] = g[i]
    BY <1>1
  <1> QED
    BY <1>1, <1>2, <1>3

\* The abstract queues.
Queues == [r \in Receiver |-> Contents(r)]

\* enqueue() appends to the queue of the receiver and touches no other.
LEMMA EnqueueAppends ==
  ASSUME RingInv, NEW r \in Receiver, NEW x \in Msg, enqueue(r, x)
  PROVE  /\ RingInv'
         /\ UNCHANGED front
         /\ Len(Queues[r]) < MSGBUFFSIZE
         /\ Queues' = [Queues EXCEPT ![r] = Append(@, x)]
  <1> USE RingAssumption DEF Index
  <1>1. /\ MSGBUFFSIZE \in Nat /\ MSGBUFFSIZE > 0
        /\ \A q \in Receiver : front[q] \in Index /\ rear[q] \in Index /\ size[q] \in 0..MSGBUFFSIZE
    BY DEF RingInv, RingType
  <1>2. size[r] < MSGBUFFSIZE
    BY <1>1 DEF enqueue
  <1>3. /\ \A i \in 0..(size[r] + 1) : (front[r] + i) % MSGBUFFSIZE
             = IF front[r] + i < MSGBUFFSIZE THEN front[r] + i ELSE front[r] + i - MSGBUFFSIZE
        /\ (rear[r] + 1) % MSGBUFFSIZE = IF rear[r] + 1 < MSGBUFFSIZE THEN rear[r] + 1 ELSE 0
    <2>1. \A i \in 0..(size[r] + 1) : front[r] + i \in 0..(2 * MSGBUFFSIZE - 1)
      BY <1>1, <1>2
    <2>2. rear[r] + 1 \in 0..(2 * MSGBUFFSIZE - 1)
      BY <1>1
    <2>3. (rear[r] + 1) % MSGBUFFSIZE = IF rear[r] + 1 < MSGBUFFSIZE THEN rear[r] + 1 ELSE 0
      BY <1>1, <2>2, Wrap
    <2>4. ASSUME NEW i \in 0..(size[r] + 1)
          PROVE  (front[r] + i) % MSGBUFFSIZE
                   = IF front[r] + i < MSGBUFFSIZE THEN front[r] + i ELSE front[r] + i - MSGBUFFSIZE
      BY <1>1, <2>1, Wrap
    <2> QED
      BY <2>3, <2>4, Zenon
  <1>4. (rear[r] + 1) % MSGBUFFSIZE = (front[r] + (size[r] + 1)) % MSGBUFFSIZE
    <2>1. size[r] \in 0..(size[r] + 1) /\ size[r] + 1 \in 0..(size[r] + 1)
      BY <1>1
    <2>2. rear[r] = IF front[r] + size[r] < MSGBUFFSIZE THEN front[r] + size[r]
                                                      ELSE front[r] + size[r] - MSGBUFFSIZE
      BY <1>3, <2>1, Zenon DEF RingInv
    <2>3. (front[r] + (size[r] + 1)) % MSGBUFFSIZE
            = IF front[r] + (size[r] + 1) < MSGBUFFSIZE THEN front[r] + (size[r] + 1)
                                                        ELSE front[r] + (size[r] + 1) - MSGBUFFSIZE
      BY <1>3, <2>1, Zenon
    <2> QED
      BY <1>1, <1>2, <1>3, <2>2, <2>3
  <1>5. \A i \in 1..size[r] : (front[r] + i) % MSGBUFFSIZE # (rear[r] + 1) % MSGBUFFSIZE
    BY <1>1, <1>2, <1>3, <1>4
  <1>6. /\ front' = front /\ rear' = [rear EXCEPT ![r] = (rear[r] + 1) % MSGBUFFSIZE]
        /\ size' = [size EXCEPT ![r] = size[r] + 1]
        /\ array' = [array EXCEPT ![r] = [array[r] EXCEPT ![(rear[r] + 1) % MSGBUFFSIZE] = x]]
    BY Zenon DEF enqueue, RingInv, RingType
  <1>7. RingType'
    <2>1. (rear[r] + 1) % MSGBUFFSIZE \in Index
      BY <1>1, <1>3
    <2>2. [array[r] EXCEPT ![(rear[r] + 1) % MSGBUFFSIZE] = x] \in [Index -> Msg \cup {Zero}]
      BY Zenon DEF RingInv, RingType
    <2> QED
      BY <1>1, <1>2, <1>6, <2>1, <2>2 DEF RingInv, RingType
  <1>8. RingInv'
    BY <1>1, <1>4, <1>6, <1>7, Zenon DEF RingInv, RingType
  <1>9. \A q \in Receiver \ {r} : Contents(q)' = Contents(q)
    BY <1>6, Zenon DEF Contents, RingInv, RingType
  <1>10. Contents(r)' = Append(Contents(r), x)
    <2> DEFINE d == [i \in 1..(size[r] + 1) |-> array'[r][(front[r] + i) % MSGBUFFSIZE]]
    <2>1. Contents(r)' = d
      BY <1>1, <1>6 DEF Contents, RingInv, RingType
    <2>2. \A i \in 1..(size[r] + 1) : (front[r] + i) % MSGBUFFSIZE \in Index
      BY <1>1, <1>2, <1>3
    <2>3. \A j \in Index : /\ array[r][j] \in Msg \cup {Zero} /\ array'[r][j] \in Msg \cup {Zero}
                           /\ j # (rear[r] + 1) % MSGBUFFSIZE => array'[r][j] = array[r][j]
                           /\ j = (rear[r] + 1) % MSGBUFFSIZE => array'[r][j] = x
      BY <1>6, <1>7 DEF RingInv, RingType
    <2>4. Contents(r) \in [1..size[r] -> Msg \cup {Zero}] /\ d \in [1..(size[r] + 1) -> Msg \cup {Zero}]
      BY <1>1, <2>2, <2>3 DEF Contents
    <2>5. \A i \in 1..size[r] : d[i] = Contents(r)[i]
      BY <1>1, <1>5, <2>2, <2>3 DEF Contents
    <2>6. d[size[r] + 1] = x
      <3>1. d[size[r] + 1] = array'[r][(front[r] + (size[r] + 1)) % MSGBUFFSIZE]
        BY <1>1
      <3> QED
        BY <1>1, <1>3, <1>4, <2>3, <3>1
    <2>7. size[r] \in Nat
      BY <1>1
    <2> HIDE DEF d
    <2>8. d = Append(Contents(r), d[size[r] + 1])
      BY <2>4, <2>5, <2>7, AppendPointwise, Zenon
    <2> QED
      BY <2>1, <2>6, <2>8, Zenon
  <1>11. Len(Contents(r)) = size[r]
    BY <1>1 DEF Contents
  <1>12. Queues' = [Queues EXCEPT ![r] = Append(@, x)]
    BY <1>9, <1>10, Zenon DEF Queues
  <1> QED
    BY <1>2, <1>6, <1>8, <1>11, <1>12, Zenon DEF Queues

\* dequeue() takes the oldest message of the receiver's queue, which is the one after front.
LEMMA DequeueTakesOldest ==
  ASSUME RingInv, NEW r \in Receiver, dequeue(r)
  PROVE  /\ RingInv'
         /\ Queues[r] # <<>>
         /\ Queues' = [Queues EXCEPT ![r] = Tail(@)]
  <1> USE RingAssumption DEF Index
  <1>1. /\ MSGBUFFSIZE \in Nat /\ MSGBUFFSIZE > 0
        /\ \A q \in Receiver : front[q] \in Index /\ rear[q] \in Index /\ size[q] \in 0..MSGBUFFSIZE
    BY DEF RingInv, RingType
  <1>2. size[r] > 0
    BY <1>1 DEF dequeue
  <1>3. \A i \in 0..size[r] : (front[r] + i) % MSGBUFFSIZE
          = IF front[r] + i < MSGBUFFSIZE THEN front[r] + i ELSE front[r] + i - MSGBUFFSIZE
    <2>1. ASSUME NEW i \in 0..size[r]
          PROVE  (front[r] + i) % MSGBUFFSIZE
                   = IF front[r] + i < MSGBUFFSIZE THEN front[r] + i ELSE front[r] + i - MSGBUFFSIZE
      <3>1. front[r] + i \in 0..(2 * MSGBUFFSIZE - 1)
        BY <1>1
      <3> QED
        BY <1>1, <3>1, Wrap
    <2> QED
      BY <2>1, Zenon
  <1> DEFINE f == (front[r] + 1) % MSGBUFFSIZE
  <1>4. f \in Index /\ f = IF front[r] + 1 < MSGBUFFSIZE THEN front[r] + 1 ELSE 0
    <2>1. 1 \in 0..size[r]
      BY <1>1, <1>2
    <2>2. f = IF front[r] + 1 < MSGBUFFSIZE THEN front[r] + 1 ELSE front[r] + 1 - MSGBUFFSIZE
      BY <1>3, <2>1, Zenon
    <2> QED
      BY <1>1, <2>2
  <1> HIDE DEF f
  <1>5. ASSUME NEW i \in 0..(size[r] - 1)
        PROVE  (f + i) % MSGBUFFSIZE = (front[r] + (i + 1)) % MSGBUFFSIZE
    <2>1. f + i \in 0..(2 * MSGBUFFSIZE - 1) /\ i + 1 \in 0..size[r]
      BY <1>1, <1>4
    <2>2. (f + i) % MSGBUFFSIZE = IF f + i < MSGBUFFSIZE THEN f + i ELSE f + i - MSGBUFFSIZE
      BY <1>1, <1>4, <2>1, Wrap
    <2> QED
      BY <1>1, <1>3, <1>4, <2>1, <2>2
  <1>6. /\ front' = [front EXCEPT ![r] = f]
        /\ size' = [size EXCEPT ![r] = size[r] - 1]
        /\ UNCHANGED <<rear, array>>
    BY Zenon DEF dequeue, f
  <1>7. RingType'
    BY <1>1, <1>2, <1>4, <1>6 DEF RingInv, RingType
  <1>8. RingInv'
    <2>1. rear[r] = (f + (size[r] - 1)) % MSGBUFFSIZE
      <3>1. size[r] - 1 \in 0..(size[r] - 1) /\ (size[r] - 1) + 1 = size[r]
        BY <1>1, <1>2
      <3> QED
        BY <1>5, <3>1, Zenon DEF RingInv
    <2> QED
      BY <1>6, <1>7, <2>1, Zenon DEF RingInv, RingType
  <1>9. \A q \in Receiver \ {r} : Contents(q)' = Contents(q)
    BY <1>6, Zenon DEF Contents, RingInv, RingType
  <1>10. Contents(r)' = Tail(Contents(r))
    <2> DEFINE d == [i \in 1..(size[r] - 1) |-> array[r][(f + i) % MSGBUFFSIZE]]
    <2>1. Contents(r)' = d
      BY <1>1, <1>6, Zenon DEF Contents, RingInv, RingType
    <2>2. \A i \in 0..size[r] : (front[r] + i) % MSGBUFFSIZE \in Index
      BY <1>1, <1>2, <1>3
    <2>3. \A j \in Index : array[r][j] \in Msg \cup {Zero}
      BY Zenon DEF RingInv, RingType
    <2>4. Contents(r) \in [1..size[r] -> Msg \cup {Zero}]
      BY <1>1, <2>2, <2>3 DEF Contents
    <2>5. \A i \in 1..(size[r] - 1) : d[i] = Contents(r)[i + 1]
      BY <1>1, <1>5 DEF Contents
    <2>6. d \in [1..(size[r] - 1) -> Msg \cup {Zero}]
      BY <1>1, <1>5, <2>2, <2>3
    <2>7. size[r] - 1 \in Nat /\ (size[r] - 1) + 1 = size[r]
      BY <1>1, <1>2
    <2> HIDE DEF d
    <2>8. d = Tail(Contents(r))
      BY <2>4, <2>5, <2>6, <2>7, TailPointwise
    <2> QED
      BY <2>1, <2>8, Zenon
  <1>11. Len(Contents(r)) = size[r]
    BY <1>1 DEF Contents
  <1>12. Queues' = [Queues EXCEPT ![r] = Tail(@)]
    BY <1>9, <1>10, Zenon DEF Queues
  <1> QED
    BY <1>2, <1>8, <1>11, <1>12 DEF Queues

\* A step that leaves the rings alone.
LEMMA RingKept == ASSUME RingInv, UNCHANGED ring PROVE RingInv' /\ UNCHANGED Queues
  BY Zenon DEF RingInv, RingType, ring, Queues, Contents

\* In the beginning the rings are empty.
LEMMA MsgInitInv == MsgInit => MsgInv
  <1> SUFFICES ASSUME MsgInit PROVE MsgInv
    BY Zenon
  <1>1. 0 \in Index /\ 0 \in 0..MSGBUFFSIZE /\ 0 % MSGBUFFSIZE = 0
    <2>1. 0 \in 0..(2 * MSGBUFFSIZE - 1) /\ 0 < MSGBUFFSIZE /\ MSGBUFFSIZE \in Nat
      BY RingAssumption
    <2> QED
      BY <2>1, Wrap DEF Index
  <1>2. RingInv
    BY <1>1 DEF MsgInit, RingInv, RingType
  <1>3. LocalType
    BY <1>1, Zenon DEF MsgInit, LocalType
  <1>4. LocalInv
    BY Zenon DEF MsgInit, LocalInv, Thread
  <1> QED
    BY <1>2, <1>3, <1>4, Zenon DEF MsgInv

\* send(), up to the queue and on its ways out.
LEMMA SendQuiet ==
  ASSUME MsgInv, NEW p \in Sender,
         (\E r \in Receiver, x \in Msg : SendFind(p, r, x)) \/ SendWakeup(p) \/ SendFull(p) \/ SendPanics(p)
  PROVE  MsgInv' /\ UNCHANGED ring
  <1> p \in Thread
    BY Zenon DEF Thread
  <1> USE DEF MsgInv, LocalType, LocalInv, At, StepTo
  <1>1. CASE \E r \in Receiver, x \in Msg : SendFind(p, r, x)
    <2>1. LocalType' /\ UNCHANGED ring
      BY <1>1 DEF SendFind
    <2>2. LocalInv'
      BY <1>1 DEF SendFind, ring, Thread
    <2> QED
      BY <2>1, <2>2, RingKept, Zenon
  <1>2. CASE SendWakeup(p)
    <2>1. LocalType' /\ UNCHANGED ring
      BY <1>2, Zenon DEF SendWakeup, Thread
    <2>2. LocalInv'
      BY <1>2, Zenon DEF SendWakeup, ring, Thread
    <2> QED
      BY <2>1, <2>2, RingKept, Zenon
  <1>3. CASE SendFull(p)
    <2>1. LocalType' /\ UNCHANGED ring
      BY <1>3, Zenon DEF SendFull, SendReturns
    <2>2. LocalInv'
      BY <1>3, Zenon DEF SendFull, SendReturns, ring, Thread
    <2> QED
      BY <2>1, <2>2, RingKept, Zenon
  <1>4. CASE SendPanics(p)
    BY <1>4, RingKept, Zenon DEF SendPanics, AcquirePanics, ring
  <1> QED
    BY <1>1, <1>2, <1>3, <1>4, Zenon

\* recv(), up to the queue and on its ways out; and what else happens to a receiver.
LEMMA RecvQuiet ==
  ASSUME MsgInv, NEW p \in Receiver,
         RecvTest(p) \/ RecvSleep(p) \/ RecvFront(p) \/ RecvEmpty(p) \/ RecvPanics(p) \/ OtherWakeup(p)
  PROVE  MsgInv' /\ UNCHANGED ring
  <1> p \in Thread
    BY Zenon DEF Thread
  <1> USE DEF MsgInv, LocalType, LocalInv, At, StepTo
  <1>1. CASE RecvTest(p)
    <2>1. LocalType' /\ UNCHANGED ring
      BY <1>1, Zenon DEF RecvTest
    <2>2. LocalInv'
      BY <1>1, Zenon DEF RecvTest, ring, Thread
    <2> QED
      BY <2>1, <2>2, RingKept, Zenon
  <1>2. CASE RecvSleep(p)
    <2>1. LocalType' /\ UNCHANGED ring
      BY <1>2, Zenon DEF RecvSleep
    <2>2. LocalInv'
      BY <1>2, Zenon DEF RecvSleep, ring, Thread
    <2> QED
      BY <2>1, <2>2, RingKept, Zenon
  <1>3. CASE RecvFront(p)
    <2>1. front[p] + 1 \in 0..MSGBUFFSIZE
      BY RingAssumption DEF RingInv, RingType, Index
    <2>2. LocalType' /\ UNCHANGED ring
      BY <1>3, <2>1, Zenon DEF RecvFront
    <2>3. LocalInv'
      BY <1>3, Zenon DEF RecvFront, ring, Thread
    <2> QED
      BY <2>2, <2>3, RingKept, Zenon
  <1>4. CASE RecvEmpty(p)
    <2>1. 0 \in 0..MSGBUFFSIZE
      BY RingAssumption
    <2>2. LocalType' /\ UNCHANGED ring
      BY <1>4, <2>1, Zenon DEF RecvEmpty
    <2>3. LocalInv'
      BY <1>4, Zenon DEF RecvEmpty, ring, Thread
    <2> QED
      BY <2>2, <2>3, RingKept, Zenon
  <1>5. CASE RecvPanics(p)
    BY <1>5, RingKept, Zenon DEF RecvPanics, AcquirePanics, ring
  <1>6. CASE OtherWakeup(p)
    BY <1>6, RingKept, Zenon DEF OtherWakeup, ring
  <1> QED
    BY <1>1, <1>2, <1>3, <1>4, <1>5, <1>6, Zenon

\* send() under the lock: enqueue() of its own message.
LEMMA SendPuts ==
  ASSUME MsgInv, NEW p \in Sender, SendEnqueue(p)
  PROVE  MsgInv' /\ to[p] \in Receiver /\ item[p] \in Msg /\ enqueue(to[p], item[p])
  <1> p \in Thread
    BY Zenon DEF Thread
  <1>1. to[p] \in Receiver /\ item[p] \in Msg /\ enqueue(to[p], item[p])
    BY Zenon DEF SendEnqueue, At, MsgInv, LocalInv
  <1>2. RingInv' /\ UNCHANGED front
    BY <1>1, EnqueueAppends, Zenon DEF MsgInv
  <1>3. LocalType'
    BY Zenon DEF SendEnqueue, SendReturns, StepTo, MsgInv, LocalType
  <1>4. LocalInv'
    BY <1>2, Zenon DEF SendEnqueue, SendReturns, StepTo, MsgInv, LocalType, LocalInv, Thread
  <1> QED
    BY <1>1, <1>2, <1>3, <1>4, Zenon DEF MsgInv

\* The address that recv() took before it had the lock is that of the message it dequeues.
LEMMA RecvGets ==
  ASSUME MsgInv, NEW p \in Receiver, RecvDequeue(p)
  PROVE  MsgInv' /\ dequeue(p) /\ (front[p] + 1 \in Index => got'[p] = Head(Contents(p)))
  <1> p \in Thread
    BY Zenon DEF Thread
  <1>1. dequeue(p) /\ m[p] = front[p] + 1 /\ got' = [got EXCEPT ![p] = Element(p, front[p] + 1)]
    BY Zenon DEF RecvDequeue, At, MsgInv, LocalInv
  <1>2. RingInv'
    BY <1>1, DequeueTakesOldest, Zenon DEF MsgInv
  <1>3. Element(p, front[p] + 1) \in Msg \cup {Zero, Junk}
    BY Zenon DEF Element, MsgInv, RingInv, RingType
  <1>4. LocalType'
    <2>1. 0 \in 0..MSGBUFFSIZE
      BY RingAssumption
    <2> QED
      BY <1>1, <1>3, <2>1, Zenon DEF RecvDequeue, StepTo, MsgInv, LocalType
  <1>5. LocalInv'
    <2>1. \A q \in Receiver : q # p => front'[q] = front[q]
      BY <1>1, Zenon DEF dequeue, MsgInv, RingInv, RingType
    <2> QED
      BY <2>1, Zenon DEF RecvDequeue, StepTo, MsgInv, LocalType, LocalInv, Thread
  <1>6. ASSUME front[p] + 1 \in Index PROVE got'[p] = Head(Contents(p))
    <2>1. /\ front[p] \in Index /\ size[p] \in 0..MSGBUFFSIZE /\ size[p] # 0
          /\ MSGBUFFSIZE \in Nat /\ MSGBUFFSIZE > 0
      BY <1>1, RingAssumption DEF dequeue, MsgInv, RingInv, RingType
    <2>2. (front[p] + 1) % MSGBUFFSIZE = front[p] + 1
      <3>1. front[p] + 1 \in 0..(2 * MSGBUFFSIZE - 1) /\ front[p] + 1 < MSGBUFFSIZE
        BY <1>6, <2>1 DEF Index
      <3> QED
        BY <2>1, <3>1, Wrap, Zenon
    <2>3. Head(Contents(p)) = array[p][(front[p] + 1) % MSGBUFFSIZE]
      BY <2>1 DEF Contents
    <2> QED
      BY <1>1, <1>6, <2>2, <2>3, Zenon DEF Element, MsgInv, LocalType
  <1> QED
    BY <1>1, <1>2, <1>4, <1>5, <1>6, Zenon DEF MsgInv

\* A step appends one message to a queue, takes the oldest from one, or leaves them all alone.
LEMMA MsgStep ==
  ASSUME MsgInv, MsgNext
  PROVE  /\ MsgInv'
         /\ \/ UNCHANGED ring
            \/ \E r \in Receiver, x \in Msg : enqueue(r, x)
            \/ \E r \in Receiver :
                 dequeue(r) /\ (front[r] + 1 \in Index => got'[r] = Head(Contents(r)))
  <1>1. CASE \E p \in Sender : Send(p)
    <2> PICK p \in Sender : Send(p)
      BY <1>1, Zenon
    <2>1. CASE SendEnqueue(p)
      BY <2>1, SendPuts, Zenon
    <2>2. CASE ~SendEnqueue(p)
      BY <2>2, SendQuiet, Zenon DEF Send
    <2> QED
      BY <2>1, <2>2, Zenon
  <1>2. CASE \E p \in Receiver : Recv(p) \/ OtherWakeup(p)
    <2> PICK p \in Receiver : Recv(p) \/ OtherWakeup(p)
      BY <1>2, Zenon
    <2>1. CASE RecvDequeue(p)
      BY <2>1, RecvGets, Zenon
    <2>2. CASE ~RecvDequeue(p)
      BY <2>2, RecvQuiet, Zenon DEF Recv
    <2> QED
      BY <2>1, <2>2, Zenon
  <1>3. CASE \E p \in Thread : Preempt(p)
    BY <1>3, RingKept, Zenon DEF Preempt, ring, MsgInv, LocalType, LocalInv
  <1> QED
    BY <1>1, <1>2, <1>3, Zenon DEF MsgNext

\* A stuttering step.
LEMMA MsgStutter == ASSUME MsgInv, UNCHANGED msgvars PROVE MsgInv' /\ UNCHANGED ring
  BY RingKept, Zenon DEF msgvars, ring, MsgInv, LocalType, LocalInv

\* The invariant holds throughout.
LEMMA MsgAlways == MsgSpec => []MsgInv
  <1>1. MsgInv /\ [MsgNext]_msgvars => MsgInv'
    BY MsgStep, MsgStutter, Zenon
  <1> QED
    BY MsgInitInv, <1>1, PTL DEF MsgSpec

\* The indices of every ring stay inside it, for any number of senders and receivers and any
\* MSGBUFFSIZE.
THEOREM RingsTyped == MsgSpec => []MsgTypeOK
  <1>1. MsgInv => MsgTypeOK
    BY Zenon DEF MsgInv, RingInv, RingType, LocalType, MsgTypeOK
  <1> QED
    BY MsgAlways, <1>1, PTL

\* The rings of msg_queue implement bounded FIFOs: every step of send() and recv() is a Put, a Get
\* or a stutter of MsgFifo, wherever the indices wrap.
THEOREM RingsAreFifos == MsgSpec => IsFifo
  <1>1. MsgInit => Fifo!Init
    <2> SUFFICES ASSUME MsgInit PROVE \A r \in Receiver : Contents(r) = <<>>
      BY Zenon DEF Fifo!Init
    <2> QED
      BY DEF MsgInit, Contents
  <1>2. ASSUME MsgInv, [MsgNext]_msgvars
        PROVE  [Fifo!Next]_([r \in Receiver |-> Contents(r)])
    <2> USE DEF Queues
    <2>1. CASE UNCHANGED ring
      BY <1>2, <2>1, RingKept, Zenon DEF MsgInv
    <2>2. CASE \E r \in Receiver, x \in Msg : enqueue(r, x)
      BY <1>2, <2>2, EnqueueAppends, Zenon DEF MsgInv, Fifo!Next, Fifo!Put
    <2>3. CASE \E r \in Receiver : dequeue(r)
      BY <1>2, <2>3, DequeueTakesOldest, Zenon DEF MsgInv, Fifo!Next, Fifo!Get
    <2> QED
      BY <1>2, <2>1, <2>2, <2>3, MsgStep, MsgStutter, Zenon
  <1> QED
    BY MsgAlways, <1>1, <1>2, PTL DEF MsgSpec, IsFifo, Fifo!Spec

\* recv() delivers the oldest message although it takes its address before the lock, unless it
\* lies past the end of the array.
THEOREM OldestDelivered == MsgSpec => DeliveredInOrder
  <1> DEFINE Deliver == \A p \in Receiver : size'[p] < size[p] /\ front[p] + 1 \in Index =>
                          got'[p] = Head(Contents(p))
  <1>1. ASSUME MsgInv, [MsgNext]_msgvars PROVE Deliver
    <2> SUFFICES ASSUME NEW p \in Receiver, size'[p] < size[p], front[p] + 1 \in Index
                 PROVE  got'[p] = Head(Contents(p))
      BY Zenon
    <2>1. size \in [Receiver -> Int]
      BY <1>1, RingAssumption DEF MsgInv, RingInv, RingType
    <2>2. ~(UNCHANGED ring) /\ ~\E r \in Receiver, x \in Msg : enqueue(r, x)
      BY <2>1 DEF ring, enqueue
    <2>3. PICK r \in Receiver : dequeue(r) /\ (front[r] + 1 \in Index => got'[r] = Head(Contents(r)))
      BY <1>1, <2>2, MsgStep, MsgStutter, Zenon
    <2>4. r = p
      BY <2>1, <2>3 DEF dequeue
    <2> QED
      BY <2>3, <2>4, Zenon
  <1>2. MsgInv /\ [MsgNext]_msgvars => [Deliver]_msgvars
    BY <1>1, Zenon
  <1> QED
    BY MsgAlways, <1>2, PTL DEF MsgSpec, DeliveredInOrder

=============================================================================
