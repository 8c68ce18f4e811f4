----------------------------- MODULE Containers -----------------------------
(***************************************************************************)
(* The container table of proc.c: create_container, destroy_container,     *)
(* join_container and leave_container.  None of them takes a lock.  A call *)
(* reads c_pointer (or a container's process_pointer), marks its entry,    *)
(* prints the table, and then looks for the next free entry: each of these *)
(* is a step.  Overlap says whether the calls of two processes may overlap *)
(* (two CPUs, or a timer interrupt during the printing); without it they   *)
(* come one after the other, as from one shell that waits for each command.*)
(***************************************************************************)
EXTENDS Integers

CONSTANTS Proc,            \* processes that call
          NoProc,          \* the zeroed struct proc of an entry never used
          NCONTAINER, NPROC_CONTAINER,  \* param.h
          Overlap

ASSUME ProcAssumption == NoProc \notin Proc /\ Overlap \in BOOLEAN
ASSUME SizeAssumption ==
  /\ NCONTAINER \in Nat \ {0} /\ NPROC_CONTAINER \in Nat \ {0}
  /\ NCONTAINER <= NPROC_CONTAINER + 1  \* join_container's scan stays in its array

VARIABLES c_active, c_pointer,
          process_active, process_pointer, process_table,  \* container_table
          container_id,   \* field of the processes' struct proc
          pc, id, next    \* where a caller is, and its locals

ctable == <<c_active, c_pointer>>
members == <<process_active, process_pointer, process_table>>
vars == <<ctable, members, container_id, pc, id, next>>

Container == 0..(NCONTAINER - 1)
Entry == 0..(NPROC_CONTAINER - 1)

Init ==
  /\ c_active = [i \in Container |-> 0]
  /\ c_pointer = 0
  /\ process_active = [i \in Container |-> [e \in Entry |-> 0]]
  /\ process_pointer = [i \in Container |-> 0]
  /\ process_table = [i \in Container |-> [e \in Entry |-> NoProc]]
  /\ container_id = [p \in Proc |-> -1]
  /\ pc = [p \in Proc |-> "idle"]
  /\ id = [p \in Proc |-> -1]
  /\ next = [p \in Proc |-> -1]

\* n is where the two loops over an array of the given flags stop: the first
\* free index after from, else the first one before it, else -1.
NextFree(n, active, from) ==
  LET Free == {i \in DOMAIN active : active[i] = 0}
      After == {i \in Free : i > from}
      Before == {i \in Free : i < from}
  IN  \/ n \in After /\ \A i \in After : n <= i
      \/ After = {} /\ n \in Before /\ \A i \in Before : n <= i
      \/ After = {} /\ Before = {} /\ n = -1

Begins(p) == pc[p] = "idle" /\ (Overlap \/ \A q \in Proc : pc[q] = "idle")

Goes(p, from, to) == pc[p] = from /\ pc' = [pc EXCEPT ![p] = to]

\* The call returns; its locals are gone.
Returns(p, from) ==
  /\ Goes(p, from, "idle")
  /\ id' = [id EXCEPT ![p] = -1]
  /\ next' = [next EXCEPT ![p] = -1]

-----------------------------------------------------------------------------
(* create_container() *)

CreateFull(p) ==
  /\ Begins(p)
  /\ c_pointer = -1
  /\ UNCHANGED vars

CreateTake(p) ==
  /\ Begins(p) /\ Goes(p, "idle", "mark")
  /\ c_pointer # -1
  /\ id' = [id EXCEPT ![p] = c_pointer]
  /\ UNCHANGED <<ctable, members, container_id, next>>

\* The table of processes is what the stack held: it counts for nothing while
\* process_active is 0.
CreateMark(p) ==
  /\ Goes(p, "mark", "scan")
  /\ c_active' = [c_active EXCEPT ![id[p]] = 1]
  /\ process_active' = [process_active EXCEPT ![id[p]] = [e \in Entry |-> 0]]
  /\ process_pointer' = [process_pointer EXCEPT ![id[p]] = 0]
  /\ process_table' = [process_table EXCEPT ![id[p]] = [e \in Entry |-> NoProc]]
  /\ UNCHANGED <<c_pointer, container_id, id, next>>

\* Mutant: the container after this one, in use or not.
CreateScanNext(p) ==
  /\ Goes(p, "scan", "write")
  /\ next' = [next EXCEPT ![p] = (c_pointer + 1) % NCONTAINER]
  /\ UNCHANGED <<ctable, members, container_id, id>>

CreateScan(p) ==
  /\ Goes(p, "scan", "write")
  /\ \E n \in Container \cup {-1} :
       /\ NextFree(n, c_active, c_pointer)
       /\ next' = [next EXCEPT ![p] = n]
  /\ UNCHANGED <<ctable, members, container_id, id>>

CreateWrite(p) ==
  /\ Returns(p, "write")
  /\ c_pointer' = next[p]
  /\ UNCHANGED <<c_active, members, container_id>>

-----------------------------------------------------------------------------
(* destroy_container(i) *)

DestroyFail(p, i) ==
  /\ Begins(p)
  /\ IF i \in Container THEN c_active[i] = 0 ELSE TRUE
  /\ UNCHANGED vars

DestroyMark(p, i) ==
  /\ Begins(p) /\ Goes(p, "idle", "test")
  /\ i \in Container /\ c_active[i] # 0
  /\ c_active' = [c_active EXCEPT ![i] = 0]
  /\ id' = [id EXCEPT ![p] = i]
  /\ UNCHANGED <<c_pointer, members, container_id, next>>

\* Mutant: a destroyed container is not offered when the table was full.
DestroyTestNever(p) ==
  /\ Returns(p, "test")
  /\ UNCHANGED <<ctable, members, container_id>>

\* if (c_pointer == -1)
DestroyTest(p) ==
  /\ IF c_pointer = -1
     THEN Goes(p, "test", "offer") /\ UNCHANGED <<id, next>>
     ELSE Returns(p, "test")
  /\ UNCHANGED <<ctable, members, container_id>>

DestroyOffer(p) ==
  /\ Returns(p, "offer")
  /\ c_pointer' = id[p]
  /\ UNCHANGED <<c_active, members, container_id>>

-----------------------------------------------------------------------------
(* join_container(i) and leave_container() *)

JoinFail(p, i) ==
  /\ Begins(p)
  /\ IF i \in Container THEN c_active[i] = 0 \/ process_pointer[i] = -1 ELSE TRUE
  /\ UNCHANGED vars

JoinTake(p, i) ==
  /\ Begins(p) /\ Goes(p, "idle", "store")
  /\ i \in Container /\ c_active[i] # 0 /\ process_pointer[i] # -1
  /\ id' = [id EXCEPT ![p] = i]
  /\ next' = [next EXCEPT ![p] = process_pointer[i]]
  /\ UNCHANGED <<ctable, members, container_id>>

\* A copy of the struct proc goes into the table; container_id and cont are set
\* in the copy only.
JoinStore(p) ==
  /\ Goes(p, "store", "jscan")
  /\ process_table' = [process_table EXCEPT ![id[p]][next[p]] = p]
  /\ process_active' = [process_active EXCEPT ![id[p]][next[p]] = 1]
  /\ UNCHANGED <<ctable, process_pointer, container_id, id, next>>

\* Mutants: the next entry is the first one, or the one after this one.
JoinScanFirst(p) ==
  /\ Goes(p, "jscan", "jwrite")
  /\ next' = [next EXCEPT ![p] = 0]
  /\ UNCHANGED <<ctable, members, container_id, id>>
JoinScanNext(p) ==
  /\ Goes(p, "jscan", "jwrite")
  /\ next' = [next EXCEPT ![p] = @ + 1]
  /\ UNCHANGED <<ctable, members, container_id, id>>

\* The scan for a free entry starts after c_pointer, not after the entry taken.
JoinScan(p) ==
  /\ Goes(p, "jscan", "jwrite")
  /\ \E n \in Entry \cup {-1} :
       /\ NextFree(n, process_active[id[p]], c_pointer)
       /\ next' = [next EXCEPT ![p] = n]
  /\ UNCHANGED <<ctable, members, container_id, id>>

JoinWrite(p) ==
  /\ Returns(p, "jwrite")
  /\ process_pointer' = [process_pointer EXCEPT ![id[p]] = next[p]]
  /\ UNCHANGED <<ctable, process_active, process_table, container_id>>

\* The entries that leave_container() looks for, in the container it reads from
\* container_id; it clears the first one.
Mine(p, i) ==
  {e \in Entry : process_table[i][e] = p /\ process_active[i][e] = 1}

Leave(p) ==
  LET i == container_id[p]
      ok == IF i \in Container THEN c_active[i] # 0 ELSE FALSE
  IN  /\ Begins(p)
      /\ process_active' =
           IF ok
           THEN [process_active EXCEPT ![i] =
                   [e \in Entry |->
                      IF e \in Mine(p, i) /\ \A f \in Mine(p, i) : e <= f
                      THEN 0 ELSE process_active[i][e]]]
           ELSE process_active
      /\ UNCHANGED <<ctable, process_pointer, process_table, container_id, pc, id,
                     next>>

-----------------------------------------------------------------------------
Create(p) ==
  \/ CreateFull(p) \/ CreateTake(p) \/ CreateMark(p) \/ CreateScan(p)
  \/ CreateWrite(p)
Destroy(p) ==
  \/ \E i \in -1..NCONTAINER : DestroyFail(p, i) \/ DestroyMark(p, i)
  \/ DestroyTest(p) \/ DestroyOffer(p)
Join(p) ==
  \/ \E i \in -1..NCONTAINER : JoinFail(p, i) \/ JoinTake(p, i)
  \/ JoinStore(p) \/ JoinScan(p) \/ JoinWrite(p)

Next == \E p \in Proc : Create(p) \/ Destroy(p) \/ Join(p) \/ Leave(p)

Spec == Init /\ [][Next]_vars

-----------------------------------------------------------------------------
(* Properties *)

Quiet == \A p \in Proc : pc[p] = "idle"

\* Indices and flags stay in the ranges of their arrays.
TypeOK ==
  /\ c_active \in [Container -> {0, 1}]
  /\ c_pointer \in Container \cup {-1}
  /\ process_active \in [Container -> [Entry -> {0, 1}]]
  /\ process_pointer \in [Container -> Entry \cup {-1}]
  /\ process_table \in [Container -> [Entry -> Proc \cup {NoProc}]]
  /\ container_id \in [Proc -> Container \cup {-1}]
  /\ pc \in [Proc -> {"idle", "mark", "scan", "write", "test", "offer", "store",
                      "jscan", "jwrite"}]
  /\ id \in [Proc -> Container \cup {-1}]
  /\ next \in [Proc -> Container \cup Entry \cup {-1}]

\* create_container() reports "container_table full" only when it is.
FullMeansFull ==
  Quiet /\ c_pointer = -1 => \A i \in Container : c_active[i] = 1

\* create_container() never hands out a container that is in use.
CreatedFresh == [][\A p \in Proc : CreateMark(p) => c_active[id[p]] = 0]_vars

\* A member of a container is not overwritten while the container lives.
MemberKept ==
  [][\A i \in Container, e \in Entry :
       c_active[i] = 1 /\ c_active'[i] = 1 /\ process_active[i][e] = 1
       /\ process_active'[i][e] = 1 =>
         process_table'[i][e] = process_table[i][e]]_vars

\* Between calls the table is as create_container() takes it to be: the indices are in
\* their arrays, and it is full when it says so.
TableSound == TypeOK /\ FullMeansFull

=============================================================================
