------------------------------ MODULE MCParts -------------------------------
(***************************************************************************)
(* Memory, Blocks, Console, Umalloc, Signals, Spinlock and Text for TLC.   *)
(* They do not share state: part says which one runs, and the others stay  *)
(* as they are initially, so that the numbers of states add up.            *)
(***************************************************************************)
EXTENDS Memory, Blocks, Console, Umalloc, Signals, Spinlock, Text

VARIABLE part
partvars == <<memvars, blkvars, convars, heapvars, sigvars, lockvars, sample, part>>

-----------------------------------------------------------------------------
(* Memory: 14 pages of 8 words, page tables of two entries *)

Seg(a, n) == [vaddr |-> a, memsz |-> n, readable |-> TRUE]
Programs ==
  {[segs |-> <<Seg(0, 5)>>, args |-> <<2>>],
   [segs |-> <<Seg(0, 3), Seg(8, 9)>>, args |-> <<>>],
   [segs |-> <<Seg(0, 8), [Seg(8, 1) EXCEPT !.readable = FALSE]>>, args |-> <<>>],
   [segs |-> <<Seg(0, 8)>>, args |-> <<3, 9>>],      \* the arguments end in the guard page
   [segs |-> <<Seg(0, 8)>>, args |-> <<18>>]}        \* one argument longer than stack and guard
Increments == {13, -8, -60}

\* Which page is which does not matter as long as none is shared or lost.
PageCounts ==
  <<Cardinality(freelist), Cardinality(reserved), PagesOwnedOnce,
    [p \in Task |->
      <<task[p].sz, task[p].guard, task[p].sp, task[p].state,
        {t \in Tables : task[p].space.tab[t] # NoPage},
        [v \in UserPages |-> <<task[p].space.pte[v].u, task[p].space.pte[v].pa # NoPage>>]>>]>>
View == <<part, IF part = "memory" THEN PageCounts ELSE 0, blkvars, convars, heapvars, sigvars, lockvars, sample>>

-----------------------------------------------------------------------------
(* Blocks: two descriptors of the file in the image, one of a new file *)

Inos == <<2, 2, 3>>

-----------------------------------------------------------------------------
(* Text *)

Strings(S, n) == UNION {[1..k -> S] : k \in 0..n}
Simple == {execcmd(<<"w">>), execcmd(<<"w", "r">>)}
Redirected == Simple \cup {redircmd(c, "f", fd) : c \in Simple, fd \in {0, 1}}
Compound(S, T) ==
  {pipecmd(a, b) : a \in S, b \in T} \cup {listcmd(a, b) : a \in S, b \in T}
  \cup {backcmd(a) : a \in S} \cup {redircmd(a, "g", 1) : a \in S}
Pairs == Compound(Redirected, Redirected)
Commands == Pairs \cup Compound(Pairs, Simple) \cup Compound(Simple, Pairs)

Inputs ==
  {[kind |-> "copy", mem |-> [a \in 0..4 |-> a], d |-> d, s |-> s, n |-> n] :
     d \in 0..2, s \in 0..2, n \in 0..3}
  \cup {[kind |-> "path", path |-> p, stored |-> Strings({"a", "b"}, 3) \ {<<>>}] :
          p \in Strings({"/", "a", "b"}, 5)}
  \cup {[kind |-> "number", n |-> n] : n \in -128..127}
  \cup {[kind |-> "format", fmt |-> f, args |-> <<-5, 12, 127, 0>>] : f \in Strings({"a", "%", "d", "s"}, 4)}
  \cup {[kind |-> "match", re |-> r, text |-> t] :
          r \in Strings({"a", ".", "*", "^", "$"}, 4), t \in Strings({"a", "b"}, 2)}
  \cup {[kind |-> "grep", re |-> <<"^", "a">>, in |-> s] : s \in Strings({"a", "b", "nl"}, 6)}
  \cup {[kind |-> "wc", in |-> s] : s \in Strings({"a", "sp", "nl"}, 6)}
  \cup {[kind |-> "layout", size |-> n, ninodes |-> i, nlog |-> 3, bpb |-> 4, ipb |-> 2] :
          n \in 1..12, i \in 1..5}
  \cup {[kind |-> "line", cmd |-> c] : c \in Commands}
NoInput == [kind |-> "none"]

-----------------------------------------------------------------------------
Init ==
  /\ part \in {"memory", "blocks", "console", "heap", "signals", "locks", "text"}
  /\ MemInit /\ BlkInit /\ ConInit /\ HeapInit /\ SigInit /\ LockInit
  /\ part # "console" => pos = 0
  /\ IF part = "text" THEN TextInit ELSE sample = NoInput

MemPart == part = "memory" /\ MemNext /\ UNCHANGED <<blkvars, convars, heapvars, sigvars, lockvars, sample, part>>
BlkPart == part = "blocks" /\ BlkNext /\ UNCHANGED <<memvars, convars, heapvars, sigvars, lockvars, sample, part>>
ConPart == part = "console" /\ ConNext /\ UNCHANGED <<memvars, blkvars, heapvars, sigvars, lockvars, sample, part>>
HeapPart == part = "heap" /\ HeapNext /\ UNCHANGED <<memvars, blkvars, convars, sigvars, lockvars, sample, part>>
SigPart == part = "signals" /\ SigNext /\ UNCHANGED <<memvars, blkvars, convars, heapvars, lockvars, sample, part>>
LockPart == part = "locks" /\ LockNext /\ UNCHANGED <<memvars, blkvars, convars, heapvars, sigvars, sample, part>>
Next == MemPart \/ BlkPart \/ ConPart \/ HeapPart \/ SigPart \/ LockPart

Spec == Init /\ [][Next]_partvars
=============================================================================
