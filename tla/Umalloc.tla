------------------------------ MODULE Umalloc -------------------------------
(***************************************************************************)
(* The user-level allocator (umalloc.c): a circular list of free blocks in *)
(* address order.  Addresses count headers; base, below the heap, is 0.  A *)
(* merged header is never read again and is cleared here.  The program may *)
(* call sbrk() too, so the heap can have gaps.                             *)
(***************************************************************************)
EXTENDS Integers, FiniteSets, FiniteSetsExt

CONSTANTS HeapEnd, MinCore,     \* MinCore: the 4096 units of morecore()
          Requests              \* sizes asked for, in units without the header

VARIABLES hdr,       \* ptr and size of each header
          freep,     \* -1: malloc() was not called yet
          brk,       \* the end of the heap
          core,      \* units morecore() has obtained
          live       \* blocks malloc() returned and free() has not got back

heapvars == <<hdr, freep, brk, core, live>>

Base == 0
Cell == 0..HeapEnd
NoHdr == [ptr |-> Base, size |-> 0]
HeapInit == hdr = [a \in Cell |-> NoHdr] /\ freep = -1 /\ brk = 1 /\ core = 0 /\ live = {}

\* The place for bp in the list, from p on: the header before it.
RECURSIVE PlaceFor(_, _, _)
PlaceFor(h, bp, p) ==
  LET q == h[p].ptr IN
  IF (bp > p /\ bp < q) \/ (p >= q /\ (bp > p \/ bp < q)) THEN p ELSE PlaceFor(h, bp, q)

\* free(): bp joins the block after it and the block before it.
\* Mutant: it does not join the one before.
JoinsBelow_not(h, p, bp) == FALSE
JoinsBelow(h, p, bp) == p + h[p].size = bp
freed(h, bp, start) ==
  LET p == PlaceFor(h, bp, start)  q == h[p].ptr
      up == IF bp + h[bp].size = q
            THEN [h EXCEPT ![bp] = [size |-> @.size + h[q].size, ptr |-> h[q].ptr], ![q] = NoHdr]
            ELSE [h EXCEPT ![bp].ptr = q]
  IN [freep |-> p,
      h |-> IF JoinsBelow(h, p, bp)
            THEN [up EXCEPT ![p] = [size |-> @.size + up[bp].size, ptr |-> up[bp].ptr], ![bp] = NoHdr]
            ELSE [up EXCEPT ![p].ptr = bp]]

\* morecore(): sbrk() and free() of what it gave.
morecore(s, nu) ==
  LET n == Max({nu, MinCore})
      f == freed([s.h EXCEPT ![s.brk] = [ptr |-> Base, size |-> n]], s.brk, s.freep)
  IN IF s.brk + n - 1 > HeapEnd THEN [s EXCEPT !.failed = TRUE]
     ELSE [s EXCEPT !.h = f.h, !.freep = f.freep, !.brk = @ + n, !.core = @ + n]

\* The part of a block that is left in the list.
\* Mutant: a block that fits exactly stays in the list.
Unlinked_not(h, prevp, p) == h
Unlinked(h, prevp, p) == [h EXCEPT ![prevp].ptr = h[p].ptr, ![p].ptr = Base]

\* malloc()'s loop at the blocks prevp and p.
RECURSIVE Search(_, _, _, _)
Search(s, nunits, prevp, p) ==
  LET h == s.h  rest == h[p].size - nunits  m == morecore(s, nunits) IN
  IF rest = 0 THEN [s EXCEPT !.h = Unlinked(h, prevp, p), !.freep = prevp, !.got = p]
  ELSE IF rest > 0
  THEN [s EXCEPT !.h = [h EXCEPT ![p].size = rest, ![p + rest] = [ptr |-> Base, size |-> nunits]],
                 !.freep = prevp, !.got = p + rest]
  ELSE IF p # s.freep THEN Search(s, nunits, p, h[p].ptr)
  ELSE IF m.failed THEN m
  ELSE Search(m, nunits, m.freep, m.h[m.freep].ptr)

malloc(n) ==
  LET first == freep = -1
      s == [h |-> hdr, freep |-> IF first THEN Base ELSE freep, brk |-> brk, core |-> core,
            got |-> Base, failed |-> FALSE]
      r == Search(s, n + 1, s.freep, s.h[s.freep].ptr)
  IN
  /\ hdr' = r.h /\ freep' = r.freep /\ brk' = r.brk /\ core' = r.core
  /\ live' = IF r.failed THEN live ELSE live \cup {<<r.got, n + 1>>}

free(b) ==
  LET f == freed(hdr, b[1], freep) IN
  /\ b \in live
  /\ hdr' = f.h /\ freep' = f.freep /\ live' = live \ {b}
  /\ UNCHANGED <<brk, core>>

ProgramSbrk == brk < HeapEnd /\ brk' = brk + 1 /\ UNCHANGED <<hdr, freep, core, live>>

HeapNext == (\E n \in Requests : malloc(n)) \/ (\E b \in live : free(b)) \/ ProgramSbrk

-----------------------------------------------------------------------------
(* Properties *)

RECURSIVE ListFrom(_, _)
ListFrom(a, seen) == IF a \in seen THEN seen ELSE ListFrom(hdr[a].ptr, seen \cup {a})
FreeBlocks == IF freep = -1 THEN {} ELSE {<<a, hdr[a].size>> : a \in ListFrom(Base, {}) \ {Base}}
Units(B) == UNION {b[1]..(b[1] + b[2] - 1) : b \in B}
Total(B) == MapThenSumSet(LAMBDA b : b[2], B)

\* Every unit obtained from sbrk() is in exactly one block, in use or free: no sequence of
\* calls makes malloc() return overlapping blocks, loses a block or frees foreign memory.
HeapPartition ==
  /\ Units(live) \cap Units(FreeBlocks) = {}
  /\ Cardinality(Units(live)) = Total(live)
  /\ Total(live) + Total(FreeBlocks) = core
  /\ \A b \in live : hdr[b[1]].size = b[2]

\* free() leaves no two free blocks side by side, so memory given back can serve the
\* largest request it served before.
Coalesced == \A a, b \in FreeBlocks : a[1] + a[2] # b[1]

\* malloc() and free() keep the heap a partition, in as few free blocks as there can be.
HeapSound == HeapPartition /\ Coalesced

=============================================================================
