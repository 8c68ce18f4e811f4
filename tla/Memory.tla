------------------------------- MODULE Memory -------------------------------
(***************************************************************************)
(* Physical pages (kalloc.c), page tables (vm.c) and the operations on     *)
(* address spaces: fork, wait, sbrk and exec, with a failure of every      *)
(* allocation they make.  A page table is r.space = the directory, the     *)
(* page-table pages and the entries; the operators take and return a       *)
(* record r that also has the free pages.  Address spaces are private and  *)
(* the free list has a lock, so an operation is one step, in which Reserve *)
(* stands for the pages others hold.  Addresses count words, not bytes.    *)
(***************************************************************************)
EXTENDS Integers, Sequences, FiniteSets, FiniteSetsExt

CONSTANTS Task, FirstTask,
          Page, PGSIZE, KERNBASE,
          NPTE,          \* entries of a page table
          KernTables,    \* page tables of the kernel part
          SbrkArgs,      \* arguments of sbrk()
          Images         \* programs: segments and the lengths of the arguments

VARIABLES freelist,      \* kmem.freelist
          reserved,      \* pages in use elsewhere in the kernel
          task,          \* each process: kstack, sz, space, and the guard page and sp of exec()
          badfree        \* a page was freed twice or mapped over another

memvars == <<freelist, reserved, task, badfree>>

NoPage == 0
PgUp(n) == (n + PGSIZE - 1) \div PGSIZE        \* PGROUNDUP, as a page number
UserPages == 0..(KERNBASE \div PGSIZE - 1)
UserTables == 0..((KERNBASE \div PGSIZE - 1) \div NPTE)
Tables == UserTables \cup {-k : k \in 1..KernTables}
NotPresent == [pa |-> NoPage, u |-> FALSE]
NoSpace == [dir |-> NoPage, tab |-> [t \in Tables |-> NoPage], pte |-> [v \in UserPages |-> NotPresent]]

-----------------------------------------------------------------------------
(* kalloc.c, vm.c *)

kfree(r, pg) == [r EXCEPT !.free = @ \cup {pg}, !.bad = @ \/ pg \in r.free]
kalloc(r) == Min(r.free)
Taken(r) == [r EXCEPT !.free = @ \ {kalloc(r)}]
Fails(r) == [r EXCEPT !.ok = FALSE]

\* walkpgdir() with alloc: the page table t is there, or is allocated.
walkpgdir(r, t) ==
  IF r.space.tab[t] # NoPage THEN r
  ELSE IF r.free = {} THEN Fails(r) ELSE [Taken(r) EXCEPT !.space.tab[t] = kalloc(r)]

\* mappages() of one user page.
mappages(r, v, pg, u) ==
  LET w == walkpgdir(r, v \div NPTE) IN
  IF ~w.ok THEN w
  ELSE [w EXCEPT !.space.pte[v] = [pa |-> pg, u |-> u],
                 !.bad = @ \/ w.space.pte[v] # NotPresent]

\* Mutant: the entries of the freed pages stay.
Cleared_not(r, S) == r
Cleared(r, S) == [r EXCEPT !.space.pte = [v \in UserPages |-> IF v \in S THEN NotPresent ELSE @[v]]]

\* deallocuvm(): page tables stay.
deallocuvm(r, oldsz, newsz) ==
  LET S == {v \in UserPages : PgUp(newsz) <= v /\ v * PGSIZE < oldsz /\ r.space.pte[v] # NotPresent} IN
  IF newsz >= oldsz THEN r
  ELSE Cleared(FoldSet(LAMBDA v, s : kfree(s, r.space.pte[v].pa), r, S), S)

\* Mutant: the page that could not be mapped is lost.
Unmapped_lost(r, pg) == r
Unmapped(r, pg) == kfree(r, pg)

\* allocuvm() from page v on, with its own clean-up; oldsz <= newsz < KERNBASE.
RECURSIVE allocpages(_, _, _, _)
allocpages(r, v, oldsz, newsz) ==
  LET m == mappages(Taken(r), v, kalloc(r), TRUE) IN
  IF v * PGSIZE >= newsz THEN r
  ELSE IF r.free = {} THEN Fails(deallocuvm(r, newsz, oldsz))
  ELSE IF ~m.ok THEN Unmapped(deallocuvm(m, newsz, oldsz), kalloc(r))
  ELSE allocpages(m, v + 1, oldsz, newsz)
allocuvm(r, oldsz, newsz) ==
  IF newsz >= KERNBASE THEN Fails(r) ELSE allocpages(r, PgUp(oldsz), oldsz, newsz)

\* freevm(): the user pages, the page tables of both parts, the directory.
freevm(r) ==
  LET d == deallocuvm(r, KERNBASE, 0)
      S == {t \in Tables : d.space.tab[t] # NoPage} IN
  [kfree(FoldSet(LAMBDA t, s : kfree(s, d.space.tab[t]), d, S), d.space.dir) EXCEPT !.space = NoSpace]

\* setupkvm(), with mappages() for the kernel's tables.
setupkvm(r) ==
  IF r.free = {} THEN Fails(r)
  ELSE LET d == [Taken(r) EXCEPT !.space = [NoSpace EXCEPT !.dir = kalloc(r)]]
           k == FoldSet(LAMBDA t, s : IF s.ok THEN walkpgdir(s, t) ELSE s, d, Tables \ UserTables)
       IN IF k.ok THEN k ELSE freevm(k)

\* copyuvm(): the loop from page v on, and the whole of it.
\* Mutant: the copy is always accessible.
CopyFlags_user(pte) == TRUE
CopyFlags(pte) == pte.u
RECURSIVE copypages(_, _, _, _)
copypages(r, v, old, sz) ==
  LET m == mappages(Taken(r), v, kalloc(r), CopyFlags(old.pte[v])) IN
  IF v * PGSIZE >= sz THEN r
  ELSE IF r.free = {} THEN freevm(Fails(r))
  ELSE IF ~m.ok THEN freevm(kfree(m, kalloc(r)))
  ELSE copypages(m, v + 1, old, sz)
copyuvm(r, old, sz) == LET d == setupkvm(r) IN IF d.ok THEN copypages(d, 0, old, sz) ELSE d

\* copyout(): every page of the range must be one the user may access.
copyout(s, va, len) == \A v \in UserPages : v * PGSIZE < va + len /\ (v + 1) * PGSIZE > va => s.pte[v].u

-----------------------------------------------------------------------------
(* Processes *)

NoTask == [kstack |-> NoPage, sz |-> 0, space |-> NoSpace, guard |-> -1, sp |-> 0, state |-> "UNUSED"]
Rec(p) == [free |-> freelist, space |-> task[p].space, ok |-> TRUE, bad |-> badfree]
Becomes(r, p, t) ==
  /\ freelist' = r.free /\ badfree' = r.bad
  /\ task' = [task EXCEPT ![p] = t]
  /\ UNCHANGED reserved

\* A process whose code is still mapped; without it the next instruction is a fault.
Runs(p) == task[p].state = "RUNNING" /\ task[p].space.pte[0] # NotPresent

\* userinit(): a kernel stack and one page of code.
AllFree == [free |-> Page, space |-> NoSpace, ok |-> TRUE, bad |-> FALSE]
FirstImage == LET k == setupkvm(AllFree) IN mappages(Taken(k), 0, kalloc(k), TRUE)
MemInit ==
  LET pg == kalloc(FirstImage) IN
  /\ freelist = FirstImage.free \ {pg} /\ reserved = {} /\ badfree = FALSE
  /\ task = [p \in Task |-> IF p # FirstTask THEN NoTask
               ELSE [NoTask EXCEPT !.kstack = pg, !.sz = PGSIZE, !.space = FirstImage.space,
                                   !.state = "RUNNING"]]

\* fork(): the kernel stack of allocproc() and the copy.
forkmem(p, c) ==
  LET pg == kalloc(Rec(c))  r == copyuvm(Taken(Rec(c)), task[p].space, task[p].sz) IN
  /\ Runs(p) /\ task[c].state = "UNUSED" /\ freelist # {}
  /\ Becomes(IF r.ok THEN r ELSE kfree(r, pg), c,
             IF r.ok THEN [task[p] EXCEPT !.kstack = pg, !.space = r.space] ELSE NoTask)

\* exit(), of a process that faulted too, and wait().
exitmem(p) ==
  /\ task[p].state = "RUNNING"
  /\ task' = [task EXCEPT ![p].state = "ZOMBIE"]
  /\ UNCHANGED <<freelist, reserved, badfree>>
waitmem(c) ==
  /\ task[c].state = "ZOMBIE"
  /\ Becomes(freevm(kfree(Rec(c), task[c].kstack)), c, NoTask)

\* growproc(): sz changes only if the new one is not 0, whatever happened to the pages.
growproc(p, n) ==
  LET sz == task[p].sz
      r == IF n >= 0 THEN allocuvm(Rec(p), sz, sz + n)
           ELSE IF sz + n < 0 THEN Rec(p) ELSE deallocuvm(Rec(p), sz, sz + n)   \* uint: sz + n wraps
      new == IF sz + n < 0 THEN sz ELSE sz + n
      done == r.ok /\ new # 0
  IN
  /\ Runs(p)
  /\ Becomes(r, p, [task[p] EXCEPT !.space = r.space, !.sz = IF done THEN new ELSE @,
                      !.guard = IF @ >= PgUp(new) THEN -1 ELSE @])

\* exec()'s loop over the segments: one that ends below sz changes nothing; one with a
\* bad header, or that loaduvm() cannot read, fails.
RECURSIVE loadsegs(_, _, _)
loadsegs(r, sz, segs) ==
  IF segs = <<>> \/ ~r.ok THEN [r |-> r, sz |-> sz]
  ELSE LET s == Head(segs)  top == s.vaddr + s.memsz
           a == IF top < sz THEN r ELSE allocuvm(r, sz, top)
           ok == a.ok /\ Max({sz, top}) # 0 /\ s.vaddr % PGSIZE = 0 /\ s.readable
       IN loadsegs(IF ok THEN a ELSE Fails(a), Max({sz, top}), Tail(segs))

\* The arguments pushed from the top, each with copyout(); -1 if one does not fit.
RECURSIVE pushargs(_, _, _)
pushargs(s, sp, lens) ==
  IF lens = <<>> THEN sp
  ELSE IF sp - Head(lens) < 0 \/ ~copyout(s, sp - Head(lens), Head(lens)) THEN -1
  ELSE pushargs(s, sp - Head(lens), Tail(lens))

clearpteu(r, v) == [r EXCEPT !.space.pte[v].u = FALSE]

\* exec(): the new image is complete before the old one is freed.
exec(p, img) ==
  LET k == setupkvm([Rec(p) EXCEPT !.space = NoSpace])
      l == loadsegs(k, 0, img.segs)
      base == PgUp(l.sz) * PGSIZE
      sz == base + 2 * PGSIZE
      a == allocuvm(l.r, base, sz)
      g == clearpteu(a, PgUp(base))
      frame == Append(img.args, 3 + Len(img.args) + 1)
      sp == pushargs(g.space, sz, frame)
      old == freevm([g EXCEPT !.space = task[p].space])
  IN
  /\ Runs(p)
  /\ IF ~k.ok THEN Becomes(k, p, task[p])
     ELSE IF ~l.r.ok THEN Becomes(freevm(l.r), p, task[p])
     ELSE IF ~a.ok THEN Becomes(freevm(a), p, task[p])
     ELSE IF sp < 0 THEN Becomes(freevm(g), p, task[p])
     ELSE Becomes(old, p, [task[p] EXCEPT !.space = g.space, !.sz = sz, !.guard = PgUp(base), !.sp = sp])

\* The rest of the kernel (pipes, other processes) takes a page, or gives it back.
Reserve ==
  /\ freelist # {}
  /\ reserved' = reserved \cup {Max(freelist)} /\ freelist' = freelist \ {Max(freelist)}
  /\ UNCHANGED <<task, badfree>>
Unreserve ==
  /\ reserved # {}
  /\ freelist' = freelist \cup {Min(reserved)} /\ reserved' = reserved \ {Min(reserved)}
  /\ UNCHANGED <<task, badfree>>

MemNext ==
  \/ Reserve \/ Unreserve
  \/ \E p \in Task :
       \/ exitmem(p) \/ waitmem(p)
       \/ \E c \in Task : forkmem(p, c)
       \/ \E n \in SbrkArgs : growproc(p, n)
       \/ \E img \in Images : exec(p, img)

-----------------------------------------------------------------------------
(* System-call arguments *)

\* argptr() accepts the block of n words at addr; fetchint() is argptr() of one word,
\* and fetchstr() of what it reads, up to the nul or up to sz.
\* Mutant: the end of the block is not tested.
argptr_start(p, addr, n) == n >= 0 /\ addr < task[p].sz
argptr(p, addr, n) == n >= 0 /\ addr < task[p].sz /\ addr + n <= task[p].sz

-----------------------------------------------------------------------------
(* Properties *)

PagesOf(p) ==
  {task[p].kstack, task[p].space.dir} \cup {task[p].space.tab[t] : t \in Tables}
  \cup {task[p].space.pte[v].pa : v \in UserPages}
Owned(p) == PagesOf(p) \ {NoPage}

\* Every page has exactly one owner: it is free, or used once in one address space, or
\* elsewhere in the kernel.  No failure in the middle of fork(), exec() or sbrk() loses a
\* page, frees one twice or leaves it in two address spaces.
PagesOwnedOnce ==
  /\ ~badfree
  /\ Page = freelist \cup reserved \cup UNION {Owned(p) : p \in Task}
  /\ Cardinality(Page) = Cardinality(freelist) + Cardinality(reserved)
       + MapThenSumSet(LAMBDA p : Cardinality({v \in UserPages : task[p].space.pte[v] # NotPresent})
           + Cardinality({t \in Tables : task[p].space.tab[t] # NoPage})
           + (IF task[p].kstack # NoPage THEN 2 ELSE 0), Task)

\* The pages below sz, and no others, are mapped in a process that runs; copyuvm() and
\* loaduvm() rely on it.
MappedToSize ==
  \A p \in Task : Runs(p) =>
    \A v \in UserPages : (task[p].space.pte[v] # NotPresent) = (v * PGSIZE < task[p].sz)

\* The page below the stack of an image stays inaccessible, also in a forked copy, and
\* everything exec() pushed lies above it.
GuardKept ==
  \A p \in Task : task[p].guard >= 0 /\ Runs(p) =>
    /\ ~task[p].space.pte[task[p].guard].u
    /\ task[p].sp >= (task[p].guard + 1) * PGSIZE

\* What the checks of system-call arguments accept is mapped: the kernel does not fault on it.
ArgsMapped ==
  \A p \in Task : Runs(p) =>
    \A addr \in 0..KERNBASE, n \in {0, 1, PGSIZE} : argptr(p, addr, n) =>
      \A v \in UserPages : v * PGSIZE < addr + n /\ (v + 1) * PGSIZE > addr =>
        task[p].space.pte[v] # NotPresent

\* Whatever fails in exec(), sbrk() and fork(), no page is lost or shared, and an image that
\* runs has the pages they promise and no others.
MemorySound == PagesOwnedOnce /\ MappedToSize /\ GuardKept /\ ArgsMapped

=============================================================================
