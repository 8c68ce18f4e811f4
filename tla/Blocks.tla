------------------------------- MODULE Blocks -------------------------------
(***************************************************************************)
(* The blocks of files (fs.c): the bitmap, direct and indirect blocks,     *)
(* reading, writing and truncating.  A block holds BSIZE words, block      *)
(* numbers or data alike, so a block used again keeps what was in it until *)
(* balloc() clears it.  A step is one transaction under the inode's lock,  *)
(* and the record d carries the disk through it.  Descriptors of one inode *)
(* share it, each with an offset of its own.                               *)
(***************************************************************************)
EXTENDS Integers, Sequences, FiniteSets, FiniteSetsExt

CONSTANTS Ino, Fd, InoOf,        \* InoOf: the inode a descriptor is open on
          DataBlock, BSIZE, NDIRECT, MAXOPBLOCKS, WriteSizes,
          RootIno, FirstIno, FirstSize,  \* the file mkfs puts into the image
          MaxRemoved                     \* bound: how often files are removed

VARIABLES disk,      \* used: the bitmap; data; addrs and size of each inode; logged
          off,       \* f->off, or NotOpen
          todo,      \* words filewrite() has still to write
          text,      \* what was written to each inode
          removed    \* files removed so far

blkvars == <<disk, off, todo, text, removed>>

NotOpen == -1
NINDIRECT == BSIZE
MAXFILE == NDIRECT + NINDIRECT
Zeroed == [j \in 0..(BSIZE - 1) |-> 0]
NoAddrs == [n \in 0..NDIRECT |-> 0]
Contents(i, o) == 100 * i + o + 1          \* the word written at offset o of inode i
BitmapOf(b) == <<"bitmap", b>>             \* the worst case: one bitmap block per block
InodeOf(i) == <<"inode", i>>
DataOf(b) == <<"data", b>>
log_write(d, b) == [d EXCEPT !.logged = @ \cup {b}]

\* Mutant: the block keeps its old contents.
bzero_not(d, b) == d
bzero(d, b) == log_write([d EXCEPT !.data[b] = Zeroed], DataOf(b))

\* balloc(): the first free block; none is a panic (block 0 here).
balloc(d) ==
  LET free == DataBlock \ d.used  b == Min(free) IN
  IF free = {} THEN [d |-> [d EXCEPT !.full = TRUE], b |-> 0]
  ELSE [d |-> bzero(log_write([d EXCEPT !.used = @ \cup {b}], BitmapOf(b)), b), b |-> b]

\* bfree(), which panics for a free block.
bfree(d, b) == log_write([d EXCEPT !.used = @ \ {b}, !.twice = @ \/ b \notin d.used], BitmapOf(b))

\* bmap(): the block of index bn, allocated with its indirect block if needed.
bmap(d, i, bn) ==
  LET direct == balloc(d)
      ind == IF d.addrs[i][NDIRECT] # 0 THEN [d |-> d, b |-> d.addrs[i][NDIRECT]] ELSE direct
      d1 == [ind.d EXCEPT !.addrs[i][NDIRECT] = ind.b]
      entry == d1.data[ind.b][bn - NDIRECT]
      new == balloc(d1)
  IN IF bn < NDIRECT
     THEN IF d.addrs[i][bn] # 0 THEN [d |-> d, b |-> d.addrs[i][bn]]
          ELSE [direct EXCEPT !.d.addrs[i][bn] = direct.b]
     ELSE IF ind.b = 0 THEN ind
     ELSE IF entry # 0 THEN [d |-> d1, b |-> entry]
     ELSE [new EXCEPT !.d = log_write([@ EXCEPT !.data[ind.b][bn - NDIRECT] = new.b], DataOf(ind.b))]

\* itrunc(): the direct blocks, those of the indirect block, and that block.
\* Mutant: the blocks of the indirect block are left.
Indirect_left(d, i) == {}
Indirect(d, i) ==
  LET a == d.addrs[i][NDIRECT] IN IF a = 0 THEN {} ELSE {d.data[a][j] : j \in 0..(NINDIRECT - 1)} \ {0}
itrunc(d, i) ==
  LET bs == ({d.addrs[i][n] : n \in 0..NDIRECT} \ {0}) \cup Indirect(d, i) IN
  [FoldSet(LAMBDA b, s : bfree(s, b), d, bs)
     EXCEPT !.addrs[i] = NoAddrs, !.size[i] = 0, !.logged = @ \cup {InodeOf(i)}]

\* writei()'s loop from offset o to end, a block at a time; the size grows at the end.
RECURSIVE writeblocks(_, _, _, _)
writeblocks(d, i, o, end) ==
  LET m == bmap(d, i, o \div BSIZE)
      top == Min({end, (o \div BSIZE + 1) * BSIZE})
      words == [j \in 0..(BSIZE - 1) |-> LET x == (o \div BSIZE) * BSIZE + j IN
                  IF x >= o /\ x < top THEN Contents(i, x) ELSE m.d.data[m.b][j]]
  IN IF o >= end \/ d.full THEN d
     ELSE IF m.d.full THEN m.d
     ELSE writeblocks(log_write([m.d EXCEPT !.data[m.b] = words], DataOf(m.b)), i, top, end)
writei(d, i, o, n) ==
  LET w == writeblocks(d, i, o, o + n) IN
  IF n > 0 /\ o + n > d.size[i] /\ ~w.full
  THEN log_write([w EXCEPT !.size[i] = o + n], InodeOf(i)) ELSE w

\* readi() of the word at o; it finds every block, and bmap() allocates none.
readi(d, i, o) == d.data[bmap(d, i, o \div BSIZE).b][o % BSIZE]

\* Mutant: the chunk leaves no room for the bitmap blocks.
Chunk_large == (MAXOPBLOCKS - 1 - 1 - 2) * BSIZE
Chunk == ((MAXOPBLOCKS - 1 - 1 - 2) \div 2) * BSIZE

\* Between transactions only the number of blocks in the last one is kept.
Logged(d) == [d EXCEPT !.logged = Cardinality(@)]

-----------------------------------------------------------------------------
(* mkfs.c: the first image.  m is the disk and the next free block. *)

\* The block of index fbn, as iappend() finds it or makes it.
EntrySet(m, i, k) == [m EXCEPT !.d.data[m.d.addrs[i][NDIRECT]][k] = m.freeblock]
mkblock(m, i, fbn) ==
  LET direct == IF m.d.addrs[i][fbn] # 0 THEN m
                ELSE [m EXCEPT !.d.addrs[i][fbn] = m.freeblock, !.freeblock = @ + 1]
      ind == IF m.d.addrs[i][NDIRECT] # 0 THEN m
             ELSE [m EXCEPT !.d.addrs[i][NDIRECT] = m.freeblock, !.freeblock = @ + 1]
      entry == ind.d.data[ind.d.addrs[i][NDIRECT]][fbn - NDIRECT]
  IN IF fbn < NDIRECT THEN [m |-> direct, b |-> direct.d.addrs[i][fbn]]
     ELSE IF entry # 0 THEN [m |-> ind, b |-> entry]
     ELSE [m |-> [EntrySet(ind, i, fbn - NDIRECT) EXCEPT !.freeblock = @ + 1], b |-> ind.freeblock]

\* iappend() of n words, one at a time.
RECURSIVE iappend(_, _, _)
iappend(m, i, n) ==
  LET o == m.d.size[i]  x == mkblock(m, i, o \div BSIZE) IN
  IF n = 0 THEN m
  ELSE iappend([x.m EXCEPT !.d.data[x.b][o % BSIZE] = Contents(i, o), !.d.size[i] = o + 1], i, n - 1)

\* main(): the root with its own two entries and that of the file, the file, the root's size
\* rounded up, and the bitmap of all blocks below freeblock.
EmptyDisk ==
  [used |-> {}, data |-> [b \in DataBlock |-> Zeroed], addrs |-> [i \in Ino |-> NoAddrs],
   size |-> [i \in Ino |-> 0], logged |-> 0, full |-> FALSE, twice |-> FALSE]
mkfs ==
  LET m == iappend(iappend(iappend([d |-> EmptyDisk, freeblock |-> Min(DataBlock)], RootIno, 2),
                           RootIno, 1), FirstIno, FirstSize) IN
  [m.d EXCEPT !.size[RootIno] = (@ \div BSIZE + 1) * BSIZE,
              !.used = {b \in DataBlock : b < m.freeblock}]

-----------------------------------------------------------------------------
(* Descriptors *)

BlkInit ==
  /\ disk = mkfs
  /\ off = [f \in Fd |-> NotOpen]
  /\ todo = [f \in Fd |-> 0]
  /\ removed = 0
  /\ text = [i \in Ino |-> [o \in 1..mkfs.size[i] |->
               IF i = RootIno /\ o > 3 THEN 0 ELSE Contents(i, o - 1)]]

OpenFd(f) == off[f] = NotOpen /\ off' = [off EXCEPT ![f] = 0] /\ UNCHANGED <<disk, todo, text, removed>>
CloseFd(f) ==
  off[f] # NotOpen /\ todo[f] = 0 /\ off' = [off EXCEPT ![f] = NotOpen] /\ UNCHANGED <<disk, todo, text, removed>>

\* filewrite(): the call, then a transaction for each chunk.  writei() refuses what would
\* pass the largest file, and then the call ends.
StartWrite(f) ==
  /\ off[f] # NotOpen /\ todo[f] = 0 /\ ~disk.full
  /\ \E n \in WriteSizes : todo' = [todo EXCEPT ![f] = n]
  /\ UNCHANGED <<disk, off, text, removed>>
filewrite(f) ==
  LET i == InoOf[f]  n1 == Min({todo[f], Chunk}) IN
  /\ todo[f] > 0 /\ ~disk.full
  /\ UNCHANGED removed
  /\ IF off[f] > disk.size[i] \/ off[f] + n1 > MAXFILE * BSIZE
     THEN todo' = [todo EXCEPT ![f] = 0] /\ UNCHANGED <<disk, off, text>>
     ELSE /\ disk' = Logged(writei([disk EXCEPT !.logged = {}], i, off[f], n1))
          /\ off' = [off EXCEPT ![f] = @ + n1]
          /\ todo' = [todo EXCEPT ![f] = @ - n1]
          /\ text' = [text EXCEPT ![i] = [o \in 1..Max({Len(@), off[f] + n1}) |-> Contents(i, o - 1)]]

\* The last name and descriptor are gone: iput() truncates.
RemoveFile(i) ==
  /\ \A f \in Fd : InoOf[f] = i => off[f] = NotOpen
  /\ disk.size[i] > 0 /\ i # RootIno /\ ~disk.full
  /\ removed < MaxRemoved /\ removed' = removed + 1
  /\ disk' = [itrunc([disk EXCEPT !.logged = {}], i) EXCEPT !.logged = 0]
  /\ text' = [text EXCEPT ![i] = <<>>]
  /\ UNCHANGED <<off, todo>>

BlkNext ==
  \/ \E f \in Fd : OpenFd(f) \/ CloseFd(f) \/ StartWrite(f) \/ filewrite(f)
  \/ \E i \in Ino : RemoveFile(i)

-----------------------------------------------------------------------------
(* Properties *)

BlocksOf(i) ==
  LET ind == disk.addrs[i][NDIRECT] IN
  ({disk.addrs[i][n] : n \in 0..NDIRECT} \cup (IF ind = 0 THEN {} ELSE {disk.data[ind][j] : j \in 0..(BSIZE - 1)})) \ {0}

\* The bitmap marks exactly the blocks of files, no block belongs to two files, and bfree()
\* never meets a free one: after any writes and truncations no block is lost or shared.
BitmapExact ==
  ~disk.full =>
    /\ ~disk.twice
    /\ disk.used = UNION {BlocksOf(i) : i \in Ino}
    /\ \A i, j \in Ino : i # j => BlocksOf(i) \cap BlocksOf(j) = {}

\* readi() returns, for every offset below the size, the word last written there, through
\* whichever descriptor; the size is the furthest write.  So it does in the image of mkfs.
ReadsBack ==
  ~disk.full => \A i \in Ino :
    /\ disk.size[i] = Len(text[i])
    /\ \A o \in 1..Len(text[i]) : readi(disk, i, o - 1) = text[i][o]

\* A chunk of filewrite() writes no more blocks than begin_op() reserved for it, even
\* unaligned and with every allocation in a bitmap block of its own.
ChunkFits == disk.logged <= MAXOPBLOCKS

\* Files hold what was written to them, in blocks of their own, chunk by chunk within the
\* log's reservation.
FilesSound == BitmapExact /\ ReadsBack /\ ChunkFits

=============================================================================
