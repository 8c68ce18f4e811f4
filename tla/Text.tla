-------------------------------- MODULE Text --------------------------------
(***************************************************************************)
(* Algorithms on bytes: copying and comparing (string.c, ulib.c), path     *)
(* elements and directory names (fs.c), numbers and formats (console.c,    *)
(* printf.c), grep and wc on input that comes in blocks, the layout of the *)
(* file system (mkfs.c, fs.h) and the parser of the shell (ShParse).  Each *)
(* is an operator; sample is an input, and the properties compare the      *)
(* result with a definition of what it should be.  A string is a sequence  *)
(* of characters, or an array from 0 where what follows its nul matters.   *)
(***************************************************************************)
EXTENDS Integers, Sequences, FiniteSets, SequencesExt, ShParse

CONSTANTS Samples, DIRSIZ, BufSize, IntMod   \* IntMod: 2^32; int is the upper half of it

VARIABLE sample

Rest(s, k) == SubSeq(s, k + 1, Len(s))
Is(kind) == sample.kind = kind

-----------------------------------------------------------------------------
(* string.c, ulib.c: memory is an array from 0 *)

RECURSIVE CopyUp(_, _, _, _), CopyDown(_, _, _, _)
CopyUp(m, d, s, n) == IF n = 0 THEN m ELSE CopyUp([m EXCEPT ![d] = m[s]], d + 1, s + 1, n - 1)
CopyDown(m, d, s, n) == IF n = 0 THEN m ELSE CopyDown([m EXCEPT ![d + n - 1] = m[s + n - 1]], d, s, n - 1)

\* Mutant: overlapping blocks are copied upwards too.
memmove_up(m, d, s, n) == CopyUp(m, d, s, n)
memmove(m, d, s, n) == IF s < d /\ s + n > d THEN CopyDown(m, d, s, n) ELSE CopyUp(m, d, s, n)
ulib_memmove(m, d, s, n) == CopyUp(m, d, s, n)

Nul == "nul"
\* strncpy() of the string t into n bytes: padded with nul, which is missing if t fills them.
strncpy(t, n) == [j \in 0..(n - 1) |-> IF j < Len(t) THEN t[j + 1] ELSE Nul]
\* strncmp() = 0, for two arrays of at least n bytes.
RECURSIVE SameFrom(_, _, _, _)
SameFrom(p, q, j, n) ==
  IF j = n THEN TRUE
  ELSE IF p[j] # Nul /\ p[j] = q[j] THEN SameFrom(p, q, j + 1, n) ELSE p[j] = q[j]
strncmp(p, q, n) == SameFrom(p, q, 0, n)

-----------------------------------------------------------------------------
(* fs.c: skipelem() and names in directories *)

\* The array name after skipelem() found the element e; old is what it held.
\* Mutant: a name that is shorter than its room is not terminated.
Element_open(e, old) == [j \in 0..(DIRSIZ - 1) |-> IF j < Len(e) THEN e[j + 1] ELSE old[j]]
Element(e, old) ==
  [j \in 0..(DIRSIZ - 1) |->
    IF j < Len(e) THEN e[j + 1] ELSE IF j = Len(e) THEN Nul ELSE old[j]]
RECURSIVE SkipSlashes(_)
SkipSlashes(path) == IF path # <<>> /\ path[1] = "/" THEN SkipSlashes(Tail(path)) ELSE path
\* skipelem(): the element and the rest of the path, which has no leading slash.
skipelem(path) ==
  LET s == SkipSlashes(path)
      len == CHOOSE k \in 0..Len(s) : (k = Len(s) \/ s[k + 1] = "/") /\ \A j \in 1..k : s[j] # "/"
  IN [elem |-> SubSeq(s, 1, len), rest |-> SkipSlashes(Rest(s, len))]
\* The names namex() looks up, one after the other in the same array.
RECURSIVE PathNames(_, _)
PathNames(path, old) ==
  LET k == skipelem(path)  name == Element(k.elem, old) IN
  IF SkipSlashes(path) = <<>> THEN <<>> ELSE <<name>> \o PathNames(k.rest, name)

-----------------------------------------------------------------------------
(* console.c, printf.c *)

\* printint(): x is a uint, so that -xx exists for the smallest int.
\* Mutant: the magnitude is an int.
Magnitude_int(xx) == IF xx < 0 THEN (-xx) % (IntMod \div 2) ELSE xx
Magnitude(xx) == IF xx < 0 THEN -xx ELSE xx
RECURSIVE Digits(_, _)
Digits(x, base) == (IF x \div base = 0 THEN <<>> ELSE Digits(x \div base, base)) \o <<x % base>>
MinusSign == -1
printint(xx, base, sign) ==
  IF sign /\ xx < 0 THEN <<MinusSign>> \o Digits(Magnitude(xx), base)
  ELSE Digits(IF xx < 0 THEN xx + IntMod ELSE xx, base)

\* atoi() has no sign.
RECURSIVE atoi(_, _)
atoi(s, n) == IF s = <<>> THEN n ELSE atoi(Tail(s), (n * 10 + s[1]) % IntMod)

\* What is printed, as a sequence: characters of the format, and arguments as converted
\* (%x and %p alike; %c in printf() only).
Lit(c) == <<"char", c>>
Conversion(c, a) == <<<<IF c = "p" THEN "x" ELSE c, a>>>>
\* cprintf(): what is left of the format and of the arguments.
RECURSIVE cprintf(_, _)
cprintf(fmt, args) ==
  IF fmt = <<>> \/ fmt = <<"%">> THEN <<>>
  ELSE IF fmt[1] # "%" THEN <<Lit(fmt[1])>> \o cprintf(Tail(fmt), args)
  ELSE IF fmt[2] \in {"d", "x", "p", "s"}
  THEN Conversion(fmt[2], args[1]) \o cprintf(Rest(fmt, 2), Tail(args))
  ELSE (IF fmt[2] = "%" THEN <<Lit("%")>> ELSE <<Lit("%"), Lit(fmt[2])>>) \o cprintf(Rest(fmt, 2), args)
\* printf(): the state is the % seen before.
\* Mutant: the state stays after a conversion.
After_percent(c) == c = "d"
After(c) == FALSE
RECURSIVE printf(_, _, _)
printf(fmt, percent, args) ==
  LET c == fmt[1] IN
  IF fmt = <<>> THEN <<>>
  ELSE IF ~percent
  THEN IF c = "%" THEN printf(Tail(fmt), TRUE, args) ELSE <<Lit(c)>> \o printf(Tail(fmt), FALSE, args)
  ELSE IF c \in {"d", "x", "p", "s", "c"}
  THEN Conversion(c, args[1]) \o printf(Tail(fmt), After(c), Tail(args))
  ELSE (IF c = "%" THEN <<Lit("%")>> ELSE <<Lit("%"), Lit(c)>>) \o printf(Tail(fmt), FALSE, args)

-----------------------------------------------------------------------------
(* grep.c, wc.c *)

RECURSIVE matchhere(_, _), matchstar(_, _, _)
matchhere(re, t) ==
  IF re = <<>> THEN TRUE
  ELSE IF Len(re) > 1 /\ re[2] = "*" THEN matchstar(re[1], Rest(re, 2), t)
  ELSE IF re = <<"$">> THEN t = <<>>
  ELSE t # <<>> /\ re[1] \in {".", t[1]} /\ matchhere(Tail(re), Tail(t))
\* Mutant: one instance at least.
matchstar_plus(c, re, t) == t # <<>> /\ c \in {t[1], "."} /\ (matchhere(re, Tail(t)) \/ matchstar(c, re, Tail(t)))
matchstar(c, re, t) == matchhere(re, t) \/ (t # <<>> /\ c \in {t[1], "."} /\ matchstar(c, re, Tail(t)))
match(re, t) ==
  IF re # <<>> /\ re[1] = "^" THEN matchhere(Tail(re), t)
  ELSE \E k \in 0..Len(t) : matchhere(re, Rest(t, k))

\* The complete lines in a buffer, and what follows the last newline.
Ends(b) == {k \in 1..Len(b) : b[k] = "nl"}
LineTo(b, k) == SubSeq(b, (CHOOSE j \in Ends(b) \cup {0} : j < k /\ \A i \in Ends(b) : i < k => i <= j) + 1, k - 1)
LinesIn(b) == LET e == SetToSortSeq(Ends(b), <) IN [k \in 1..Len(e) |-> LineTo(b, e[k])]
\* Mutant: a line that continues in the next block is dropped.
Partial_dropped(b) == <<>>
Partial(b) == IF Ends(b) = {} THEN <<>> ELSE Rest(b, Last(SetToSortSeq(Ends(b), <)))
\* grep(): each read() fills the rest of the buffer; a buffer without a newline is dropped.
RECURSIVE grep(_, _, _)
grep(re, b, in) ==
  LET n == IF Len(in) < BufSize - Len(b) THEN Len(in) ELSE BufSize - Len(b)
      all == b \o SubSeq(in, 1, n)
  IN IF n = 0 THEN <<>>
     ELSE SelectSeq(LinesIn(all), LAMBDA l : match(re, l)) \o grep(re, Partial(all), Rest(in, n))

\* wc(): words so far; inword is kept from one block to the next.
\* Mutant: it is reset for each block.
InWord_reset(inword) == FALSE
InWord(inword) == inword
RECURSIVE WordsIn(_, _), wc(_, _)
WordsIn(b, inword) ==
  IF b = <<>> THEN [w |-> 0, inword |-> inword]
  ELSE LET space == b[1] \in {"sp", "nl"}  r == WordsIn(Tail(b), ~space) IN
       [r EXCEPT !.w = @ + IF ~space /\ ~inword THEN 1 ELSE 0]
wc(in, inword) ==
  LET n == IF Len(in) < BufSize THEN Len(in) ELSE BufSize
      r == WordsIn(SubSeq(in, 1, n), inword)
  IN IF n = 0 THEN 0 ELSE r.w + wc(Rest(in, n), InWord(r.inword))

-----------------------------------------------------------------------------
(* mkfs.c, fs.h: the blocks of a disk of x.size blocks *)

\* Mutant: a partly used bitmap block is not counted.
nbitmap_floor(x) == x.size \div x.bpb
nbitmap(x) == x.size \div x.bpb + 1
ninodeblocks(x) == x.ninodes \div x.ipb + 1
inodestart(x) == 2 + x.nlog
bmapstart(x) == 2 + x.nlog + ninodeblocks(x)
nmeta(x) == 2 + x.nlog + ninodeblocks(x) + nbitmap(x)
IBLOCK(i, x) == i \div x.ipb + inodestart(x)
BBLOCK(b, x) == b \div x.bpb + bmapstart(x)

TextInit == sample \in Samples

-----------------------------------------------------------------------------
(* Properties *)

Cut(e) == IF Len(e) < DIRSIZ THEN e ELSE SubSeq(e, 1, DIRSIZ)
\* The parts of a path between slashes.
SplitAtSlash(path) ==
  LET cuts == SetToSortSeq({0, Len(path) + 1} \cup {k \in 1..Len(path) : path[k] = "/"}, <) IN
  [k \in 1..(Len(cuts) - 1) |-> SubSeq(path, cuts[k] + 1, cuts[k + 1] - 1)]

\* A pattern as a sequence of characters, each starred or not.
RECURSIVE Items(_)
Items(re) ==
  IF re = <<>> THEN <<>>
  ELSE IF Len(re) > 1 /\ re[2] = "*" THEN <<[c |-> re[1], star |-> TRUE]>> \o Items(Rest(re, 2))
  ELSE <<[c |-> re[1], star |-> FALSE]>> \o Items(Tail(re))
Means(re, t) ==
  LET bol == re # <<>> /\ re[1] = "^"
      items == Items(IF bol THEN Tail(re) ELSE re)
      eol == items # <<>> /\ Last(items) = [c |-> "$", star |-> FALSE]
      n == Len(items) - IF eol THEN 1 ELSE 0
  IN \E cut \in [0..n -> 0..Len(t)] :
       /\ bol => cut[0] = 0
       /\ eol => cut[n] = Len(t)
       /\ \A k \in 1..n :
            /\ cut[k] >= cut[k - 1]
            /\ ~items[k].star => cut[k] = cut[k - 1] + 1
            /\ \A j \in (cut[k - 1] + 1)..cut[k] : items[k].c \in {".", t[j]}

\* memmove() copies as if through a second buffer, for every overlap; the user library's
\* copies upwards only, which is enough downwards, the way grep uses it.
CopySafe == Is("copy") =>
  LET x == sample
      want == [a \in DOMAIN x.mem |-> IF a >= x.d /\ a < x.d + x.n THEN x.mem[x.s + (a - x.d)] ELSE x.mem[a]]
  IN /\ memmove(x.mem, x.d, x.s, x.n) = want
     /\ x.d <= x.s => ulib_memmove(x.mem, x.d, x.s, x.n) = want

\* A path names the directory entries of its elements, cut to DIRSIZ characters: dirlookup()
\* finds in what dirlink() stored exactly those, whatever the array name held before.
NamesFound == Is("path") =>
  LET parts == SelectSeq(SplitAtSlash(sample.path), LAMBDA e : e # <<>>)
      names == PathNames(sample.path, [j \in 0..(DIRSIZ - 1) |-> "b"])
  IN /\ Len(names) = Len(parts)
     /\ \A k \in 1..Len(parts) : \A e \in sample.stored :
          strncmp(names[k], strncpy(e, DIRSIZ), DIRSIZ)
            <=> Cut(parts[k]) = Cut(e)

\* printint() writes the digits of every int, the smallest one included, and atoi() reads
\* them back.
NumbersPrinted == Is("number") =>
  LET s == printint(sample.n, 10, TRUE)  d == IF sample.n < 0 THEN Tail(s) ELSE s IN
  /\ (sample.n < 0) = (s[1] = MinusSign)
  /\ \A k \in 1..Len(d) : d[k] \in 0..9
  /\ atoi(d, 0) = (IF sample.n < 0 THEN -sample.n ELSE sample.n)

\* The kernel's and the library's printf agree on formats without %c, which only the
\* second knows: they print the same and take the same arguments.
FormatsAgree == Is("format") => cprintf(sample.fmt, sample.args) = printf(sample.fmt, FALSE, sample.args)

\* match() finds what the pattern means: text that can be cut into pieces, one for each
\* character or starred character, from the start for ^ and to the end for $.
MatchMeans == Is("match") => match(sample.re, sample.text) = Means(sample.re, sample.text)

\* grep on a file whose lines fit the buffer prints the complete lines that match, each once
\* and in order, wherever the blocks of its reads end.
GrepComplete ==
  Is("grep") /\ (\A k \in 1..Len(LinesIn(sample.in)) : Len(LinesIn(sample.in)[k]) < BufSize) =>
    grep(sample.re, <<>>, sample.in) = SelectSeq(LinesIn(sample.in), LAMBDA l : match(sample.re, l))

\* wc counts every word once, also one that two reads share.
WordsOnce == Is("wc") =>
  wc(sample.in, FALSE) =
    Cardinality({k \in 1..Len(sample.in) :
      sample.in[k] \notin {"sp", "nl"} /\ (k = 1 \/ sample.in[k - 1] \in {"sp", "nl"})})

\* The kernel's IBLOCK and BBLOCK stay in the areas mkfs laid out, for every inode and block.
LayoutFits == Is("layout") =>
  /\ \A i \in 0..(sample.ninodes - 1) : IBLOCK(i, sample) \in inodestart(sample)..(bmapstart(sample) - 1)
  /\ \A b \in 0..(sample.size - 1) : BBLOCK(b, sample) \in bmapstart(sample)..(nmeta(sample) - 1)

\* parsecmd() of a command written with the fewest parentheses builds that command again:
\* the precedence of | & and ; and the order of redirections are those runcmd() relies on.
ParsesBack == Is("line") => parsecmd(Written(sample.cmd)) = sample.cmd

\* Every routine computes, from every input of the instance, what its definition above says.
RoutinesCorrect ==
  /\ CopySafe /\ NamesFound /\ NumbersPrinted /\ FormatsAgree
  /\ MatchMeans /\ GrepComplete /\ WordsOnce /\ LayoutFits /\ ParsesBack

=============================================================================
