------------------------------ MODULE Console -------------------------------
(***************************************************************************)
(* The console (console.c): the input ring that the keyboard interrupt     *)
(* fills and edits while processes read it, and the cursor of the screen.  *)
(* A step is what runs under cons.lock: one character of the interrupt, or *)
(* consoleread() up to its sleep or its end.                               *)
(***************************************************************************)
EXTENDS Integers, Sequences, FiniteSets

CONSTANTS Reader, Char, NewLine, Eof,
          INPUT_BUF, IndexMod,      \* the indices are uint; INPUT_BUF divides IndexMod
          COLS, ROWS, ReadSize

VARIABLES input,     \* buf, r, w, e
          pos,       \* the cursor
          reading,   \* each reader: where it is, n, and the bytes stored
          offscreen  \* the panic of cgaputc(), or a write outside the screen's memory

convars == <<input, pos, reading, offscreen>>

BackSpace == "backspace"
Minus(a, b) == (a - b) % IndexMod
Plus(a, n) == (a + n) % IndexMod
At(i) == i % INPUT_BUF

\* cgaputc(): the new cursor, and whether everything stayed on the screen.
ScrollAt == ROWS - 1
Cursor(at, c) ==
  IF c = NewLine THEN (at \div COLS + 1) * COLS
  ELSE IF c = BackSpace THEN IF at > 0 THEN at - 1 ELSE at ELSE at + 1
\* Mutant: the text moves up and the cursor does not.
Scrolled_text(at) == at
Scrolled(at) == IF at \div COLS >= ScrollAt THEN at - COLS ELSE at
cgaputc(at, c) == Scrolled(Cursor(at, c))
OnScreen(at, c) ==
  /\ c \in {NewLine, BackSpace} \/ at < ROWS * COLS
  /\ Cursor(at, c) <= ROWS * COLS
  /\ cgaputc(at, c) < ROWS * COLS
  /\ Cursor(at, c) \div COLS >= ScrollAt => cgaputc(at, c) <= (ROWS - 1) * COLS

\* consputc() of one character, or of one backspace for each erased character.
consputc(c) == pos' = cgaputc(pos, c) /\ offscreen' = (offscreen \/ ~OnScreen(pos, c))
RECURSIVE Erased(_, _)
Erased(at, k) == IF k = 0 THEN at ELSE Erased(cgaputc(at, BackSpace), k - 1)

IdleReader == [at |-> "user", n |-> 0, got |-> <<>>]
ConInit ==
  /\ input = [buf |-> [i \in 0..(INPUT_BUF - 1) |-> NewLine], r |-> 0, w |-> 0, e |-> 0]
  /\ pos \in 0..(ROWS * COLS - 1)      \* wherever the boot loader left it
  /\ reading = [p \in Reader |-> IdleReader]
  /\ offscreen = FALSE

-----------------------------------------------------------------------------
(* consoleintr(), one character *)

\* Mutant: a finished line wakes nobody.
Woken_none == reading
Woken == [p \in Reader |-> IF reading[p].at = "asleep" THEN [reading[p] EXCEPT !.at = "woken"] ELSE reading[p]]

LineEnds(c, full) == c \in {NewLine, Eof} \/ full

Typed(c) ==
  LET e == Plus(input.e, 1)
      full == e = Plus(input.r, INPUT_BUF)
  IN
  /\ Minus(input.e, input.r) < INPUT_BUF
  /\ input' = [input EXCEPT !.buf[At(input.e)] = c, !.e = e,
                            !.w = IF LineEnds(c, full) THEN e ELSE @]
  /\ reading' = IF LineEnds(c, full) THEN Woken ELSE reading
  /\ consputc(c)

CanErase(e) == e # input.w
Backspaced ==
  /\ CanErase(input.e)
  /\ input' = [input EXCEPT !.e = Minus(@, 1)]
  /\ consputc(BackSpace)
  /\ UNCHANGED reading

\* ^U erases back to w or to a newline.
LineKilled ==
  LET typed == Minus(input.e, input.w)
      stops == {k \in 0..typed : k = typed \/ input.buf[At(Minus(input.e, k + 1))] = NewLine}
      k == CHOOSE m \in stops : \A j \in stops : m <= j
  IN
  /\ input' = [input EXCEPT !.e = Minus(@, k)]
  /\ pos' = Erased(pos, k)
  /\ UNCHANGED <<reading, offscreen>>

-----------------------------------------------------------------------------
(* consoleread(), consolewrite(), kill() *)

StartRead(p) ==
  /\ reading[p].at = "user"
  /\ reading' = [reading EXCEPT ![p] = [at |-> "woken", n |-> ReadSize, got |-> <<>>]]
  /\ UNCHANGED <<input, pos, offscreen>>

\* The loop of consoleread() on the characters there are, from r with n to go: the reader's
\* new state and r.  c is the character at r.
\* Mutant: an end-of-file mark after other input is dropped.
SavedEof_dropped(r, got) == Plus(r, 1)
SavedEof(r, got) == IF got # <<>> THEN r ELSE Plus(r, 1)
RECURSIVE ReadLoop(_, _)
ReadLoop(s, r) ==
  LET c == input.buf[At(r)]  got == Append(s.got, c) IN
  IF s.n = 0 THEN [s |-> [s EXCEPT !.at = "done"], r |-> r]
  ELSE IF r = input.w THEN [s |-> [s EXCEPT !.at = "asleep"], r |-> r]
  ELSE IF c = Eof THEN [s |-> [s EXCEPT !.at = "done"], r |-> SavedEof(r, s.got)]
  ELSE IF c = NewLine THEN [s |-> [s EXCEPT !.at = "done", !.got = got], r |-> Plus(r, 1)]
  ELSE ReadLoop([s EXCEPT !.n = @ - 1, !.got = got], Plus(r, 1))
consoleread(p) ==
  LET l == ReadLoop(reading[p], input.r) IN
  /\ reading[p].at = "woken"
  /\ reading' = [reading EXCEPT ![p] = l.s]
  /\ input' = [input EXCEPT !.r = l.r]
  /\ UNCHANGED <<pos, offscreen>>
EndRead(p) ==
  /\ reading[p].at = "done"
  /\ reading' = [reading EXCEPT ![p] = IdleReader]
  /\ UNCHANGED <<input, pos, offscreen>>

\* kill() wakes the reader, which returns -1 when there is nothing to read.
KillReader(p) ==
  /\ reading[p].at = "asleep"
  /\ reading' = [reading EXCEPT ![p] = IdleReader]
  /\ UNCHANGED <<input, pos, offscreen>>

consolewrite(c) == consputc(c) /\ UNCHANGED <<input, reading>>

ConNext ==
  \/ \E c \in Char \cup {NewLine, Eof} : Typed(c)
  \/ Backspaced \/ LineKilled
  \/ \E c \in Char \cup {NewLine} : consolewrite(c)
  \/ \E p \in Reader : StartRead(p) \/ consoleread(p) \/ EndRead(p) \/ KillReader(p)

-----------------------------------------------------------------------------
(* Properties *)

Between(a, b) == [j \in 1..Minus(b, a) |-> input.buf[At(Plus(a, j - 1))]]
L == INSTANCE LineInput WITH line <- Between(input.w, input.e), ready <- Between(input.r, input.w),
       taken <- [p \in Reader |-> reading[p].got], Room <- INPUT_BUF

\* The ring with its three indices is a line being edited and a queue of finished input:
\* nothing read can still be erased, nothing typed is lost or reordered, also when the
\* indices wrap and when several processes read.
IsLineInput == L!Spec

\* A reader sleeps only while there is no finished input; so one with input does not wait.
ReadersAwake == \A p \in Reader : reading[p].at = "asleep" => input.r = input.w

\* The cursor stays in the screen's memory, whatever is printed or erased.
CursorOnScreen == ~offscreen

\* consoleread() does not sleep on input it could have, and cgaputc() stays on the screen.
ConsoleSound == ReadersAwake /\ CursorOnScreen

=============================================================================
