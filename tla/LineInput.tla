----------------------------- MODULE LineInput ------------------------------
(***************************************************************************)
(* What the console promises a reader: a line being edited, and a queue of *)
(* finished input that is read in the order it was typed.  An end-of-file  *)
(* mark in the queue ends a read; it is left for the next read unless it   *)
(* came first.                                                             *)
(***************************************************************************)
EXTENDS Integers, Sequences

CONSTANTS Reader, Char, NewLine, Eof, Room

VARIABLES line,      \* typed, can still be erased
          ready,     \* finished input
          taken      \* what the current read of each reader has so far

Init == line = <<>> /\ ready = <<>> /\ taken = [p \in Reader |-> <<>>]

Type(c) ==
  /\ Len(line) + Len(ready) < Room
  /\ IF c \in {NewLine, Eof} \/ Len(line) + Len(ready) = Room - 1
     THEN line' = <<>> /\ ready' = ready \o Append(line, c)
     ELSE line' = Append(line, c) /\ UNCHANGED ready
  /\ UNCHANGED taken
Erase == line # <<>> /\ line' = SubSeq(line, 1, Len(line) - 1) /\ UNCHANGED <<ready, taken>>
EraseLine == line' = <<>> /\ UNCHANGED <<ready, taken>>

\* A reader takes a part of the queue that stops at the first newline or end of file.
Take(p) == \E k \in 1..Len(ready) :
  LET s == SubSeq(ready, 1, k) IN
  /\ \A j \in 1..(k - 1) : s[j] \notin {NewLine, Eof}
  /\ IF s[k] # Eof THEN taken' = [taken EXCEPT ![p] = @ \o s]
     ELSE taken' = [taken EXCEPT ![p] = @ \o SubSeq(s, 1, k - 1)]
  /\ ready' = IF s[k] = Eof /\ taken'[p] # <<>> THEN SubSeq(ready, k, Len(ready))
              ELSE SubSeq(ready, k + 1, Len(ready))
  /\ UNCHANGED line
Done(p) == taken' = [taken EXCEPT ![p] = <<>>] /\ UNCHANGED <<line, ready>>

Next == \/ \E c \in Char \cup {NewLine, Eof} : Type(c)
        \/ Erase \/ EraseLine
        \/ \E p \in Reader : Take(p) \/ Done(p)
Spec == Init /\ [][Next]_<<line, ready, taken>>
=============================================================================
