------------------------------ MODULE ShParse ------------------------------
(***************************************************************************)
(* The parser of sh.c.  A line is a sequence of the tokens gettoken()      *)
(* returns; a parse function takes what is left of the line and gives the  *)
(* command it builds and what it leaves.                                   *)
(***************************************************************************)
EXTENDS Integers, Sequences

CONSTANT MAXARGS

Symbol == {"<", ">", ">>", "|", "&", ";", "(", ")", "panic"}

execcmd(argv) == [type |-> "EXEC", argv |-> argv]
\* The file, and the descriptor that is to be replaced by it.
redircmd(cmd, file, fd) == [type |-> "REDIR", cmd |-> cmd, file |-> file, fd |-> fd]
pipecmd(left, right) == [type |-> "PIPE", left |-> left, right |-> right]
listcmd(left, right) == [type |-> "LIST", left |-> left, right |-> right]
backcmd(cmd) == [type |-> "BACK", cmd |-> cmd]
Panic == [cmd |-> [type |-> "panic"], rest |-> <<"panic">>]

peek(ts, toks) == ts # <<>> /\ Head(ts) \in toks
Word(ts) == ts # <<>> /\ Head(ts) \notin Symbol
Parsed(cmd, rest) == [cmd |-> cmd, rest |-> rest]

\* Mutant: a single redirection is parsed.
parseredirs_once(cmd, ts) ==
  IF ~peek(ts, {"<", ">", ">>"}) THEN Parsed(cmd, ts)
  ELSE IF ~Word(Tail(ts)) THEN Panic
  ELSE Parsed(redircmd(cmd, ts[2], IF ts[1] = "<" THEN 0 ELSE 1), SubSeq(ts, 3, Len(ts)))

RECURSIVE parseredirs(_, _)
parseredirs(cmd, ts) ==
  IF ~peek(ts, {"<", ">", ">>"}) THEN Parsed(cmd, ts)
  ELSE IF ~Word(Tail(ts)) THEN Panic
  ELSE parseredirs(redircmd(cmd, ts[2], IF ts[1] = "<" THEN 0 ELSE 1), SubSeq(ts, 3, Len(ts)))

\* The words of a simple command go into the execcmd inside its redirections.
RECURSIVE WithArg(_, _)
WithArg(cmd, word) ==
  IF cmd.type = "REDIR" THEN [cmd EXCEPT !.cmd = WithArg(cmd.cmd, word)]
  ELSE [cmd EXCEPT !.argv = Append(@, word)]

\* parseexec()'s loop, after argc words.
RECURSIVE parseargs(_, _)
parseargs(r, argc) ==
  IF r.rest = <<>> \/ peek(r.rest, {"|", ")", "&", ";"}) THEN r
  ELSE IF ~Word(r.rest) \/ argc + 1 >= MAXARGS THEN Panic
  ELSE parseargs(parseredirs(WithArg(r.cmd, Head(r.rest)), Tail(r.rest)), argc + 1)

RECURSIVE parseline(_), parsepipe(_), parseblock(_), backs(_)
parseexec(ts) ==
  IF peek(ts, {"("}) THEN parseblock(ts)
  ELSE parseargs(parseredirs(execcmd(<<>>), ts), 0)

parseblock(ts) ==
  LET r == parseline(Tail(ts)) IN
  IF peek(r.rest, {")"}) THEN parseredirs(r.cmd, Tail(r.rest)) ELSE Panic

parsepipe(ts) ==
  LET l == parseexec(ts)  r == parsepipe(Tail(l.rest)) IN
  IF peek(l.rest, {"|"}) THEN Parsed(pipecmd(l.cmd, r.cmd), r.rest) ELSE l

backs(r) == IF peek(r.rest, {"&"}) THEN backs(Parsed(backcmd(r.cmd), Tail(r.rest))) ELSE r

parseline(ts) ==
  LET l == backs(parsepipe(ts))  r == parseline(Tail(l.rest)) IN
  IF peek(l.rest, {";"}) THEN Parsed(listcmd(l.cmd, r.cmd), r.rest) ELSE l

\* What is left over is a syntax error, like every panic() on the way.
parsecmd(ts) == IF parseline(ts).rest = <<>> THEN parseline(ts).cmd ELSE Panic.cmd

-----------------------------------------------------------------------------
(* How a command is written *)

Enclosed(ts) == <<"(">> \o ts \o <<")">>
Redirection(cmd) == <<IF cmd.fd = 0 THEN "<" ELSE ">", cmd.file>>

RECURSIVE Written(_)
\* A command is put in parentheses where the grammar needs them.
Atom(cmd) == IF cmd.type \in {"EXEC", "REDIR"} THEN Written(cmd) ELSE Enclosed(Written(cmd))
Written(cmd) ==
  CASE cmd.type = "EXEC" -> cmd.argv
    [] cmd.type = "REDIR" -> Atom(cmd.cmd) \o Redirection(cmd)
    [] cmd.type = "PIPE" -> Atom(cmd.left) \o <<"|">>
         \o (IF cmd.right.type = "PIPE" THEN Written(cmd.right) ELSE Atom(cmd.right))
    [] cmd.type = "BACK" -> (IF cmd.cmd.type \in {"BACK", "PIPE"} THEN Written(cmd.cmd)
                             ELSE Atom(cmd.cmd)) \o <<"&">>
    [] cmd.type = "LIST" -> (IF cmd.left.type = "LIST" THEN Enclosed(Written(cmd.left))
                             ELSE Written(cmd.left)) \o <<";">> \o Written(cmd.right)

=============================================================================
