------------------------------- MODULE Shell -------------------------------
(***************************************************************************)
(* The shell of sh.c runs one command line: runcmd() as the system calls   *)
(* it makes, on top of Files, and the programs it starts as the calls they *)
(* make.  exec() keeps the descriptors and is not a step of its own.       *)
(***************************************************************************)
EXTENDS Files, FiniteSetsExt, ShParse

CONSTANTS Lines,     \* command lines
          Program,   \* the calls of each program
          MaxKill    \* kill() calls

VARIABLES prog       \* what is left to do, for each process; <<>> is exit()

vars == <<pc, killed, exiting, parent, ofile, ftable, iref, pipe, todo, ff, io, pfd, got, prog>>

P0 == -1
P1 == -2
Close(fd) == <<"close", fd>>
Dup(fd) == <<"dup", fd>>
Fork(c) == <<"fork", c>>
Wait == <<"wait">>

\* The parent's copies of the pipe's ends.
\* Mutant: the parent of a pipeline keeps the write end.
ParentCloses_one == <<Close(P0)>>
ParentCloses == <<Close(P0), Close(P1)>>

RECURSIVE runcmd(_)
runcmd(cmd) ==
  CASE cmd.type = "EXEC" -> IF cmd.argv = <<>> THEN <<>> ELSE Program[cmd.argv[1]]
    [] cmd.type = "REDIR" -> <<Close(cmd.fd), <<"open">>>> \o runcmd(cmd.cmd)
    [] cmd.type = "LIST" -> <<Fork(runcmd(cmd.left)), Wait>> \o runcmd(cmd.right)
    [] cmd.type = "PIPE" ->
         <<<<"pipe">>, <<"pipe-ok">>,
           Fork(<<Close(1), Dup(P1), Close(P0), Close(P1)>> \o runcmd(cmd.left)),
           Fork(<<Close(0), Dup(P0), Close(P0), Close(P1)>> \o runcmd(cmd.right))>>
         \o ParentCloses \o <<Wait, Wait>>
    [] cmd.type = "BACK" -> <<Fork(runcmd(cmd.cmd))>>
    [] cmd.type = "panic" -> <<>>

\* The shell's main loop, up to its next prompt.
main(line) == <<Fork(runcmd(parsecmd(line))), Wait, <<"gets">>>>

Init == FilesInit /\ \E line \in Lines : prog = [p \in Proc |-> IF p = sh THEN main(line) ELSE <<>>]

-----------------------------------------------------------------------------
(* System calls *)

Calls(p, name) == User(p) /\ prog[p] # <<>> /\ Head(prog[p])[1] = name
Arg(p) == LET a == Head(prog[p])[2] IN IF a < 0 THEN pfd[p][-a] ELSE a
Then(p, rest) == prog' = [prog EXCEPT ![p] = rest]
Done(p) == Then(p, Tail(prog[p]))

Close_(p) == Calls(p, "close") /\ sys_close(p, Arg(p)) /\ Done(p)
Dup_(p) == Calls(p, "dup") /\ sys_dup(p, Arg(p)) /\ Done(p)
Pipe_(p) == Calls(p, "pipe") /\ sys_pipe(p) /\ Done(p)
Wait_(p) == Calls(p, "wait") /\ wait(p) /\ Done(p)
Write_(p) == Calls(p, "write") /\ sys_write(p, Arg(p), Head(prog[p])[3]) /\ Done(p)

\* A redirection that fails ends the command.
Open_(p) == Calls(p, "open") /\ sys_open(p) /\ Then(p, IF OpenFails(p) THEN <<>> ELSE Tail(prog[p]))

\* panic("pipe")
PipeOk(p) ==
  /\ Calls(p, "pipe-ok")
  /\ Then(p, IF pfd[p] = <<>> THEN <<>> ELSE Tail(prog[p]))
  /\ UNCHANGED <<pc, procs, tables, pipe, todo, ff, io, pfd, got>>

\* fork1(): without a free process the shell gives up.
Fork_(p) ==
  /\ Calls(p, "fork")
  /\ IF Unused = {}
     THEN Then(p, <<>>) /\ UNCHANGED <<pc, procs, tables, pipe, todo, ff, io, pfd, got>>
     ELSE /\ fork(p, Min(Unused))
          /\ prog' = [prog EXCEPT ![p] = Tail(@), ![Min(Unused)] = Head(prog[p])[2]]

\* A program that reads to the end of its input: a first read, and one more
\* until one returns nothing.
Read_(p) ==
  /\ Calls(p, "read") /\ sys_read(p, Arg(p), Head(prog[p])[3])
  /\ Then(p, <<<<"again">> \o Tail(Head(prog[p]))>> \o Tail(prog[p]))
Again(p) ==
  /\ Calls(p, "again")
  /\ IF got[p].bytes = <<>>
     THEN Done(p) /\ UNCHANGED <<pc, procs, tables, pipe, todo, ff, io, pfd, got>>
     ELSE sys_read(p, Arg(p), Head(prog[p])[3]) /\ UNCHANGED prog

\* The end of a program, or of a process that was killed; the shell stays at its prompt.
Exit_(p) ==
  /\ p # init /\ (prog[p] = <<>> \/ p \in killed)
  /\ exit(p) /\ Then(p, <<>>)

\* init collects the processes that nobody waits for.
Reap == Children(init) # {} /\ wait(init) /\ UNCHANGED prog
Kill(p) ==
  /\ Cardinality(killed) < MaxKill /\ p \notin {init, sh}
  /\ kill(p) /\ UNCHANGED prog

Step(p) ==
  \/ Close_(p) \/ Dup_(p) \/ Pipe_(p) \/ Wait_(p) \/ Write_(p) \/ Open_(p) \/ PipeOk(p)
  \/ Fork_(p) \/ Read_(p) \/ Again(p) \/ Exit_(p)
  \/ Kernel(p) /\ UNCHANGED prog

Next == Reap \/ \E p \in Proc : Step(p) \/ Kill(p)

\* The scheduler runs every process that can run again and again, and nothing spins
\* for ever on a lock that is held for a bounded time.
Spec == Init /\ [][Next]_vars /\ WF_vars(Reap) /\ \A p \in Proc : WF_vars(Step(p))

-----------------------------------------------------------------------------
(* Properties *)

\* Every command line comes to its end: pipelines see the end of their input because
\* the shell closes every descriptor it does not use, whatever fails or is killed on the
\* way, and the shell is back at its prompt.  (Lines holds programs that terminate.)
CommandEnds ==
  /\ <>[](\A p \in Proc \ {init, sh} : pc[p] = "unused")
  /\ <>[](pc[sh] = "zombie" \/ prog[sh] = <<<<"gets">>>>)

=============================================================================
