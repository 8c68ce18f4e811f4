------------------------------ MODULE MCInodes ------------------------------
EXTENDS Inodes

Dir(i, up, links) == [type |-> "DIR", nlink |-> links,
                      ents |-> [Free.ents EXCEPT !["."] = i, ![".."] = up]]

\* /a is a directory, /a/b and /b are links to one file.
Tree == [i \in Inum |->
  CASE i = 1 -> [Dir(1, 1, 2) EXCEPT !.ents["a"] = 2, !.ents["b"] = 3]
    [] i = 2 -> [Dir(2, 1, 1) EXCEPT !.ents["b"] = 3]
    [] i = 3 -> [Free EXCEPT !.type = "FILE", !.nlink = 2]
    [] OTHER -> Free]

C(op, path) == [op |-> op, path |-> path]
Calls == {C("open", <<"b">>), [op |-> "close"], C("create", <<"a", "a">>), C("mkdir", <<"a", "a">>),
          C("unlink", <<"b">>), C("unlink", <<"a", "b">>), C("unlink", <<"/", "a">>), C("chdir", <<"a">>),
          [op |-> "link", path |-> <<"b">>, new |-> <<"a", "a">>]}

=============================================================================
