------------------------------ MODULE MCShell ------------------------------
EXTENDS Shell, TLC

CONSTANTS x1, x2

\* "w" writes three bytes, "r" reads to the end of its input and "d" runs into
\* every limit on descriptors.
Programs ==
  [c \in {"w", "r", "d"} |->
     CASE c = "w" -> <<<<"write", 1, <<1, 2, 1>>>>>>
       [] c = "r" -> <<<<"read", 0, 2>>>>
       [] c = "d" -> <<Dup(0), <<"pipe">>, Dup(0), <<"pipe">>, <<"open">>, Close(4), Close(4)>>]

CommandLines ==
  {<<"w", "|", "r">>, <<"r", "<", "f", "|", "w">>, <<"w", "|", "r", "|", "r">>,
   <<"w", ">", "f", ";", "d">>, <<"(", "w", ";", "w", ")", "&", ";", "d">>, <<"w", "|">>,
   <<"w", "r", ">">>}

=============================================================================
