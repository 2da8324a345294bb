------------------------------ MODULE MCShell -------------------------------
(* An instance of Shell, with the parser of ShellParser.                   *)
EXTENDS ShellParser

Token == symbols \cup {"a"}

\* The lines of at most three tokens, those of four tokens made of words,
\* ampersands and parentheses, longer ones of each kind, and lines typed while
\* a command runs in the background.
Short == UNION {[1 .. n -> Token] : n \in 0 .. 3}
           \cup [1 .. 4 -> {"a", "&", "(", ")"}]
Long == { <<"a", "|", "a", "|", "a">>, <<"a", "|", "(", "a", ";", "a", ")">>,
          <<"(", "a", "|", "a", ")", ">", "a">>, <<"a", "<", "a", "|", "a", ">>", "a">>,
          <<"(", "a", ";", "a", ")", "|", "a">>, <<"(", "a", "&", ")", "|", "a">>,
          <<"a", "&", "&", ";", "a">>, <<"<", "a", "a", ">", "a", "<", "a">>,
          <<"a", "|", "a", "&", ";", "a">> }
Pairs == {<<"a", "|", "a", "&">>, <<"cd", "a">>} \X {<<"a", "|", "a">>, <<"a", ";", "a">>}

AllSessions == {<<l>> : l \in Short \cup Long} \cup Pairs

\* The trees of all lines, with their parts.
AllCommands == UNION {Parts(t) : t \in {parsecmd(l) : l \in Line} \ {Panic}}
=============================================================================
