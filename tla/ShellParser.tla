---------------------------- MODULE ShellParser -----------------------------
(***************************************************************************)
(* The parser of the shell (user/sh.c: parsecmd and the functions under    *)
(* it), which gives Shell its command trees, and what the programs of a    *)
(* tree should have as input and output.  The definitions are recursive,   *)
(* as the code is.                                                         *)
(***************************************************************************)
EXTENDS Shell, FiniteSets

CONSTANT MAXARGS

ASSUME ParserAssumption == MAXARGS \in Nat \ {0}

symbols == {"<", "|", ">", ">>", "&", ";", "(", ")"}

(* Parsing.  A parser takes the tokens s and a position and returns the    *)
(* command and the position behind it.  A word stands in a command as its  *)
(* position in s.                                                          *)

execcmd(argv) == [type |-> "EXEC", argv |-> argv]
redircmd(cmd, r) == [type |-> "REDIR", cmd |-> cmd, file |-> r.file, mode |-> r.mode]
pipecmd(left, right, at) == [type |-> "PIPE", left |-> left, right |-> right, at |-> at]
listcmd(left, right) == [type |-> "LIST", left |-> left, right |-> right]
backcmd(cmd) == [type |-> "BACK", cmd |-> cmd]

gettoken(s, i) == IF i > Len(s) THEN "0" ELSE IF s[i] \in symbols THEN s[i] ELSE "a"
peek(s, i, toks) == gettoken(s, i) \in toks

Parsed(cmd, i) == [cmd |-> cmd, i |-> i]
Ok(x) == x.cmd # Panic

\* The redirections at i, in order, or a panic for a missing file.
RECURSIVE parseredirs(_, _)
parseredirs(s, i) ==
  IF ~ peek(s, i, {"<", ">", ">>"}) THEN [rs |-> <<>>, i |-> i, ok |-> TRUE]
  ELSE IF gettoken(s, i + 1) # "a" THEN [rs |-> <<>>, i |-> i, ok |-> FALSE]
  ELSE LET more == parseredirs(s, i + 2) IN
       [more EXCEPT !.rs = <<[file |-> i + 1, mode |-> s[i]]>> \o @]

\* Each redirection wraps the command that the ones before it made.
RECURSIVE Redirected(_, _)
Redirected(cmd, rs) ==
  IF rs = <<>> THEN cmd ELSE Redirected(redircmd(cmd, Head(rs)), Tail(rs))

RECURSIVE parseline(_, _), parsepipe(_, _), Arguments(_, _, _, _), Backs(_, _)

parseblock(s, i) ==
  LET line == parseline(s, i + 1)
      r == parseredirs(s, line.i + 1) IN
  IF Ok(line) /\ peek(s, line.i, {")"}) /\ r.ok
  THEN Parsed(Redirected(line.cmd, r.rs), r.i) ELSE Parsed(Panic, i)

\* Words and redirections in any order, up to a symbol that ends the command.
Arguments(s, i, argv, redirs) ==
  LET r == parseredirs(s, i)
      all == redirs \o r.rs
      tok == gettoken(s, r.i) IN
  IF ~ r.ok THEN Parsed(Panic, i)
  ELSE IF tok \in {"|", ")", "&", ";", "0"} THEN Parsed(Redirected(execcmd(argv), all), r.i)
  ELSE IF tok # "a" \/ Len(argv) + 1 >= MAXARGS THEN Parsed(Panic, i)
  ELSE Arguments(s, r.i + 1, Append(argv, r.i), all)

parseexec(s, i) == IF peek(s, i, {"("}) THEN parseblock(s, i) ELSE Arguments(s, i, <<>>, <<>>)

parsepipe(s, i) ==
  LET left == parseexec(s, i)
      right == parsepipe(s, left.i + 1) IN
  IF ~ Ok(left) \/ ~ peek(s, left.i, {"|"}) THEN left
  ELSE IF ~ Ok(right) THEN right
  ELSE Parsed(pipecmd(left.cmd, right.cmd, left.i), right.i)

\* A mutant of Backs: only one ampersand is taken.
BacksOne(s, x) ==
  IF Ok(x) /\ peek(s, x.i, {"&"}) THEN Parsed(backcmd(x.cmd), x.i + 1) ELSE x

Backs(s, x) ==
  IF Ok(x) /\ peek(s, x.i, {"&"}) THEN Backs(s, Parsed(backcmd(x.cmd), x.i + 1)) ELSE x

parseline(s, i) ==
  LET left == Backs(s, parsepipe(s, i))
      right == parseline(s, left.i + 1) IN
  IF ~ Ok(left) \/ ~ peek(s, left.i, {";"}) THEN left
  ELSE IF ~ Ok(right) THEN right
  ELSE Parsed(listcmd(left.cmd, right.cmd), right.i)

\* Leftover tokens are a syntax error.
parsecmd(s) ==
  LET x == parseline(s, 1) IN IF x.i = Len(s) + 1 THEN x.cmd ELSE Panic

\* The words whose ends nulterminate() marks.
RECURSIVE nulterminate(_)
nulterminate(cmd) ==
  CASE cmd.type = "EXEC"  -> {cmd.argv[k] : k \in DOMAIN cmd.argv}
    [] cmd.type = "REDIR" -> nulterminate(cmd.cmd) \cup {cmd.file}
    [] cmd.type \in {"PIPE", "LIST"} -> nulterminate(cmd.left) \cup nulterminate(cmd.right)
    [] cmd.type = "BACK"  -> nulterminate(cmd.cmd)

-----------------------------------------------------------------------------
(* What the parser should make of a line                                  *)

\* A second definition of the language: split at the operators outside
\* parentheses, the weakest first.
First(S) == CHOOSE k \in S : \A j \in S : k <= j
Outside(s, lo, hi, tok) ==
  {k \in lo .. hi : s[k] = tok
     /\ Cardinality({j \in lo .. k : s[j] = "("}) = Cardinality({j \in lo .. k : s[j] = ")"})}

IsRedirs(s, lo, hi) ==
  \A k \in lo .. hi : IF (k - lo) % 2 = 0 THEN s[k] \in {"<", ">", ">>"} /\ k < hi
                                          ELSE s[k] \notin symbols
Redirections(s, lo, hi) ==
  LET at == {k \in lo .. hi : s[k] \in {"<", ">", ">>"}}
      nth(n) == CHOOSE k \in at : Cardinality({j \in at : j < k}) = n - 1 IN
  [n \in 1 .. Cardinality(at) |-> [file |-> nth(n) + 1, mode |-> s[nth(n)]]]

RECURSIVE RefLine(_, _, _), RefBack(_, _, _), RefPipe(_, _, _)
RefSimple(s, lo, hi) ==
  LET arg == {k \in lo .. hi : s[k] \notin symbols /\ (k = lo \/ s[k - 1] \notin {"<", ">", ">>"})}
      words == [n \in 1 .. Cardinality(arg) |->
                  CHOOSE k \in arg : Cardinality({j \in arg : j < k}) = n - 1]
      close == Outside(s, lo, hi, ")") IN
  IF lo <= hi /\ s[lo] = "("
  THEN LET k == First(close)
           inner == RefLine(s, lo + 1, k - 1) IN
       IF close = {} \/ inner = Panic \/ ~ IsRedirs(s, k + 1, hi) THEN Panic
       ELSE Redirected(inner, Redirections(s, k + 1, hi))
  ELSE IF /\ Cardinality(arg) < MAXARGS
          /\ \A k \in lo .. hi :
               \/ s[k] \notin symbols
               \/ s[k] \in {"<", ">", ">>"} /\ k < hi /\ s[k + 1] \notin symbols
       THEN Redirected(execcmd(words), Redirections(s, lo, hi))
       ELSE Panic
RefPipe(s, lo, hi) ==
  LET bars == Outside(s, lo, hi, "|")
      k == First(bars)
      left == RefSimple(s, lo, k - 1)
      right == RefPipe(s, k + 1, hi) IN
  IF bars = {} THEN RefSimple(s, lo, hi)
  ELSE IF left = Panic \/ right = Panic THEN Panic ELSE pipecmd(left, right, k)
RefBack(s, lo, hi) ==
  LET x == RefBack(s, lo, hi - 1) IN
  IF hi \notin Outside(s, lo, hi, "&") THEN RefPipe(s, lo, hi)
  ELSE IF x = Panic THEN Panic ELSE backcmd(x)
RefLine(s, lo, hi) ==
  LET semis == Outside(s, lo, hi, ";")
      k == First(semis)
      left == RefBack(s, lo, k - 1)
      right == RefLine(s, k + 1, hi) IN
  IF semis = {} THEN RefBack(s, lo, hi)
  ELSE IF left = Panic \/ right = Panic THEN Panic ELSE listcmd(left, right)

\* The recursive-descent parser accepts exactly the lines of the grammar and
\* makes their trees, and nulterminate() ends every word of an accepted line
\* (sh.c: parsecmd).
ParseCorrect ==
  \A q \in Slot : proc[q].pc = "parse" =>
    LET s == proc[q].line
        t == parsecmd(s) IN
    /\ t = RefLine(s, 1, Len(s))
    /\ t # Panic => nulterminate(t) = {k \in DOMAIN s : s[k] \notin symbols}

\* What the programs of a tree should have as standard input and output.
RECURSIVE WiringOf(_, _, _)
WiringOf(t, in, out) ==
  CASE t.type = "EXEC"  -> {[argv |-> t.argv, in |-> in, out |-> out]}
    [] t.type = "REDIR" -> IF t.mode = "<" THEN WiringOf(t.cmd, Open("<", t.file, 0), out)
                                           ELSE WiringOf(t.cmd, in, Open(t.mode, t.file, 0))
    [] t.type = "PIPE"  -> WiringOf(t.left, in, Open("w", 0, t.at)) \cup
                           WiringOf(t.right, Open("r", 0, t.at), out)
    [] t.type = "LIST"  -> WiringOf(t.left, in, out) \cup WiringOf(t.right, in, out)
    [] t.type = "BACK"  -> WiringOf(t.cmd, in, out)

\* A tree with its parts.
RECURSIVE Parts(_)
Parts(t) ==
  {t} \cup CASE t.type = "EXEC" -> {}
             [] t.type \in {"REDIR", "BACK"} -> Parts(t.cmd)
             [] t.type \in {"PIPE", "LIST"} -> Parts(t.left) \cup Parts(t.right)
=============================================================================
