---------------------------- MODULE CommandLine ----------------------------
(***************************************************************************)
(* The parser of the shell (Assignment3/initial_code/user/sh.c).           *)
(*                                                                         *)
(* A line is a sequence b of characters: blanks, the symbols of the shell, *)
(* and any others, which form words.  A word of a command is the pair of   *)
(* pointers <<q, eq>> into the line.  Every parsing function returns the   *)
(* command it built and the place s where it stopped; a panic of the       *)
(* parser, which ends the process, is the command Panicked.                *)
(***************************************************************************)
EXTENDS Integers, Sequences, FiniteSets, SequencesExt

CONSTANT MAXARGS

CommandLineAssumption == MAXARGS \in Nat \ {0}

Blank == " "
Symbols == {"<", "|", ">", "&", ";", "(", ")"}

es(b) == Len(b) + 1
At(b, s) == IF s < es(b) THEN b[s] ELSE ""
InWord(b, s) == At(b, s) \notin Symbols \cup {Blank, ""}
Skip(b, s, Test(_)) ==
    CHOOSE t \in s .. es(b) : /\ t = es(b) \/ ~Test(t)
                              /\ \A u \in s .. t - 1 : Test(u)
SkipBlanks(b, s) == Skip(b, s, LAMBDA t : At(b, t) = Blank)

gettoken(b, s) ==
    LET Token(ret, q, eq) == [ret |-> ret, word |-> <<q, eq>>, s |-> SkipBlanks(b, eq)]
        From(q) == IF At(b, q) = "" THEN Token("", q, q)
                   ELSE IF InWord(b, q) THEN Token("a", q, Skip(b, q, LAMBDA t : InWord(b, t)))
                   ELSE IF At(b, q) = ">" /\ At(b, q + 1) = ">" THEN Token("+", q, q + 2)
                   ELSE Token(b[q], q, q + 1)
    IN  From(SkipBlanks(b, s))

peek(b, s, toks) == At(b, SkipBlanks(b, s)) \in toks

-----------------------------------------------------------------------------
(* Constructors                                                             *)
execcmd(argv) == [type |-> "EXEC", argv |-> argv]
redircmd(cmd, op, word) ==
    [type |-> "REDIR", cmd |-> cmd, file |-> word, fd |-> IF op = "<" THEN 0 ELSE 1,
     mode |-> CASE op = "<" -> {} [] op = ">" -> {"O_CREATE", "O_TRUNC"} [] op = "+" -> {"O_CREATE"}]
pipecmd(left, right) == [type |-> "PIPE", left |-> left, right |-> right]
listcmd(left, right) == [type |-> "LIST", left |-> left, right |-> right]
backcmd(cmd) == [type |-> "BACK", cmd |-> cmd]

Return(cmd, s) == [cmd |-> cmd, s |-> s]
Panicked == Return([type |-> "PANIC"], 0)
Failed(r) == r.cmd.type = "PANIC"
\* What a function goes on to with the outcome x of a call.
With(x, F(_)) == F(x)

\* The redirections that follow, as functions of the command they are for: the
\* caller goes on adding arguments to the command inside.
Redirect(cmd, redirs) == FoldLeft(LAMBDA c, r : redircmd(c, r[1], r[2]), cmd, redirs)

RECURSIVE parseredirs(_, _, _)
parseredirs(b, s, redirs) ==
    LET More(op, file) ==
          IF file.ret # "a" THEN [ok |-> FALSE, redirs |-> redirs, s |-> s]
          ELSE parseredirs(b, file.s, Append(redirs, <<op.ret, file.word>>))
    IN  IF ~peek(b, s, {"<", ">"}) THEN [ok |-> TRUE, redirs |-> redirs, s |-> s]
        ELSE With(gettoken(b, s), LAMBDA op : More(op, gettoken(b, op.s)))

\* Mutant: one argument more than argv has room for, with its final 0.
TooManyLate(argc) == argc > MAXARGS

TooMany(argc) == argc >= MAXARGS

\* The loop of parseexec().
RECURSIVE Arguments(_, _, _, _)
Arguments(b, s, argv, redirs) ==
    LET More(r, t) ==
          IF peek(b, r.s, {"|", ")", "&", ";"}) \/ t.ret = ""
          THEN Return(Redirect(execcmd(argv), r.redirs), SkipBlanks(b, r.s))
          ELSE IF t.ret # "a" \/ TooMany(Len(argv) + 1) THEN Panicked
          ELSE Arguments(b, t.s, Append(argv, t.word), r.redirs)
    IN  With(parseredirs(b, s, redirs),
             LAMBDA r : IF r.ok THEN More(r, gettoken(b, r.s)) ELSE Panicked)

RECURSIVE parseline(_, _)

parseblock(b, s) ==
    LET Block(line, r) == IF r.ok THEN Return(Redirect(line.cmd, r.redirs), r.s) ELSE Panicked
    IN  With(parseline(b, gettoken(b, s).s), LAMBDA line :
          IF Failed(line) \/ ~peek(b, line.s, {")"}) THEN Panicked
          ELSE Block(line, parseredirs(b, gettoken(b, line.s).s, <<>>)))

parseexec(b, s) == IF peek(b, s, {"("}) THEN parseblock(b, s) ELSE Arguments(b, s, <<>>, <<>>)

RECURSIVE parsepipe(_, _)
parsepipe(b, s) ==
    LET Join(left, right) == IF Failed(right) THEN Panicked
                             ELSE Return(pipecmd(left.cmd, right.cmd), right.s)
    IN  With(parseexec(b, s), LAMBDA left :
          IF Failed(left) \/ ~peek(b, left.s, {"|"}) THEN left
          ELSE Join(left, parsepipe(b, gettoken(b, left.s).s)))

RECURSIVE Ampersands(_, _)
Ampersands(b, r) == IF ~Failed(r) /\ peek(b, r.s, {"&"})
                    THEN Ampersands(b, Return(backcmd(r.cmd), gettoken(b, r.s).s)) ELSE r

parseline(b, s) ==
    LET Join(left, right) == IF Failed(right) THEN Panicked
                             ELSE Return(listcmd(left.cmd, right.cmd), right.s)
    IN  With(Ampersands(b, parsepipe(b, s)), LAMBDA left :
          IF Failed(left) \/ ~peek(b, left.s, {";"}) THEN left
          ELSE Join(left, parseline(b, gettoken(b, left.s).s)))

parsecmd(b) ==
    With(parseline(b, 1), LAMBDA line :
      IF Failed(line) \/ SkipBlanks(b, line.s) # es(b) THEN Panicked.cmd ELSE line.cmd)

\* The places where nulterminate() puts a 0.
RECURSIVE nulterminate(_)
nulterminate(cmd) ==
    CASE cmd.type = "EXEC" -> {cmd.argv[i][2] : i \in DOMAIN cmd.argv}
      [] cmd.type = "REDIR" -> nulterminate(cmd.cmd) \cup {cmd.file[2]}
      [] cmd.type \in {"PIPE", "LIST"} -> nulterminate(cmd.left) \cup nulterminate(cmd.right)
      [] cmd.type = "BACK" -> nulterminate(cmd.cmd)
      [] OTHER -> {}

\* The string a pointer q stands for after that: up to the next 0.
String(b, nuls, q) == SubSeq(b, q, Skip(b, q, LAMBDA t : t \notin nuls) - 1)

\* The command with its strings in the place of the pointers.
RECURSIVE Strings(_, _, _)
Strings(b, nuls, cmd) ==
    CASE cmd.type = "EXEC" -> [cmd EXCEPT !.argv = [i \in DOMAIN @ |-> String(b, nuls, @[i][1])]]
      [] cmd.type = "REDIR" -> [cmd EXCEPT !.file = String(b, nuls, @[1]), !.cmd = Strings(b, nuls, @)]
      [] cmd.type \in {"PIPE", "LIST"} -> [cmd EXCEPT !.left = Strings(b, nuls, @),
                                                     !.right = Strings(b, nuls, @)]
      [] cmd.type = "BACK" -> [cmd EXCEPT !.cmd = Strings(b, nuls, @)]
      [] OTHER -> cmd

-----------------------------------------------------------------------------
(* The language of the shell as a grammar over tokens, from which the       *)
(* derivations of a line are enumerated.                                    *)

\* The tokens: the longest words, and the symbols, the > of a run in pairs.
Starts(b) ==
    LET runOf(s) == s - Cardinality({t \in 1 .. s : \A u \in t .. s : b[u] = ">"})
    IN  {s \in 1 .. Len(b) : /\ b[s] # Blank
                             /\ InWord(b, s) => ~(s > 1 /\ InWord(b, s - 1))
                             /\ b[s] = ">" => (s - runOf(s)) % 2 = 1}
Tokens(b) ==
    LET start == SetToSortSeq(Starts(b), <)
        end(s) == IF InWord(b, s) THEN CHOOSE t \in s + 1 .. es(b) :
                       /\ \A u \in s .. t - 1 : InWord(b, u)
                       /\ ~InWord(b, t)
                  ELSE IF b[s] = ">" /\ At(b, s + 1) = ">" THEN s + 2 ELSE s + 1
    IN  [i \in DOMAIN start |-> [tok |-> IF InWord(b, start[i]) THEN "word"
                                         ELSE IF end(start[i]) = start[i] + 2 THEN "+" ELSE b[start[i]],
                                 word |-> <<start[i], end(start[i])>>]]

Words(ts) == SelectSeq(ts, LAMBDA t : t.tok = "word")
Operators == {"<", ">", "+"}
\* The redirections among the tokens i to j, and the other words.
RedirsIn(ts, i, j) ==
    LET ops == SetToSortSeq({k \in i .. j : ts[k].tok \in Operators}, <)
    IN  [n \in DOMAIN ops |-> <<ts[ops[n]].tok, ts[ops[n] + 1].word>>]
ArgsIn(ts, i, j) ==
    LET args == SetToSortSeq({k \in i .. j : ts[k].tok = "word" /\ ~(k > i /\ ts[k-1].tok \in Operators)}, <)
    IN  [n \in DOMAIN args |-> ts[args[n]].word]
Plain(ts, i, j) == \A k \in i .. j : /\ ts[k].tok \in Operators \cup {"word"}
                                     /\ ts[k].tok \in Operators => k < j /\ ts[k + 1].tok = "word"

RECURSIVE Line(_, _, _), Pipeline(_, _, _)
Command(ts, i, j) ==
    (IF Plain(ts, i, j) /\ Len(ArgsIn(ts, i, j)) < MAXARGS
     THEN {Redirect(execcmd(ArgsIn(ts, i, j)), RedirsIn(ts, i, j))} ELSE {})
    \cup UNION {{Redirect(c, RedirsIn(ts, k + 1, j)) : c \in Line(ts, i + 1, k - 1)} :
                k \in {k \in i + 1 .. j : /\ ts[i].tok = "(" /\ ts[k].tok = ")"
                                          /\ Plain(ts, k + 1, j) /\ ArgsIn(ts, k + 1, j) = <<>>}}
Pipeline(ts, i, j) ==
    Command(ts, i, j) \cup
    UNION {{pipecmd(l, r) : l \in Command(ts, i, k - 1), r \in Pipeline(ts, k + 1, j)} :
           k \in {k \in i .. j : ts[k].tok = "|"}}
RECURSIVE Job(_, _, _)
Job(ts, i, j) == Pipeline(ts, i, j) \cup
                 (IF i =< j /\ ts[j].tok = "&" THEN {backcmd(c) : c \in Job(ts, i, j - 1)} ELSE {})
Line(ts, i, j) ==
    Job(ts, i, j) \cup
    UNION {{listcmd(l, r) : l \in Job(ts, i, k - 1), r \in Line(ts, k + 1, j)} :
           k \in {k \in i .. j : ts[k].tok = ";"}}

Derivations(b) == With(Tokens(b), LAMBDA ts : Line(ts, 1, Len(ts)))

\* parsecmd() accepts exactly the lines of the grammar and builds their only
\* derivation, and after nulterminate(), which writes into the line that it
\* has just parsed, every argument and file name still reads as its word.
ParsesGrammar(b) ==
    LET Cut(nuls) == \A t \in Range(Words(Tokens(b))) :
                         String(b, nuls, t.word[1]) = SubSeq(b, t.word[1], t.word[2] - 1)
    IN  With(parsecmd(b), LAMBDA cmd :
          /\ Derivations(b) = IF cmd.type = "PANIC" THEN {} ELSE {cmd}
          /\ cmd.type # "PANIC" => Cut(nulterminate(cmd)))
=============================================================================
