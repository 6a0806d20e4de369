------------------------------ MODULE ShGrammar -----------------------------
(***************************************************************************)
(* What a command line means to the shell: commands joined by ";" run one  *)
(* after the other, "&" after a pipeline puts it in the background, "|"    *)
(* joins two commands, "(" and ")" group, and a simple command is words    *)
(* and redirections in any order.  The meaning is found by cutting the     *)
(* line at its outermost separators; sh.c finds it by recursive descent.   *)
(*                                                                         *)
(* A line is a sequence of characters, of which "a" stands for those that  *)
(* make up words, " " for white space.  A word is the pair of the place    *)
(* where it begins and the place after its last character.                 *)
(***************************************************************************)
EXTENDS Integers, Sequences, SequencesExt

CONSTANT MAXARGS         \* a command has fewer words than this

ASSUME ShGrammarAssumption == MAXARGS \in Nat \ {0}

Symbol == {"<", "|", ">", "&", ";", "(", ")"}

Exec(argv)        == [type |-> "EXEC", argv |-> argv]
Redir(c, file, mode) == [type |-> "REDIR", cmd |-> c, file |-> file, mode |-> mode]
PipeOf(left, right)  == [type |-> "PIPE", left |-> left, right |-> right]
ListOf(left, right)  == [type |-> "LIST", left |-> left, right |-> right]
Back(c)           == [type |-> "BACK", cmd |-> c]
Wrong             == [type |-> "panic"]           \* not a command line

-----------------------------------------------------------------------------
(* Tokens: words as long as can be, ">>" where two ">" stand together.      *)

Before(l, i, c) == i > 1 /\ l[i - 1] = c
\* How many characters c stand directly before place i
Run(l, i, c) == Cardinality({j \in 1..(i - 1) : \A k \in j..(i - 1) : l[k] = c})
Starts(l) == {i \in 1..Len(l) : \/ l[i] \in Symbol \ {">"}
                                \/ l[i] = ">" /\ Run(l, i, ">") % 2 = 0
                                \/ l[i] = "a" /\ ~Before(l, i, "a")}
Ends(l, i) == CHOOSE j \in (i + 1)..(Len(l) + 1) :
                 /\ l[i] = "a" => (\A k \in i..(j - 1) : l[k] = "a")
                                  /\ (j = Len(l) + 1 \/ l[j] # "a")
                 /\ l[i] = ">" => (j = i + 2) = (i < Len(l) /\ l[i + 1] = ">")
                 /\ l[i] \in Symbol => j <= i + 2 /\ (l[i] # ">" => j = i + 1)
\* The places of S, which are in a sequence s, in their order
Ascending(s, S) == SelectSeq([i \in DOMAIN s |-> i], LAMBDA i : i \in S)
Tokens(l) == [k \in 1..Cardinality(Starts(l)) |->
                LET i == Ascending(l, Starts(l))[k]
                    j == Ends(l, i)
                IN  [tok |-> IF l[i] = ">" /\ j = i + 2 THEN ">>" ELSE l[i],
                     word |-> <<i, j>>]]

-----------------------------------------------------------------------------
(* The meaning of a sequence of tokens.                                     *)

Many(t, S, n) == Cardinality({k \in 1..n : t[k].tok \in S})
Depth(t, k)   == Many(t, {"("}, k - 1) - Many(t, {")"}, k - 1)
Outer(t, c)   == {k \in DOMAIN t : t[k].tok = c /\ Depth(t, k) = 0}
First(t, c)   == Min(Outer(t, c))
Left(t, k)    == SubSeq(t, 1, k - 1)
Right(t, k)   == SubSeq(t, k + 1, Len(t))
Arrow         == {"<", ">", ">>"}
\* A command with a part that is none is none itself.
Join(F(_, _), x, y) == IF Wrong \in {x, y} THEN Wrong ELSE F(x, y)

\* Words and redirections: an arrow and the word after it are a redirection,
\* the first of them the innermost.
Arrows(t) == {k \in DOMAIN t : t[k].tok \in Arrow}
Words(t)  == {k \in DOMAIN t : k \notin Arrows(t) /\ k - 1 \notin Arrows(t)}
Plain(t)  == /\ \A k \in Arrows(t) : k < Len(t) /\ t[k + 1].tok = "a"
             /\ \A k \in Words(t) : t[k].tok = "a"
             /\ Cardinality(Words(t)) < MAXARGS
Argv(t)   == LET ws == Ascending(t, Words(t)) IN [i \in DOMAIN ws |-> t[ws[i]].word]
Redirs(t) == LET as == Ascending(t, Arrows(t))
             IN  [i \in DOMAIN as |-> <<t[as[i] + 1].word, t[as[i]].tok>>]

Redirected(c, rs) == FoldLeft(LAMBDA d, r : Redir(d, r[1], r[2]), c, rs)

RECURSIVE Line(_)
\* The tokens but for the "&"s at the end, and how many of these there are
Backed(t) == LET n == Max({0} \cup {k \in DOMAIN t : t[k].tok # "&"})
             IN  <<SubSeq(t, 1, n), Len(t) - n>>

Simple(t) ==
    IF t # <<>> /\ t[1].tok = "("
    THEN LET closes == {k \in DOMAIN t : t[k].tok = ")" /\ Depth(t, k) = 1}
         IN  IF closes = {} THEN Wrong
             ELSE LET m    == Min(closes)
                      body == Line(SubSeq(t, 2, m - 1))
                      rest == Right(t, m)
                  IN  IF body = Wrong \/ ~Plain(rest) \/ Words(rest) # {} THEN Wrong
                      ELSE Redirected(body, Redirs(rest))
    ELSE IF Plain(t) THEN Redirected(Exec(Argv(t)), Redirs(t)) ELSE Wrong

RECURSIVE Pipeline(_)
Pipeline(t) ==
    IF Outer(t, "|") = {} THEN Simple(t)
    ELSE Join(PipeOf, Simple(Left(t, First(t, "|"))), Pipeline(Right(t, First(t, "|"))))

RECURSIVE InBack(_, _)
InBack(c, n) == IF n = 0 \/ c = Wrong THEN c ELSE Back(InBack(c, n - 1))

Line(t) ==
    LET Part(u) == InBack(Pipeline(Backed(u)[1]), Backed(u)[2])
    IN  IF Outer(t, ";") = {} THEN Part(t)
        ELSE Join(ListOf, Part(Left(t, First(t, ";"))), Line(Right(t, First(t, ";"))))

Meaning(l) == Line(Tokens(l))
=============================================================================
