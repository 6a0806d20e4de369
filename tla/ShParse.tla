------------------------------- MODULE ShParse ------------------------------
(***************************************************************************)
(* The parser of the shell (sh.c): a line to a tree of commands, or to     *)
(* panic(), which ends the child that parses.                              *)
(*                                                                         *)
(* A parse function of the code moves *ps; here it returns the command and *)
(* the place it has come to.  Places are numbered from 1, and es is        *)
(* Len(l) + 1, where the line's NUL is.                                    *)
(***************************************************************************)
EXTENDS ShGrammar

NUL == "0"

Ch(l, i) == IF i <= Len(l) THEN l[i] ELSE NUL

\* The first place from i on that is not white space; *ps after peek()
Skip(l, i) == Min({j \in i..(Len(l) + 1) : Ch(l, j) # " "})

Peek(l, i, S) == Ch(l, Skip(l, i)) \in S

GetToken(l, i) ==
    LET q  == Skip(l, i)
        eq == CASE Ch(l, q) = NUL -> q
                [] Ch(l, q) = ">" -> IF Ch(l, q + 1) = ">" THEN q + 2 ELSE q + 1
                [] Ch(l, q) \in Symbol \ {">"} -> q + 1
                [] OTHER -> Min({j \in q..(Len(l) + 1) : Ch(l, j) \in Symbol \cup {" ", NUL}})
    IN  [tok |-> IF Ch(l, q) = ">" /\ eq = q + 2 THEN ">>" ELSE Ch(l, q),
         word |-> <<q, eq>>, i |-> Skip(l, eq)]

At(c, i) == [cmd |-> c, i |-> i]
Panic    == At(Wrong, 0)
\* What F makes of a result, unless panic() has ended the process before
Then(r, F(_)) == IF r = Panic THEN Panic ELSE F(r)

-----------------------------------------------------------------------------

\* c in as many redircmd()s as there are redirections at i
RECURSIVE ParseRedirs(_, _, _)
ParseRedirs(c, l, i) ==
    IF ~Peek(l, i, {"<", ">"}) THEN At(c, i)
    ELSE LET t == GetToken(l, i)
             f == GetToken(l, t.i)
         IN  IF f.tok # "a" THEN Panic ELSE ParseRedirs(Redir(c, f.word, t.tok), l, f.i)

\* cmd->argv[argc] = q: the execcmd is inside the redirections read so far
RECURSIVE AddArg(_, _)
AddArg(c, w) == IF c.type = "EXEC" THEN [c EXCEPT !.argv = Append(@, w)]
                ELSE [c EXCEPT !.cmd = AddArg(@, w)]

OneTooMany(argc) == argc > MAXARGS                                     \* mutant
TooMany(argc)    == argc >= MAXARGS

RECURSIVE ParseArgs(_, _, _, _)
ParseArgs(c, argc, l, i) ==
    IF Peek(l, i, {"|", ")", "&", ";"}) THEN At(c, i)
    ELSE LET t == GetToken(l, i)
         IN  IF t.tok = NUL THEN At(c, t.i)
             ELSE IF t.tok # "a" \/ TooMany(argc + 1) THEN Panic
             ELSE Then(ParseRedirs(AddArg(c, t.word), l, t.i),
                       LAMBDA r : ParseArgs(r.cmd, argc + 1, l, r.i))

RECURSIVE ParseLine(_, _)
ParseBlock(l, i) ==
    Then(ParseLine(l, GetToken(l, i).i),
         LAMBDA r : IF ~Peek(l, r.i, {")"}) THEN Panic
                    ELSE ParseRedirs(r.cmd, l, GetToken(l, r.i).i))

ParseExec(l, i) ==
    IF Peek(l, i, {"("}) THEN ParseBlock(l, i)
    ELSE Then(ParseRedirs(Exec(<<>>), l, i), LAMBDA r : ParseArgs(r.cmd, 0, l, r.i))

RECURSIVE ParsePipe(_, _)
ParsePipe(l, i) ==
    Then(ParseExec(l, i),
         LAMBDA r : IF ~Peek(l, r.i, {"|"}) THEN r
                    ELSE Then(ParsePipe(l, GetToken(l, r.i).i),
                              LAMBDA s : At(PipeOf(r.cmd, s.cmd), s.i)))

RECURSIVE ParseBack(_, _)
ParseBack(l, r) == IF Peek(l, r.i, {"&"}) THEN ParseBack(l, At(Back(r.cmd), GetToken(l, r.i).i))
                   ELSE r

ParseLine(l, i) ==
    Then(ParsePipe(l, i),
         LAMBDA p : LET r == ParseBack(l, p)
                    IN  IF ~Peek(l, r.i, {";"}) THEN r
                        ELSE Then(ParseLine(l, GetToken(l, r.i).i),
                                  LAMBDA s : At(ListOf(r.cmd, s.cmd), s.i)))

-----------------------------------------------------------------------------
(* The line is cut into strings in place.                                   *)

\* The places nulterminate() writes a NUL to
RECURSIVE NulTerminate(_)
NulTerminate(c) ==
    CASE c.type = "EXEC"  -> {w[2] : w \in Range(c.argv)}
      [] c.type = "REDIR" -> NulTerminate(c.cmd) \cup {c.file[2]}
      [] c.type = "BACK"  -> NulTerminate(c.cmd)
      [] OTHER            -> NulTerminate(c.left) \cup NulTerminate(c.right)

\* The commands as they read once the NULs are in the line: a string ends at the
\* first one.
RECURSIVE Strings(_, _, _)
Strings(c, nuls, es) ==
    LET Str(w) == <<w[1], Min({j \in nuls \cup {es} : j >= w[1]})>>
    IN  CASE c.type = "EXEC"  -> Exec([i \in DOMAIN c.argv |-> Str(c.argv[i])])
          [] c.type = "REDIR" -> Redir(Strings(c.cmd, nuls, es), Str(c.file), c.mode)
          [] c.type = "BACK"  -> Back(Strings(c.cmd, nuls, es))
          [] OTHER -> [c EXCEPT !.left = Strings(@, nuls, es), !.right = Strings(@, nuls, es)]

ParseCmd(l) ==
    LET r == ParseLine(l, 1)
    IN  IF r = Panic \/ Skip(l, r.i) # Len(l) + 1 THEN Wrong
        ELSE Strings(r.cmd, NulTerminate(r.cmd), Len(l) + 1)
=============================================================================
