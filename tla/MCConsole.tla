----------------------------- MODULE MCConsole ------------------------------
(* Console for TLC: reading and editing lines; two readers; writing while   *)
(* input is echoed.                                                         *)
EXTENDS Console

CONSTANTS r1, r2, w1, w2

MCScene == {[typed |-> {"a", "cr", "D", "H", "U", "P"}, readers |-> {r1}, writers |-> {}],
            [typed |-> {"a", "D"}, readers |-> {r1, r2}, writers |-> {}],
            [typed |-> {"a", "H"}, readers |-> {}, writers |-> {w1, w2}]}
=============================================================================
