------------------------------- MODULE MCProc -------------------------------
(* Proc on small tables; the CPUs are interchangeable.                      *)
EXTENDS Proc, TLC

CONSTANTS init, p1, p2, c1, c2

Symmetry == Permutations(CPU)
=============================================================================
