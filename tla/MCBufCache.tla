----------------------------- MODULE MCBufCache -----------------------------
(* BufCache for TLC: processes and the blocks that are only read are alike. *)
EXTENDS BufCache, TLC

Symmetry == Permutations(Proc) \cup Permutations(Block \ WriteBlock)
=============================================================================
