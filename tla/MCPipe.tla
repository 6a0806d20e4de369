------------------------------- MODULE MCPipe -------------------------------
(* Pipe for TLC: slots of the file table, and bytes, are interchangeable.   *)
EXTENDS Pipe, TLC

Symmetry == Permutations(File) \cup Permutations(Byte)
=============================================================================
