------------------------------ MODULE MCMemSys ------------------------------
(* MemSys on three lines of one cache set, the first of which is written.   *)
EXTENDS MemSys

CONSTANTS A, B, C, v0, v1, vb, vc

MCInitMem == [l \in Line |-> [w \in Word |-> CASE l = A -> v0 [] l = B -> vb [] l = C -> vc]]
=============================================================================
