----------------------------- MODULE BlockStore -----------------------------
(***************************************************************************)
(* What the buffer cache promises (the head of kernel/bio.c): one process  *)
(* at a time uses a block, and it finds what the last user left there.     *)
(***************************************************************************)
CONSTANTS Block, Val, Proc, InitVal

VARIABLES content,   \* what bread() shows of each block
          users      \* the processes between bread() and brelse() of a block

svars == <<content, users>>

SInit ==
    /\ content = [k \in Block |-> InitVal]
    /\ users = [k \in Block |-> {}]

SGet(p, k) ==
    /\ users[k] = {}
    /\ users' = [users EXCEPT ![k] = {p}]
    /\ UNCHANGED content

SWrite(p, k, v) ==
    /\ users[k] = {p}
    /\ content' = [content EXCEPT ![k] = v]
    /\ UNCHANGED users

SPut(p, k) ==
    /\ users[k] = {p}
    /\ users' = [users EXCEPT ![k] = {}]
    /\ UNCHANGED content

SNext == \E p \in Proc, k \in Block :
             SGet(p, k) \/ SPut(p, k) \/ \E v \in Val : SWrite(p, k, v)

SSpec == SInit /\ [][SNext]_svars
=============================================================================
