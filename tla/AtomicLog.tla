----------------------------- MODULE AtomicLog -----------------------------
(***************************************************************************)
(* What the logging layer of the kernel (kernel/log.c) promises to the     *)
(* file-system code above it: the file system is an array of blocks whose  *)
(* durable image only ever moves from one state in which no system call is *)
(* half done to the next such state, and a crash takes the visible image   *)
(* back to the durable one.                                                *)
(***************************************************************************)
EXTENDS FiniteSets

CONSTANTS Block,    \* home blocks of the file system
          Val,      \* block contents
          Proc,     \* processes that issue file-system calls
          InitVal   \* contents of every block in a fresh image

VARIABLES durable,  \* what a reboot would show
          current,  \* what the file-system code sees now
          active    \* processes between begin_op() and end_op()

avars == <<durable, current, active>>

AInit ==
    /\ durable = [b \in Block |-> InitVal]
    /\ current = [b \in Block |-> InitVal]
    /\ active  = {}

ABegin(p) ==
    /\ p \notin active
    /\ active' = active \cup {p}
    /\ UNCHANGED <<durable, current>>

AWrite(p) ==
    /\ p \in active
    /\ \E b \in Block, v \in Val : current' = [current EXCEPT ![b] = v]
    /\ UNCHANGED <<durable, active>>

AEnd(p) ==
    /\ p \in active
    /\ active' = active \ {p}
    /\ UNCHANGED <<durable, current>>

\* A commit takes everything visible, and only while no call is half done.
ACommit ==
    /\ active = {}
    /\ durable' = current
    /\ UNCHANGED <<current, active>>

ACrash ==
    /\ current' = durable
    /\ active' = {}
    /\ UNCHANGED durable

ANext ==
    \/ \E p \in Proc : ABegin(p) \/ AWrite(p) \/ AEnd(p)
    \/ ACommit
    \/ ACrash

ASpec == AInit /\ [][ANext]_avars
=============================================================================
