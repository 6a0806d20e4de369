-------------------------------- MODULE MCVm --------------------------------
(* Memory for TLC: the pages of the kernel, or the heap of a program.       *)
EXTENDS Vm, Umalloc

\* Grow by a part of a page and by more than one; shrink by less than a page,
\* and by more than there is.
MCDelta == {1, 3, -1, -7}

\* A segment that ends below the one before it, and one that has no bytes
MCProgram == {<<3>>, <<2, 1>>, <<0>>}

\* One of the two is at work, the other as at the start.
MCInit == Init /\ UInit
MCNext == \/ UInit /\ Next /\ UNCHANGED uvars
          \/ Init /\ UNext /\ UNCHANGED vars
MCSpec == MCInit /\ [][MCNext]_<<vars, uvars>>
=============================================================================
