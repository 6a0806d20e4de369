-------------------------------- MODULE MCFs --------------------------------
(* Fs for TLC: the paths and the calls that are made.                       *)
EXTENDS Fs, TLC

CONSTANTS maker, remover

C(op, path, new) == [op |-> op, path |-> path, new |-> new]

A  == <<"/", "a">>
B  == <<"/", "b">>
AB == <<"/", "a", "b">>

\* A directory a or a file a, a second name b, and a file in the directory.
MCCall == (maker   :> {C("mkdir", A, None), C("create", B, None),
                       C("link", B, AB), C("trunc", B, None)})
       @@ (remover :> {C("unlink", A, None), C("unlink", B, None),
                       C("mknod", AB, None), C("chdir", A, None)})
=============================================================================
