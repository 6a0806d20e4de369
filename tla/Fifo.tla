-------------------------------- MODULE Fifo --------------------------------
(***************************************************************************)
(* What a pipe promises to the processes at its ends, and the transmit     *)
(* buffer of the UART to its writers: a bounded queue of bytes, every byte *)
(* read once, in the order of writing.                                     *)
(***************************************************************************)
EXTENDS Naturals, Sequences

CONSTANTS Byte, Capacity, NoByte

VARIABLES queue,   \* bytes written and not yet read
          out      \* the byte read last

fvars == <<queue, out>>

FInit == queue = <<>> /\ out = NoByte

FPut(c) == /\ Len(queue) < Capacity
           /\ queue' = Append(queue, c)
           /\ UNCHANGED out

FGet == /\ queue # <<>>
        /\ out' = Head(queue) /\ queue' = Tail(queue)

\* Both ends are closed; a later pipe starts empty.
FClose == queue' = <<>> /\ UNCHANGED out

FStep == FGet \/ \E c \in Byte : FPut(c)
FNext == FStep \/ FClose

\* A queue that is never closed
FOpenSpec == FInit /\ [][FStep]_fvars

FSpec == FInit /\ [][FNext]_fvars
=============================================================================
