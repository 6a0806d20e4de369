----------------------------- MODULE LineEditor -----------------------------
(***************************************************************************)
(* What the console promises to its readers: a line can be edited until it *)
(* is complete, and then is read once, in the order typed.                 *)
(***************************************************************************)
EXTENDS Naturals, Sequences

CONSTANTS Char, Ends, Capacity

VARIABLES committed,   \* complete lines, to be read
          line         \* the line that is edited

lvars == <<committed, line>>

LInit == committed = <<>> /\ line = <<>>

Room == Capacity - Len(committed) - Len(line)

\* A line is complete at its end mark, or when there is no more room.
Store(c) ==
    /\ Room > 0
    /\ IF c \in Ends \/ Room = 1
       THEN committed' = committed \o Append(line, c) /\ line' = <<>>
       ELSE line' = Append(line, c) /\ UNCHANGED committed

\* Only the line that is edited can be erased.
Erase == /\ line # <<>>
         /\ line' = SubSeq(line, 1, Len(line) - 1) /\ UNCHANGED committed

Get(k) == /\ k <= Len(committed)
          /\ committed' = SubSeq(committed, k + 1, Len(committed)) /\ UNCHANGED line

LNext == \/ Erase
         \/ \E k \in 1..Capacity : Get(k)
         \/ \E c \in Char : Store(c)

LSpec == LInit /\ [][LNext]_lvars
=============================================================================
