----------------------------- MODULE PipeProofs -----------------------------
(***************************************************************************)
(* The pipe implements a bounded queue; the reference counts of the file   *)
(* table are exact, so that the page of a pipe is never used after it was  *)
(* freed; and nobody sleeps at a pipe without a reason.                    *)
(*                                                                         *)
(* The inductive invariant adds to these what the code relies on and never *)
(* says: which file or which half-finished fileclose() stands for an open  *)
(* end of the pipe, what a process has in each of its phases, and what the *)
(* holder of pi->lock knows of the processes that sleep.                   *)
(***************************************************************************)
EXTENDS Pipe, FiniteSetTheorems, FunctionTheorems, SequenceTheorems, WellFoundedInduction, TLAPS

-----------------------------------------------------------------------------
(* Division.                                                                *)

\* What % and \div compute.
LEMMA DivMod ==
    ASSUME NEW x \in Int, NEW S \in Nat \ {0}
    PROVE  x % S \in 0..(S - 1) /\ x \div S \in Int /\ x = S * (x \div S) + (x % S)
BY Z3

\* They are determined by it.
LEMMA ModUnique ==
    ASSUME NEW S \in Nat \ {0}, NEW q \in Int, NEW m \in 0..(S - 1), NEW x \in Int,
           x = S * q + m
    PROVE  x % S = m
BY Z3

\* An index that has not wrapped.
LEMMA ModSmall == ASSUME NEW S \in Nat \ {0}, NEW x \in 0..(S - 1) PROVE x % S = x
BY Z3

\* One that has wrapped once.
LEMMA ModWrapped == ASSUME NEW S \in Nat \ {0}, NEW x \in S..(2 * S - 1) PROVE x % S = x - S
BY Z3

\* A full turn leads to the same place.
LEMMA ModTurns ==
    ASSUME NEW S \in Nat \ {0}, NEW x \in Int, NEW k \in Int
    PROVE  (x + S * k) % S = x % S
<1> DEFINE q == x \div S
           m == x % S
<1>1. q \in Int /\ m \in 0..(S - 1) /\ x = S * q + m
  BY DivMod
<1> HIDE DEF q, m
<1>2. q + k \in Int /\ x + S * k \in Int /\ x + S * k = S * (q + k) + m
  BY <1>1, Z3
<1>3. (x + S * k) % S = m
  BY <1>1, <1>2, ModUnique
<1>4. QED
  BY <1>3 DEF m

\* Places less than a turn apart are distinct.
LEMMA ModDistinct ==
    ASSUME NEW S \in Nat \ {0}, NEW x \in Int, NEW y \in Int, x < y, y < x + S
    PROVE  x % S # y % S
<1> DEFINE q == x \div S
           k == y \div S
           m == x % S
<1>1. q \in Int /\ k \in Int /\ m \in 0..(S - 1) /\ x = S * q + m
  BY DivMod
<1>2. SUFFICES ASSUME m = y % S PROVE FALSE
  OBVIOUS
<1>3. y = S * k + m
  BY <1>2, DivMod
<1> HIDE DEF q, k, m
<1>4. S * (k - q) = y - x /\ k - q \in Int
  BY <1>1, <1>3, Z3
<1>5. ASSUME NEW t \in Int, S * t = y - x PROVE FALSE
  <2>1. CASE t <= 0
    BY <1>5, <2>1, Z3
  <2>2. CASE t >= 1
    BY <1>5, <2>2, Z3
  <2>3. QED
    BY <2>1, <2>2
<1>6. QED
  BY <1>4, <1>5

Divides(S, M) == M % S = 0

\* The place of an index does not depend on whether the index has wrapped.
LEMMA ModMod ==
    ASSUME NEW S \in Nat \ {0}, NEW M \in Nat \ {0}, Divides(S, M), NEW x \in Int, NEW y \in Int
    PROVE  ((x % M) + y) % S = (x + y) % S
<1> DEFINE q == x \div M
           m == x % M
           k == M \div S
<1>1. q \in Int /\ m \in Int /\ x = M * q + m
  <2>1. q \in Int /\ m \in 0..(M - 1) /\ x = M * q + m
    BY DivMod, Zenon
  <2>2. QED
    BY <2>1
<1>2. k \in Int /\ M = S * k
  BY DivMod DEF Divides
<1> HIDE DEF q, m, k
<1>3. k * q \in Int /\ m + y \in Int /\ x + y = (m + y) + S * (k * q)
  BY <1>1, <1>2, Z3
<1>4. (m + y) % S = (x + y) % S
  BY <1>3, ModTurns, ZenonT(40)
<1>5. QED
  BY <1>4 DEF m

\* A set of numbers has a least element.
LEMMA HasLeast ==
    ASSUME NEW T, T \subseteq Nat, T # {}
    PROVE  \E i \in T : \A j \in T : i <= j
<1>1. PICK i \in T : \A j \in T : <<j, i>> \notin OpToRel(<, Nat)
  BY NatLessThanWellFounded, WFMin, Zenon
<1>2. \A j \in T : ~(j < i)
  BY <1>1, Zenon DEF OpToRel
<1>3. QED
  BY <1>2

-----------------------------------------------------------------------------
(* Indices without %: the index k places on, and the places from rp to wp.  *)

Ahead(rp, k, M) == IF rp + k < M THEN rp + k ELSE rp + k - M
Dist(rp, wp, M) == IF rp <= wp THEN wp - rp ELSE wp + M - rp

\* The sum of an index and an offset, as the code computes it.
LEMMA ModAhead ==
    ASSUME NEW M \in Nat \ {0}, NEW rp \in 0..(M - 1), NEW k \in 0..M
    PROVE  (rp + k) % M = Ahead(rp, k, M)
<1>1. CASE rp + k < M
  BY <1>1, ModSmall DEF Ahead
<1>2. CASE rp + k >= M
  <2>1. rp + k \in M..(2 * M - 1)
    BY <1>2
  <2>2. (rp + k) % M = (rp + k) - M
    BY <2>1, ModWrapped, Zenon
  <2>3. QED
    BY <1>2, <2>2 DEF Ahead
<1>3. QED
  BY <1>1, <1>2

\* With or without adding M first: C's unsigned subtraction.
LEMMA ModDist ==
    ASSUME NEW M \in Nat \ {0}, NEW rp \in 0..(M - 1), NEW wp \in 0..(M - 1)
    PROVE  (wp + M - rp) % M = Dist(rp, wp, M) /\ (wp - rp) % M = Dist(rp, wp, M)
<1>1. CASE rp <= wp
  <2>1. wp + M - rp \in M..(2 * M - 1) /\ wp - rp \in 0..(M - 1)
    BY <1>1
  <2>2. (wp + M - rp) % M = (wp + M - rp) - M /\ (wp - rp) % M = wp - rp
    BY <2>1, ModWrapped, ModSmall
  <2>3. QED
    BY <1>1, <2>2 DEF Dist
<1>2. CASE wp < rp
  <2>1. wp - rp = M * (-1) + (wp + M - rp) /\ wp + M - rp \in 0..(M - 1)
    BY <1>2
  <2>2. (wp + M - rp) % M = wp + M - rp /\ (wp - rp) % M = wp + M - rp
    BY <2>1, ModUnique, ModSmall
  <2>3. QED
    BY <1>2, <2>2 DEF Dist
<1>3. QED
  BY <1>1, <1>2

\* They are inverse to each other.
LEMMA AheadDist ==
    ASSUME NEW M \in Nat \ {0}, NEW rp \in 0..(M - 1), NEW wp \in 0..(M - 1)
    PROVE  /\ Dist(rp, wp, M) \in 0..(M - 1) /\ Ahead(rp, Dist(rp, wp, M), M) = wp
           /\ Dist(rp, wp, M) = 0 <=> rp = wp
           /\ \A k \in 0..(M - 1) : Dist(rp, Ahead(rp, k, M), M) = k
BY DEF Ahead, Dist

\* One place on at the writing end.
LEMMA DistPut ==
    ASSUME NEW M \in Nat \ {0}, NEW rp \in 0..(M - 1), NEW wp \in 0..(M - 1),
           Dist(rp, wp, M) + 1 < M
    PROVE  Dist(rp, Ahead(wp, 1, M), M) = Dist(rp, wp, M) + 1
BY DEF Ahead, Dist

\* k places on at the reading end.
LEMMA DistGet ==
    ASSUME NEW M \in Nat \ {0}, NEW rp \in 0..(M - 1), NEW wp \in 0..(M - 1),
           NEW k \in 0..Dist(rp, wp, M)
    PROVE  Dist(Ahead(rp, k, M), wp, M) = Dist(rp, wp, M) - k
BY DEF Ahead, Dist

-----------------------------------------------------------------------------
(* The bytes in a ring, oldest first.                                       *)

IsRing(S, M) == S \in Nat \ {0} /\ M \in Nat \ {0} /\ Divides(S, M)
Contents(b, rp, d, S) == [i \in 1..d |-> b[(rp + i - 1) % S]]
Stored(b, i, c) == [b EXCEPT ![i] = c]

\* Writing at the write index appends, as long as there is room.
LEMMA ContentsPut ==
    ASSUME NEW S, NEW M, IsRing(S, M),
           NEW rp \in Nat, NEW d \in 0..(S - 1), NEW wp, wp = (rp + d) % M,
           NEW b, DOMAIN b = 0..(S - 1), NEW c
    PROVE  Contents(Stored(b, wp % S, c), rp, d + 1, S) = Append(Contents(b, rp, d, S), c)
<1>0. S \in Nat \ {0} /\ M \in Nat \ {0} /\ Divides(S, M)
  BY DEF IsRing
<1> USE <1>0
<1> DEFINE bb == [b EXCEPT ![wp % S] = c]
           V  == {b[i] : i \in 0..(S - 1)} \cup {c}
<1>1. wp % S = (rp + d) % S
  <2>1. wp \in Int
    BY DivMod
  <2> DEFINE x == rp + d
             y == 0
  <2>2. x \in Int /\ y \in Int
    OBVIOUS
  <2> HIDE DEF x, y
  <2>3. ((x % M) + y) % S = (x + y) % S
    BY <2>2, ModMod
  <2>4. x % M = wp
    BY DEF x
  <2>5. QED
    BY <2>1, <2>2, <2>3, <2>4 DEF x, y
<1>2. wp % S \in 0..(S - 1)
  <2>1. rp + d \in Int
    OBVIOUS
  <2>2. QED
    BY <2>1, <1>1, DivMod, Zenon
<1>3. ASSUME NEW i \in 1..d PROVE bb[(rp + i - 1) % S] = b[(rp + i - 1) % S]
  <2>1. (rp + i - 1) % S # (rp + d) % S
    <3>1. rp + i - 1 \in Int /\ rp + d \in Int /\ rp + i - 1 < rp + d /\ rp + d < (rp + i - 1) + S
      OBVIOUS
    <3>2. QED
      BY <3>1, ModDistinct, Zenon
  <2>2. (rp + i - 1) % S \in 0..(S - 1)
    <3>1. rp + i - 1 \in Int 
      OBVIOUS
    <3>2. QED
      BY <3>1, DivMod, Zenon
  <2>3. QED
    BY <1>1, <2>1, <2>2
<1>4. bb[(rp + (d + 1) - 1) % S] = c
  <2>1. rp + (d + 1) - 1 = rp + d
    OBVIOUS
  <2>2. QED
    BY <1>1, <1>2, <2>1
<1>5. ASSUME NEW i \in 1..d PROVE b[(rp + i - 1) % S] \in V
  <2>1. rp + i - 1 \in Int
    OBVIOUS
  <2>2. (rp + i - 1) % S \in 0..(S - 1)
    BY <2>1, DivMod, Zenon
  <2>3. QED
    BY <2>2
<1> DEFINE s == Contents(b, rp, d, S)
           t == Contents(bb, rp, d + 1, S)
<1> HIDE DEF bb
<1>6. s \in [1..d -> V]
  BY <1>5 DEF Contents
<1>7. \A i \in 1..d : t[i] = s[i]
  BY <1>3 DEF Contents
<1>8. t[d + 1] = c
  BY <1>4 DEF Contents
<1>9. t = [i \in 1..(d + 1) |-> t[i]]
  BY DEF Contents
<1> HIDE DEF s, t
<1>10. s \in Seq(V) /\ Len(s) = d /\ c \in V
  BY <1>6
<1>11. t \in Seq(V) /\ Len(t) = d + 1
  <2>1. \A i \in 1..(d + 1) : t[i] \in V
    BY <1>6, <1>7, <1>8, <1>10
  <2>2. t \in [1..(d + 1) -> V]
    BY <1>9, <2>1
  <2> HIDE DEF V
  <2>3. QED
    BY <2>2
<1> HIDE DEF V
<1>12. /\ Append(s, c) \in Seq(V) /\ Len(Append(s, c)) = d + 1
       /\ \A i \in 1..d : Append(s, c)[i] = s[i]
       /\ Append(s, c)[d + 1] = c
  BY <1>10, AppendProperties
<1>13. \A i \in 1..(d + 1) : t[i] = Append(s, c)[i]
  BY <1>7, <1>8, <1>12
<1>14. t = Append(s, c)
  BY <1>11, <1>12, <1>13, SeqEqual
<1>15. QED
  BY <1>14 DEF s, t, bb, Stored

\* Two rings have the same bytes from the k-th place to the d-th.
Agree(b, bb, rp, k, d, S) == \A i \in k..d : bb[(rp + i - 1) % S] = b[(rp + i - 1) % S]

\* Reading k bytes leaves the rest, whatever becomes of their places.
LEMMA ContentsGet ==
    ASSUME NEW S, NEW M, IsRing(S, M),
           NEW rp \in Nat, NEW d \in 0..S, NEW k \in 0..d,
           NEW b, NEW bb, Agree(b, bb, rp, k + 1, d, S)
    PROVE  Contents(bb, (rp + k) % M, d - k, S) = SubSeq(Contents(b, rp, d, S), k + 1, d)
<1>0. S \in Nat \ {0} /\ M \in Nat \ {0} /\ Divides(S, M)
  BY DEF IsRing
<1> USE <1>0
<1> DEFINE s == Contents(b, rp, d, S)
           t == Contents(bb, (rp + k) % M, d - k, S)
           V == {b[i] : i \in 0..(S - 1)}
<1>1. ASSUME NEW i \in 1..d PROVE b[(rp + i - 1) % S] \in V
  <2>1. rp + i - 1 \in Int
    OBVIOUS
  <2>2. (rp + i - 1) % S \in 0..(S - 1)
    BY <2>1, DivMod, Zenon
  <2>3. QED
    BY <2>2
<1>2. s \in [1..d -> V]
  BY <1>1 DEF Contents
<1>3. t = [i \in 1..(d - k) |-> t[i]]
  BY DEF Contents
<1>4. ASSUME NEW i \in 1..(d - k) PROVE t[i] = s[i + k]
  <2>1. rp + k \in Int /\ i - 1 \in Int
    OBVIOUS
  <2>2. (((rp + k) % M) + (i - 1)) % S = ((rp + k) + (i - 1)) % S
    <3> DEFINE x == rp + k
               y == i - 1
    <3>1. x \in Int /\ y \in Int
      OBVIOUS
    <3> HIDE DEF x, y
    <3>2. ((x % M) + y) % S = (x + y) % S
      BY <3>1, ModMod
    <3>3. QED
      BY <3>2 DEF x, y
  <2>3. (rp + k) % M \in Int
    <3>1. (rp + k) % M \in 0..(M - 1)
      BY <2>1, DivMod, Zenon
    <3>2. QED
      BY <3>1
  <2>4. /\ ((rp + k) % M) + (i - 1) = ((rp + k) % M) + i - 1
        /\ (rp + k) + (i - 1) = rp + (i + k) - 1
    BY <2>3
  <2>5. t[i] = bb[(rp + (i + k) - 1) % S]
    BY <2>2, <2>4 DEF Contents
  <2>6. i + k \in (k + 1)..d /\ i + k \in 1..d
    OBVIOUS
  <2>7. s[i + k] = b[(rp + (i + k) - 1) % S]
    BY <2>6 DEF Contents
  <2>8. QED
    BY <2>5, <2>6, <2>7 DEF Agree
<1> HIDE DEF s, t
<1>5. s \in Seq(V) /\ Len(s) = d
  BY <1>2
<1>6. SubSeq(s, k + 1, d) = [i \in 1..(d - k) |-> s[i + k]]
  BY <1>5
<1>7. QED
  BY <1>3, <1>4, <1>6 DEF s, t

\* Reading one byte: the first, whose place may be used again.
LEMMA ContentsHead ==
    ASSUME NEW S, NEW M, IsRing(S, M),
           NEW rp \in Nat, NEW d \in 1..S,
           NEW b, DOMAIN b = 0..(S - 1), NEW c
    PROVE  /\ Contents(b, rp, d, S) # <<>>
           /\ Head(Contents(b, rp, d, S)) = b[rp % S]
           /\ Contents(Stored(b, rp % S, c), (rp + 1) % M, d - 1, S)
                = Tail(Contents(b, rp, d, S))
<1>0. S \in Nat \ {0} /\ M \in Nat \ {0} /\ Divides(S, M)
  BY DEF IsRing
<1> USE <1>0
<1> DEFINE s == Contents(b, rp, d, S)
           bb == [b EXCEPT ![rp % S] = c]
           V == {b[i] : i \in 0..(S - 1)}
<1>1. ASSUME NEW i \in 1..d PROVE (rp + i - 1) % S \in 0..(S - 1)
  <2>1. rp + i - 1 \in Int
    OBVIOUS
  <2>2. QED
    BY <2>1, DivMod, Zenon
<1>2. s \in [1..d -> V]
  BY <1>1 DEF Contents
<1>3. s[1] = b[rp % S]
  <2>1. rp + 1 - 1 = rp
    OBVIOUS
  <2>2. QED
    BY <2>1 DEF Contents
<1>4. ASSUME NEW i \in 2..d PROVE bb[(rp + i - 1) % S] = b[(rp + i - 1) % S]
  <2>1. rp \in Int /\ rp + i - 1 \in Int /\ rp < rp + i - 1 /\ rp + i - 1 < rp + S
    OBVIOUS
  <2>2. rp % S # (rp + i - 1) % S
    BY <2>1, ModDistinct, Zenon
  <2>3. QED
    BY <1>1, <2>2
<1> HIDE DEF bb
<1>5. Contents(bb, (rp + 1) % M, d - 1, S) = SubSeq(s, 2, d)
  <2>1. 1 + 1 = 2 /\ 1 \in 0..d /\ d \in 0..S
    OBVIOUS
  <2>2. Contents(bb, (rp + 1) % M, d - 1, S) = SubSeq(s, 1 + 1, d)
    <3>1. Agree(b, bb, rp, 1 + 1, d, S)
      BY <1>4, <2>1 DEF Agree
    <3> HIDE <1>0
    <3>2. ASSUME NEW k \in 0..d, Agree(b, bb, rp, k + 1, d, S)
          PROVE  Contents(bb, (rp + k) % M, d - k, S) = SubSeq(s, k + 1, d)
      BY <2>1, <3>2, ContentsGet
    <3>3. QED
      BY <2>1, <3>1, <3>2, Zenon
  <2>3. QED
    BY <2>1, <2>2
<1> HIDE DEF s
<1>6. s \in Seq(V) /\ Len(s) = d
  <2> HIDE DEF V
  <2>1. d \in Nat
    OBVIOUS
  <2>2. QED
    BY ONLY <1>2, <2>1
<1>7. s # <<>> /\ Head(s) = s[1] /\ Tail(s) = SubSeq(s, 2, d)
  BY <1>6
<1>8. QED
  BY <1>3, <1>5, <1>7 DEF s, bb, Stored

-----------------------------------------------------------------------------
(* The state.                                                               *)

Index   == 0..(UintMod - 1)
Reading == {"rlock", "rwait", "rcopy", "rsleep"}
Writing == {"wlock", "wtest", "wput", "wsleep"}
Inside  == {"wtest", "wput", "rwait", "rcopy"}        \* between acquire and release of pi->lock

TypeOK ==
    /\ ofile \in [Proc -> [Fd -> File \cup {None}]]
    /\ ref \in [File -> Nat] /\ kind \in [File -> End \cup {None}]
    /\ alive \in BOOLEAN /\ data \in [0..(PIPESIZE - 1) -> Byte \cup {None}]
    /\ nread \in Index /\ nwrite \in Index
    /\ open \in [End -> BOOLEAN] /\ plock \in Proc \cup {None}
    /\ killed \in [Proc -> BOOLEAN] /\ left \in [Proc -> Int]
    /\ pc \in [Proc -> {"dead", "user", "pipe", "close", "exit"} \cup Reading \cup Writing]
    /\ closeq \in [Proc -> Seq(File)]
    /\ ff \in [Proc -> End \cup {None}]
    /\ ch \in Byte \cup {None} /\ abandoned \in BOOLEAN

\* What a process has in each phase; it has a file in hand once.
Distinct(s) == \A i, j \in 1..Len(s) : s[i] = s[j] => i = j

PhaseInv ==
    \A p \in Proc :
        /\ Distinct(closeq[p])
        /\ pc[p] = "dead" => ofile[p] = NoFiles
        /\ closeq[p] # <<>> => pc[p] \in {"pipe", "close", "exit"}
        /\ ff[p] # None => pc[p] \in {"close", "exit"}
        /\ pc[p] \in Reading => Has(p, "r")
        /\ pc[p] \in Writing => Has(p, "w")

\* pi->lock is held between acquire and release.
LockInv == \A p \in Proc : plock = p <=> pc[p] \in Inside

\* The ends of the pipe are files with references.  A file with references is one of
\* them, unless it is only in the hands of pipealloc() or of its error path.
KindInv ==
    /\ \A f \in File : kind[f] # None => ref[f] # 0
    /\ \A p \in Proc, d \in Fd : ofile[p][d] # None => kind[ofile[p][d]] # None

\* An end is open if and only if one file stands for it, or one process that has yet
\* to call pipeclose(); never two.
EndInv ==
    /\ alive <=> \E e \in End : open[e]
    /\ \A e \in End : open[e] <=> (\E f \in File : kind[f] = e) \/ (\E p \in Proc : ff[p] = e)
    /\ \A f, g \in File : kind[f] = kind[g] /\ kind[f] # None => f = g
    /\ \A p, q \in Proc : ff[p] = ff[q] /\ ff[p] # None => p = q
    /\ \A f \in File, p \in Proc : kind[f] = ff[p] => ff[p] = None

\* There are never more bytes than places.
UsedInv == Used <= PIPESIZE

\* What the holder of pi->lock knows about the pipe and its sleepers.
SleepInv ==
    /\ \A p \in Proc : /\ pc[p] = "rsleep" => open["w"]
                       /\ pc[p] = "wsleep" => open["r"]
                       /\ pc[p] = "wput" => open["r"]
                       /\ pc[p] = "rwait" => Empty /\ open["w"]
    /\ \A p, q \in Proc :
          /\ pc[p] = "rsleep" /\ pc[q] = "rcopy" => Empty \/ abandoned
          /\ pc[p] = "wsleep" /\ pc[q] \in {"wtest", "wput"} => Full
          /\ pc[p] = "wsleep" => pc[q] # "rwait"

PipeInv ==
    /\ TypeOK /\ PhaseInv /\ LockInv /\ KindInv /\ FileRefsExact /\ EndInv /\ UsedInv
    /\ SleepInv /\ SleepsForAReason
-----------------------------------------------------------------------------
(* Constants, descriptors, sequences of files, and counting.                *)

\* The sizes of the pipe.
LEMMA Sizes ==
    /\ UintMod \in Nat \ {0} /\ PIPESIZE \in Nat \ {0} /\ PIPESIZE < UintMod
    /\ IsRing(PIPESIZE, UintMod)
BY PipeAssumption DEF IsRing, Divides

\* None is nobody, no file and no byte; the first process is not killed.
LEMMA Names ==
    /\ Parent \in Proc /\ Parent \notin Victim /\ None \notin Proc /\ None \notin File
    /\ None \notin Byte /\ None \notin End /\ "r" \in End /\ "w" \in End /\ "r" # "w"
    /\ None # "r" /\ None # "w"
BY PipeAssumption DEF End

\* The least descriptor of a set is one of the set.
LEMMA FirstIn == ASSUME NEW S, S \subseteq Fd, S # {} PROVE First(S) \in S
<1>1. S \subseteq Nat
  BY PipeAssumption
<1>2. \E x \in S : \A y \in S : x <= y
  BY <1>1, HasLeast
<1>3. QED
  BY <1>2 DEF First

\* A process that can have two descriptors gets two.
LEMMA TwoFds ==
    ASSUME NEW p \in Proc, Cardinality(FreeFds(p)) >= 2
    PROVE  LET d == First(FreeFds(p)) e == First(FreeFds(p) \ {d})
           IN  d \in FreeFds(p) /\ e \in FreeFds(p) /\ d # e
<1> DEFINE S == FreeFds(p)
           d == First(S)
<1>1. S \subseteq Fd /\ IsFiniteSet(S)
  BY PipeAssumption, FS_Subset DEF FreeFds
<1> HIDE DEF S
<1>2. Cardinality(S) \in Nat /\ Cardinality(S) >= 2
  BY <1>1, FS_CardinalityType DEF S
<1>3. S # {}
  BY <1>2, FS_EmptySet
<1>4. d \in S
  BY <1>1, <1>3, FirstIn
<1> HIDE DEF d
<1>5. IsFiniteSet(S \ {d}) /\ Cardinality(S \ {d}) = Cardinality(S) - 1
  BY <1>1, <1>4, FS_RemoveElement
<1>6. S \ {d} # {}
  BY <1>2, <1>5, FS_EmptySet
<1>7. S \ {d} \subseteq Fd
  BY <1>1
<1>8. First(S \ {d}) \in S \ {d}
  BY <1>6, <1>7, FirstIn
<1>9. QED
  BY <1>4, <1>8 DEF S, d

\* What fileclose() takes off the files to close.
LEMMA TailOf ==
    ASSUME NEW s \in Seq(File), Distinct(s), s # <<>>
    PROVE  /\ Head(s) \in File /\ Tail(s) \in Seq(File) /\ Distinct(Tail(s))
           /\ \E i \in DOMAIN s : s[i] = Head(s)
           /\ \A f : (\E i \in DOMAIN Tail(s) : Tail(s)[i] = f)
                       <=> f # Head(s) /\ \E i \in DOMAIN s : s[i] = f
<1>1. /\ Len(s) \in Nat /\ Len(s) >= 1 /\ DOMAIN s = 1..Len(s) /\ Head(s) = s[1]
      /\ \A i \in 1..Len(s) : s[i] \in File
  BY LenProperties, ElementOfSeq
<1>2. /\ Tail(s) \in Seq(File) /\ Len(Tail(s)) = Len(s) - 1
      /\ \A i \in 1..(Len(s) - 1) : Tail(s)[i] = s[i + 1]
  BY <1>1
<1>3. DOMAIN Tail(s) = 1..(Len(s) - 1)
  BY <1>2
<1> DEFINE t == Tail(s)
           n == Len(s)
<1> HIDE DEF t, n
<1>4. Distinct(t)
  <2> SUFFICES ASSUME NEW i \in 1..Len(t), NEW j \in 1..Len(t), t[i] = t[j] PROVE i = j
    BY DEF Distinct
  <2>1. i \in 1..(n - 1) /\ j \in 1..(n - 1) /\ n \in Nat
    BY <1>1, <1>2 DEF t, n
  <2>2. s[i + 1] = s[j + 1]
    BY <1>2, <2>1 DEF t, n
  <2>3. i + 1 \in 1..n /\ j + 1 \in 1..n
    BY <2>1
  <2>4. i + 1 = j + 1
    BY <2>2, <2>3 DEF Distinct, n
  <2>5. QED
    BY <2>1, <2>4
<1>5. ASSUME NEW i \in DOMAIN t PROVE t[i] # Head(s) /\ \E j \in DOMAIN s : s[j] = t[i]
  <2>1. i \in 1..(n - 1) /\ t[i] = s[i + 1] /\ n \in Nat /\ DOMAIN s = 1..n
    BY <1>1, <1>2, <1>3 DEF t, n
  <2>2. i + 1 \in 1..n /\ 1 \in 1..n /\ i + 1 # 1
    BY <2>1
  <2>3. s[i + 1] # s[1]
    BY <2>2 DEF Distinct, n
  <2>4. QED
    BY <1>1, <2>1, <2>2, <2>3
<1>6. ASSUME NEW j \in DOMAIN s, s[j] # Head(s) PROVE \E i \in DOMAIN t : t[i] = s[j]
  <2>1. j \in 1..n /\ n \in Nat /\ j # 1
    BY <1>1, <1>6 DEF n
  <2>2. j - 1 \in 1..(n - 1) /\ (j - 1) + 1 = j
    BY <2>1
  <2>3. t[j - 1] = s[j]
    BY <1>2, <2>2 DEF t, n
  <2>4. QED
    BY <1>3, <2>2, <2>3 DEF t, n
<1>7. 1 \in DOMAIN s
  BY <1>1
<1>8. QED
  BY <1>1, <1>2, <1>4, <1>5, <1>6, <1>7, SMTT(30) DEF t

\* What filealloc() adds to the files in hand.
LEMMA AppendFile ==
    ASSUME NEW s \in Seq(File), Distinct(s), NEW f \in File, \A i \in DOMAIN s : s[i] # f
    PROVE  /\ Append(s, f) \in Seq(File) /\ Distinct(Append(s, f)) /\ Append(s, f) # <<>>
           /\ \A h : (\E i \in DOMAIN Append(s, f) : Append(s, f)[i] = h)
                       <=> h = f \/ \E i \in DOMAIN s : s[i] = h
<1> DEFINE t == Append(s, f)
           n == Len(s)
<1>1. n \in Nat /\ DOMAIN s = 1..n
  BY LenProperties
<1>2. /\ t \in Seq(File) /\ Len(t) = n + 1 /\ DOMAIN t = 1..(n + 1)
      /\ \A i \in 1..n : t[i] = s[i]
      /\ t[n + 1] = f
  <2>1. /\ t \in Seq(File) /\ Len(t) = n + 1
        /\ \A i \in 1..n : t[i] = s[i]
        /\ t[n + 1] = f
    BY AppendProperties
  <2>2. QED
    BY <2>1, LenProperties
<1> HIDE DEF t, n
<1>3. \A i \in 1..(n + 1) : i # n + 1 => i \in 1..n /\ t[i] = s[i] /\ t[i] # f
  BY <1>1, <1>2
<1>4. Distinct(t)
  <2> SUFFICES ASSUME NEW i \in 1..(n + 1), NEW j \in 1..(n + 1), t[i] = t[j] PROVE i = j
    BY <1>2 DEF Distinct
  <2>1. CASE i = n + 1 \/ j = n + 1
    BY <1>2, <1>3, <2>1
  <2>2. CASE i # n + 1 /\ j # n + 1
    BY <1>3, <2>2 DEF Distinct, n
  <2>3. QED
    BY <2>1, <2>2
<1>5. ASSUME NEW h PROVE (\E i \in DOMAIN t : t[i] = h) <=> h = f \/ \E i \in DOMAIN s : s[i] = h
  <2>1. ASSUME NEW i \in DOMAIN t, t[i] = h PROVE h = f \/ \E j \in DOMAIN s : s[j] = h
    BY <1>1, <1>2, <1>3, <2>1
  <2>2. ASSUME NEW j \in DOMAIN s, s[j] = h PROVE \E i \in DOMAIN t : t[i] = h
    BY <1>1, <1>2, <2>2
  <2>3. n + 1 \in DOMAIN t /\ t[n + 1] = f
    BY <1>1, <1>2
  <2>4. QED
    BY <2>1, <2>2, <2>3
<1>6. t # <<>>
  BY <1>1, <1>2
<1>7. QED
  BY <1>2, <1>4, <1>5, <1>6 DEF t

\* One file to close.
LEMMA OneFile ==
    ASSUME NEW f \in File
    PROVE  <<f>> \in Seq(File) /\ Distinct(<<f>>) /\ DOMAIN <<f>> = {1} /\ <<f>>[1] = f
BY DEF Distinct

\* The descriptors of a file, and the processes that have it in hand.
Descriptors(f) == {x \in Proc \X Fd : ofile[x[1]][x[2]] = f}
Holders(f)     == {p \in Proc : Pending(p, f)}

\* Sets of processes and of descriptors can be counted.
LEMMA Counted ==
    /\ \A S \in SUBSET (Proc \X Fd) : IsFiniteSet(S) /\ Cardinality(S) \in Nat
    /\ \A S \in SUBSET Proc : IsFiniteSet(S) /\ Cardinality(S) \in Nat
    /\ \A S \in SUBSET Fd : IsFiniteSet(S) /\ Cardinality(S) \in Nat
<1>1. IsFiniteSet(Proc \X Fd) /\ IsFiniteSet(Proc) /\ IsFiniteSet(Fd)
  BY PipeAssumption, FS_Product
<1>2. QED
  BY <1>1, FS_Subset, FS_CardinalityType

\* A file that is in hand, or has a descriptor, has a reference; it has no descriptor
\* when the reference that is closed is the last one.
LEMMA LastReference ==
    ASSUME TypeOK, FileRefsExact, NEW f \in File
    PROVE  /\ ref[f] = Cardinality(Descriptors(f)) + Cardinality(Holders(f))
           /\ Cardinality(Descriptors(f)) \in Nat /\ Cardinality(Holders(f)) \in Nat
           /\ \A p \in Proc, d \in Fd : ofile[p][d] = f => ref[f] >= 1
           /\ \A p \in Proc : Pending(p, f) =>
                 /\ ref[f] >= 1
                 /\ ref[f] = 1 => /\ \A q \in Proc, d \in Fd : ofile[q][d] # f
                                  /\ \A q \in Proc : Pending(q, f) => q = p
<1> DEFINE D == Descriptors(f)
           C == Holders(f)
<1>1. D \subseteq Proc \X Fd /\ C \subseteq Proc
  BY DEF Descriptors, Holders
<1>2. ref[f] = Cardinality(D) + Cardinality(C)
  BY DEF FileRefsExact, Descriptors, Holders
<1>3. \A p \in Proc, d \in Fd : ofile[p][d] = f => <<p, d>> \in D
  BY DEF Descriptors
<1>4. \A p \in Proc : Pending(p, f) => p \in C
  BY DEF Holders
<1> HIDE DEF D, C
<1>5. /\ IsFiniteSet(D) /\ Cardinality(D) \in Nat
      /\ IsFiniteSet(C) /\ Cardinality(C) \in Nat
  BY <1>1, Counted
<1>6. D # {} => Cardinality(D) >= 1
  BY <1>5, FS_EmptySet
<1>7. C # {} => Cardinality(C) >= 1
  BY <1>5, FS_EmptySet
<1>8. ASSUME NEW p \in C, ref[f] = 1 PROVE D = {} /\ C = {p}
  <2>1. Cardinality(C) = 1 /\ Cardinality(D) = 0
    BY <1>2, <1>5, <1>7, <1>8
  <2>2. D = {}
    BY <1>5, <2>1, FS_EmptySet
  <2>3. \E x : C = {x}
    BY <1>5, <2>1, FS_Singleton
  <2>4. QED
    BY <2>2, <2>3
<1>9. ASSUME NEW p \in Proc, NEW d \in Fd, ofile[p][d] = f PROVE ref[f] >= 1
  <2>1. D # {}
    BY <1>3, <1>9
  <2>2. QED
    BY <1>2, <1>5, <1>6, <2>1
<1>10. ASSUME NEW p \in Proc, Pending(p, f)
       PROVE  /\ ref[f] >= 1
              /\ ref[f] = 1 => /\ \A q \in Proc, d \in Fd : ofile[q][d] # f
                               /\ \A q \in Proc : Pending(q, f) => q = p
  <2>1. p \in C
    BY <1>4, <1>10
  <2>2. ref[f] >= 1
    BY <1>2, <1>5, <1>7, <2>1
  <2>3. ASSUME ref[f] = 1 PROVE D = {} /\ C = {p}
    BY <1>8, <2>1, <2>3
  <2>4. QED
    BY <1>3, <1>4, <2>2, <2>3
<1>11. QED
  BY <1>2, <1>5, <1>9, <1>10 DEF D, C

\* A file that has a descriptor has a reference.
LEMMA InUse ==
    ASSUME TypeOK, FileRefsExact
    PROVE  \A p \in Proc, d \in Fd : ofile[p][d] # None =>
              ofile[p][d] \in File /\ ref[ofile[p][d]] >= 1
<1> SUFFICES ASSUME NEW p \in Proc, NEW d \in Fd, ofile[p][d] # None
             PROVE  ofile[p][d] \in File /\ ref[ofile[p][d]] >= 1
  OBVIOUS
<1>1. ofile[p][d] \in File
  BY DEF TypeOK
<1>2. QED
  BY <1>1, LastReference

\* The descriptor that exit() closes next is in use; the one that dup() takes is not.
LEMMA DescriptorInUse ==
    ASSUME TypeOK, NEW p \in Proc
    PROVE  /\ ofile[p] # NoFiles => /\ First(Fd \ FreeFds(p)) \in Fd
                                    /\ ofile[p][First(Fd \ FreeFds(p))] \in File
           /\ FreeFds(p) # {} => ofile[p][First(FreeFds(p))] = None
<1>1. ASSUME ofile[p] # NoFiles
      PROVE  First(Fd \ FreeFds(p)) \in Fd /\ ofile[p][First(Fd \ FreeFds(p))] \in File
  <2>1. PICK x \in Fd : ofile[p][x] # None
    BY <1>1 DEF TypeOK, NoFiles
  <2>2. First(Fd \ FreeFds(p)) \in Fd \ FreeFds(p)
    BY <2>1, FirstIn DEF FreeFds
  <2>3. QED
    BY <2>2 DEF FreeFds, TypeOK
<1>2. ASSUME FreeFds(p) # {} PROVE ofile[p][First(FreeFds(p))] = None
  <2>1. First(FreeFds(p)) \in FreeFds(p)
    BY <1>2, FirstIn DEF FreeFds
  <2>2. QED
    BY <2>1 DEF FreeFds
<1>3. QED
  BY <1>1, <1>2

\* The next index, and the place of an index.
LEMMA NextIndex ==
    ASSUME NEW i \in Index
    PROVE  (i + 1) % UintMod \in Index /\ i % PIPESIZE \in 0..(PIPESIZE - 1)
<1>1. i + 1 \in Int /\ i \in Int
  BY DEF Index
<1>2. (i + 1) % UintMod \in 0..(UintMod - 1)
  BY <1>1, Sizes, DivMod, Zenon
<1>3. i % PIPESIZE \in 0..(PIPESIZE - 1)
  BY <1>1, Sizes, DivMod, Zenon
<1>4. QED
  BY <1>2, <1>3 DEF Index

\* Where wakeup(&pi->nread) sends the processes.
LEMMA WakesReaders ==
    ASSUME NEW p \in Proc, NEW l, pc' = [WakeReaders(pc) EXCEPT ![p] = l]
    PROVE  \A q \in Proc : pc'[q] = IF q = p THEN l
                                    ELSE IF pc[q] = "rsleep" THEN "rlock" ELSE pc[q]
BY DEF WakeReaders, Woken

\* Where wakeup(&pi->nwrite) sends them.
LEMMA WakesWriters ==
    ASSUME NEW p \in Proc, NEW l, pc' = [WakeWriters(pc) EXCEPT ![p] = l]
    PROVE  \A q \in Proc : pc'[q] = IF q = p THEN l
                                    ELSE IF pc[q] = "wsleep" THEN "wlock" ELSE pc[q]
BY DEF WakeWriters, Woken

\* A process keeps an end of the pipe.
LEMMA HasKept ==
    ASSUME NEW q \in Proc, NEW e, Has(q, e), ofile'[q] = ofile[q],
           \A x \in Fd : ofile[q][x] # None => kind'[ofile[q][x]] = kind[ofile[q][x]]
    PROVE  Has(q, e)'
BY DEF Has

\* filealloc(): a file that nobody has.
LEMMA FileAllocIs ==
    ASSUME TypeOK, PhaseInv, FileRefsExact, NEW p \in Proc, NEW f \in File, FileAlloc(p, f)
    PROVE  /\ pc[p] = "pipe" /\ ref[f] = 0 /\ ref' = [ref EXCEPT ![f] = 1]
           /\ ~Pending(p, f) /\ closeq' \in [Proc -> Seq(File)] /\ Distinct(closeq'[p])
           /\ \A q \in Proc : q # p => closeq'[q] = closeq[q]
           /\ \A h : Pending(p, h)' <=> h = f \/ Pending(p, h)
           /\ UNCHANGED <<ofile, kind, ff, pc>>
<1> DEFINE s == closeq[p]
<1>1. s \in Seq(File) /\ Distinct(s) /\ closeq \in [Proc -> Seq(File)]
  BY DEF TypeOK, PhaseInv
<1>2. /\ pc[p] = "pipe" /\ ref[f] = 0 /\ ref' = [ref EXCEPT ![f] = 1]
      /\ closeq' = [closeq EXCEPT ![p] = Append(s, f)] /\ UNCHANGED <<ofile, kind, ff, pc>>
  BY DEF FileAlloc
<1>3. ~Pending(p, f)
  BY <1>2, LastReference
<1>4. \A i \in DOMAIN s : s[i] # f
  BY <1>3 DEF Pending
<1>5. /\ Append(s, f) \in Seq(File) /\ Distinct(Append(s, f))
      /\ \A h : (\E i \in DOMAIN Append(s, f) : Append(s, f)[i] = h)
                  <=> h = f \/ \E i \in DOMAIN s : s[i] = h
  BY <1>1, <1>4, AppendFile
<1>6. /\ closeq' \in [Proc -> Seq(File)] /\ closeq'[p] = Append(s, f)
      /\ \A q \in Proc : q # p => closeq'[q] = closeq[q]
  BY <1>1, <1>2, <1>5
<1>7. \A h : Pending(p, h)' <=> h = f \/ Pending(p, h)
  BY <1>5, <1>6 DEF Pending
<1>8. QED
  BY <1>2, <1>3, <1>5, <1>6, <1>7

\* pipealloc() gets a page: there is no pipe, so no file and nobody stands for an end of it.
LEMMA NoPipeYet ==
    ASSUME TypeOK, EndInv, NEW p \in Proc, PipeAlloc(p)
    PROVE  /\ pc[p] = "pipe"
           /\ \A h \in File : kind[h] = None
           /\ \A q \in Proc : ff[q] = None
           /\ ~open["r"] /\ ~open["w"]
<1>1. ~alive /\ pc[p] = "pipe"
  BY DEF PipeAlloc
<1>2. ~open["r"] /\ ~open["w"]
  BY <1>1 DEF EndInv, End
<1>3. \A h \in File : kind[h] = None
  BY <1>2 DEF EndInv, End, TypeOK
<1>4. \A q \in Proc : ff[q] = None
  BY <1>2 DEF EndInv, End, TypeOK
<1>5. QED
  BY <1>1, <1>2, <1>3, <1>4

\* The two files in its hands.
LEMMA TwoInHand ==
    ASSUME TypeOK, PhaseInv, NEW p \in Proc, PipeAlloc(p)
    PROVE  /\ closeq[p][1] \in File /\ closeq[p][2] \in File /\ closeq[p][1] # closeq[p][2]
           /\ \A h : Pending(p, h) <=> h = closeq[p][1] \/ h = closeq[p][2]
<1> DEFINE s == closeq[p]
<1>1. s \in Seq(File) /\ Distinct(s) /\ Len(s) = 2
  BY DEF PipeAlloc, TypeOK, PhaseInv
<1>2. DOMAIN s = {1, 2} /\ 1 \in 1..Len(s) /\ 2 \in 1..Len(s)
  <2>1. DOMAIN s = 1..2
    BY <1>1, LenProperties
  <2>2. QED
    BY <1>1, <2>1
<1>3. s[1] \in File /\ s[2] \in File
  BY <1>1, <1>2, ElementOfSeq
<1>4. s[1] # s[2]
  BY <1>1, <1>2 DEF Distinct
<1>5. \A h : Pending(p, h) <=> h = s[1] \/ h = s[2]
  BY <1>2 DEF Pending
<1>6. QED
  BY <1>3, <1>4, <1>5

\* They become the ends of the pipe.
LEMMA EndsOfNewPipe ==
    ASSUME TypeOK, PhaseInv, EndInv, NEW p \in Proc, PipeAlloc(p)
    PROVE  /\ kind' \in [File -> End \cup {None}]
           /\ \A h \in File : kind'[h] = IF h = closeq[p][1] THEN "r"
                                        ELSE IF h = closeq[p][2] THEN "w" ELSE None
<1> DEFINE f == closeq[p][1]
           g == closeq[p][2]
<1>1. f \in File /\ g \in File /\ f # g
  BY TwoInHand
<1>2. kind' = [kind EXCEPT ![f] = "r", ![g] = "w"]
  BY DEF PipeAlloc
<1>3. \A h \in File : kind[h] = None
  BY NoPipeYet
<1> HIDE DEF f, g
<1>4. \A h \in File : kind'[h] = IF h = f THEN "r" ELSE IF h = g THEN "w" ELSE None
  BY <1>1, <1>2, <1>3 DEF TypeOK
<1>5. kind' \in [File -> End \cup {None}]
  BY <1>1, <1>2 DEF TypeOK, End
<1>6. QED
  BY <1>4, <1>5 DEF f, g

\* Then one file stands for each end, and nobody has yet to close one.
LEMMA NewPipeEnds ==
    ASSUME TypeOK, PhaseInv, EndInv, NEW p \in Proc, PipeAlloc(p), ff' = ff PROVE EndInv'
<1> DEFINE f == closeq[p][1]
           g == closeq[p][2]
<1>1. f \in File /\ g \in File /\ f # g
  BY TwoInHand
<1>2. \A h \in File : kind'[h] = IF h = f THEN "r" ELSE IF h = g THEN "w" ELSE None
  BY EndsOfNewPipe
<1>3. \A q \in Proc : ff'[q] = None
  BY NoPipeYet
<1>4. alive' = TRUE /\ open' = [e \in End |-> TRUE]
  BY DEF PipeAlloc
<1> HIDE DEF f, g
<1>5. QED
  BY <1>1, <1>2, <1>3, <1>4, Names DEF EndInv, End

\* Its files have references, and nobody has a descriptor.
LEMMA NewPipeFiles ==
    ASSUME TypeOK, PhaseInv, KindInv, FileRefsExact, EndInv, NEW p \in Proc, PipeAlloc(p)
    PROVE  /\ \A h \in File : kind'[h] # None => ref[h] # 0
           /\ \A q \in Proc, x \in Fd : ofile[q][x] = None
           /\ kind'[closeq[p][1]] # None /\ kind'[closeq[p][2]] # None
<1> DEFINE f == closeq[p][1]
           g == closeq[p][2]
<1>1. f \in File /\ g \in File /\ Pending(p, f) /\ Pending(p, g)
  BY TwoInHand
<1>2. \A h \in File : kind'[h] = IF h = f THEN "r" ELSE IF h = g THEN "w" ELSE None
  BY EndsOfNewPipe
<1> HIDE DEF f, g
<1>3. ref[f] >= 1 /\ ref[g] >= 1
  BY <1>1, LastReference
<1>4. \A h \in File : kind'[h] # None => ref[h] # 0
  BY <1>2, <1>3
<1>5. \A q \in Proc, x \in Fd : ofile[q][x] = None
  <2>1. \A h \in File : kind[h] = None
    BY NoPipeYet
  <2>2. QED
    BY <2>1 DEF KindInv, TypeOK
<1>6. kind'[f] # None /\ kind'[g] # None
  BY <1>1, <1>2, Names
<1>7. QED
  BY <1>4, <1>5, <1>6 DEF f, g

\* fileclose(): the file it takes, and what becomes of it.
LEMMA FileCloseIs ==
    ASSUME TypeOK, PhaseInv, FileRefsExact, NEW p \in Proc, FileClose(p)
    PROVE  \E f \in File :
              /\ Pending(p, f) /\ ref[f] \in Nat /\ ref[f] >= 1 /\ ref[f] - 1 \in Nat
              /\ ref' = [ref EXCEPT ![f] = ref[f] - 1]
              /\ \/ /\ ref[f] = 1 /\ kind' = [kind EXCEPT ![f] = None]
                    /\ ff' = [ff EXCEPT ![p] = kind[f]]
                 \/ ref[f] # 1 /\ kind' = kind /\ ff' = ff
              /\ closeq' \in [Proc -> Seq(File)] /\ Distinct(closeq'[p])
              /\ \A q \in Proc : q # p => closeq'[q] = closeq[q]
              /\ \A h : Pending(p, h)' <=> h # f /\ Pending(p, h)
<1> DEFINE s == closeq[p]
           f == Head(s)
<1>1. s \in Seq(File) /\ Distinct(s) /\ s # <<>> /\ closeq \in [Proc -> Seq(File)]
  BY DEF FileClose, TypeOK, PhaseInv
<1>2. /\ f \in File /\ Tail(s) \in Seq(File) /\ Distinct(Tail(s))
      /\ \E i \in DOMAIN s : s[i] = f
      /\ \A h : (\E i \in DOMAIN Tail(s) : Tail(s)[i] = h) <=> h # f /\ \E i \in DOMAIN s : s[i] = h
  BY <1>1, TailOf
<1>3. closeq' = [closeq EXCEPT ![p] = Tail(s)]
  BY DEF FileClose
<1>4. \/ /\ ref[f] = 1 /\ ref' = [ref EXCEPT ![f] = 0]
         /\ kind' = [kind EXCEPT ![f] = None] /\ ff' = [ff EXCEPT ![p] = kind[f]]
      \/ ref[f] # 1 /\ ref' = [ref EXCEPT ![f] = ref[f] - 1] /\ kind' = kind /\ ff' = ff
  BY Zenon DEF FileClose, LastRef
<1> HIDE DEF f
<1>5. closeq' \in [Proc -> Seq(File)] /\ closeq'[p] = Tail(s)
      /\ \A q \in Proc : q # p => closeq'[q] = closeq[q]
  BY <1>1, <1>2, <1>3
<1>6. Pending(p, f)
  BY <1>2 DEF Pending
<1>7. \A h : Pending(p, h)' <=> h # f /\ Pending(p, h)
  BY <1>2, <1>5 DEF Pending
<1>8. ref[f] \in Nat /\ ref[f] >= 1
  BY <1>2, <1>6, LastReference DEF TypeOK
<1>9. ref[f] - 1 \in Nat /\ (ref[f] = 1 => ref[f] - 1 = 0)
  BY <1>8
<1>10. ref' = [ref EXCEPT ![f] = ref[f] - 1]
  BY <1>4, <1>9
<1>11. QED
  BY <1>2, <1>4, <1>5, <1>6, <1>7, <1>8, <1>9, <1>10

-----------------------------------------------------------------------------
(* nread and nwrite.                                                        *)

Plus(i, k)  == (i + k) % UintMod
Minus(j, i) == (j - i) % UintMod

\* An index k places on.
LEMMA PlusAhead ==
    ASSUME NEW i \in Index, NEW k \in 0..UintMod
    PROVE  Plus(i, k) = Ahead(i, k, UintMod) /\ Plus(i, k) \in Index
<1>1. Plus(i, k) = Ahead(i, k, UintMod)
  BY Sizes, ModAhead, Zenon DEF Plus, Index
<1>2. QED
  BY <1>1, Sizes DEF Index, Ahead

\* The distance of two indices.
LEMMA MinusDist ==
    ASSUME NEW i \in Index, NEW j \in Index
    PROVE  /\ Minus(j, i) = Dist(i, j, UintMod) /\ Minus(j, i) \in Nat /\ Minus(j, i) < UintMod
           /\ Minus(j, i) = 0 <=> i = j
           /\ Plus(i, Minus(j, i)) = j
<1>1. Minus(j, i) = Dist(i, j, UintMod)
  BY Sizes, ModDist, Zenon DEF Minus, Index
<1>2. /\ Dist(i, j, UintMod) \in 0..(UintMod - 1) /\ Ahead(i, Dist(i, j, UintMod), UintMod) = j
      /\ Dist(i, j, UintMod) = 0 <=> i = j
  <2>1. UintMod \in Nat \ {0}
    BY Sizes
  <2>2. QED
    BY <2>1, AheadDist DEF Index
<1>3. Minus(j, i) \in Nat /\ Minus(j, i) < UintMod /\ Minus(j, i) \in 0..UintMod
  BY <1>1, <1>2, Sizes
<1>4. QED
  BY <1>1, <1>2, <1>3, PlusAhead

\* The test of pipewrite() finds out whether all places are used.
LEMMA FullIs ==
    ASSUME NEW i \in Index, NEW j \in Index
    PROVE  j = Plus(i, PIPESIZE) <=> Minus(j, i) = PIPESIZE
<1>1. PIPESIZE \in 0..(UintMod - 1) /\ PIPESIZE \in 0..UintMod
  BY Sizes
<1>2. Dist(i, Ahead(i, PIPESIZE, UintMod), UintMod) = PIPESIZE
  BY <1>1, Sizes, AheadDist, ZenonT(40) DEF Index
<1>3. Plus(i, PIPESIZE) = Ahead(i, PIPESIZE, UintMod) /\ Plus(i, PIPESIZE) \in Index
  BY <1>1, PlusAhead
<1>4. Minus(Plus(i, PIPESIZE), i) = PIPESIZE
  BY <1>2, <1>3, MinusDist
<1>5. QED
  BY <1>4, MinusDist

\* A byte more.
LEMMA MinusPut ==
    ASSUME NEW i \in Index, NEW j \in Index, Minus(j, i) < PIPESIZE
    PROVE  Plus(j, 1) \in Index /\ Minus(Plus(j, 1), i) = Minus(j, i) + 1
<1>1. 1 \in 0..UintMod /\ Minus(j, i) + 1 < UintMod
  BY Sizes, MinusDist
<1>2. Plus(j, 1) = Ahead(j, 1, UintMod) /\ Plus(j, 1) \in Index
  BY <1>1, PlusAhead
<1>3. Minus(Plus(j, 1), i) = Dist(i, Plus(j, 1), UintMod) /\ Minus(j, i) = Dist(i, j, UintMod)
  BY <1>2, MinusDist
<1>4. Dist(i, Ahead(j, 1, UintMod), UintMod) = Dist(i, j, UintMod) + 1
  BY <1>1, <1>3, Sizes, DistPut DEF Index
<1>5. QED
  BY <1>2, <1>3, <1>4

\* A byte less.
LEMMA MinusGet ==
    ASSUME NEW i \in Index, NEW j \in Index, i # j
    PROVE  Plus(i, 1) \in Index /\ Minus(j, Plus(i, 1)) = Minus(j, i) - 1
<1>1. 1 \in 0..UintMod /\ Minus(j, i) = Dist(i, j, UintMod) /\ 1 \in 0..Dist(i, j, UintMod)
  BY Sizes, MinusDist
<1>2. Plus(i, 1) = Ahead(i, 1, UintMod) /\ Plus(i, 1) \in Index
  BY <1>1, PlusAhead
<1>3. Minus(j, Plus(i, 1)) = Dist(Plus(i, 1), j, UintMod)
  BY <1>2, MinusDist
<1>4. Dist(Ahead(i, 1, UintMod), j, UintMod) = Dist(i, j, UintMod) - 1
  BY <1>1, Sizes, DistGet DEF Index
<1>5. QED
  BY <1>1, <1>2, <1>3, <1>4

\* The tests and the number of bytes, in these terms.
LEMMA TestsAre ==
    ASSUME TypeOK
    PROVE  /\ Used = Minus(nwrite, nread) /\ Used \in Nat /\ Used < UintMod
           /\ Full <=> Used = PIPESIZE
           /\ Empty <=> Used = 0
           /\ ~(Full /\ Empty)
<1>1. nread \in Index /\ nwrite \in Index
  BY DEF TypeOK
<1>2. Used = Minus(nwrite, nread) /\ (Full <=> nwrite = Plus(nread, PIPESIZE))
  BY DEF Used, Minus, Full, Plus
<1>3. Full <=> Used = PIPESIZE
  BY <1>1, <1>2, FullIs
<1>4. Used \in Nat /\ Used < UintMod /\ (Empty <=> Used = 0)
  BY <1>1, <1>2, MinusDist DEF Empty
<1>5. QED
  BY <1>2, <1>3, <1>4, Sizes

\* Which files a process has in hand: none,
LEMMA NonePending ==
    ASSUME NEW p \in Proc, closeq[p] = <<>> PROVE \A h : ~Pending(p, h)
BY DEF Pending

\* or one that it closes.
LEMMA PendingOne ==
    ASSUME NEW p \in Proc, NEW f \in File, closeq \in [Proc -> Seq(File)], closeq[p] = <<>>,
           closeq' = [closeq EXCEPT ![p] = <<f>>]
    PROVE  \A q \in Proc, h \in File : Pending(q, h)' <=> Pending(q, h) \/ (q = p /\ h = f)
<1>1. closeq'[p] = <<f>> /\ \A q \in Proc : q # p => closeq'[q] = closeq[q]
  OBVIOUS
<1>2. DOMAIN <<f>> = {1} /\ <<f>>[1] = f
  OBVIOUS
<1>3. \A h : ~Pending(p, h)
  BY NonePending
<1>4. QED
  BY <1>1, <1>2, <1>3 DEF Pending

\* The counts are not disturbed by a step that leaves descriptors and counts alone.
LEMMA SameRefs ==
    ASSUME FileRefsExact, UNCHANGED <<ofile, ref, closeq>> PROVE FileRefsExact'
<1>1. ofile' = ofile /\ ref' = ref /\ closeq' = closeq
  OBVIOUS
<1>2. QED
  BY <1>1, Zenon DEF FileRefsExact, Pending

\* Readers and writers leave the files and the ends of the pipe alone.
LEMMA UsersKeepEnds ==
    ASSUME NEW p \in Proc, Write(p) \/ Read(p)
    PROVE  UNCHANGED <<ofile, ref, kind, closeq, ff, alive, open>>
<1>1. CASE Write(p)
  BY <1>1 DEF Write, WriteLock, WriteDone, WriteGivesUp, WriteGoesOn, WriteSleep, WriteFault,
      WritePut, fileVars, pipeVars
<1>2. CASE Read(p)
  BY <1>2 DEF Read, ReadWaits, ReadGivesUp, ReadStarts, ReadSleep, ReadDone, ReadByte,
      fileVars, pipeVars
<1>3. QED
  BY <1>1, <1>2

\* The steps that touch the bytes of the pipe.
LEMMA RingSteps ==
    ASSUME [Next]_vars
    PROVE  \/ UNCHANGED <<data, nread, nwrite, ch>>
           \/ \E p \in Proc : \/ PipeDone(p) \/ PipeUndone(p) \/ PipeClose(p)
                              \/ \E c \in Byte : WritePut(p, c)
                              \/ \E fault \in BOOLEAN : ReadByte(p, fault)
<1> DEFINE Same == UNCHANGED <<data, nread, nwrite, ch>>
<1>1. ASSUME NEW p \in Proc, Write(p) PROVE Same \/ \E c \in Byte : WritePut(p, c)
  BY <1>1 DEF Write, WriteLock, WriteDone, WriteGivesUp, WriteGoesOn, WriteSleep, WriteFault,
      pipeVars
<1>2. ASSUME NEW p \in Proc, Read(p) PROVE Same \/ \E fault \in BOOLEAN : ReadByte(p, fault)
  BY <1>2 DEF Read, ReadWaits, ReadGivesUp, ReadStarts, ReadSleep, ReadDone, pipeVars
<1>3. ASSUME NEW p \in Proc, Close(p) PROVE Same \/ PipeClose(p)
  BY <1>3 DEF Close, FileClose, Closed, ExitFile, pipeVars
<1>4. ASSUME NEW p \in Proc, Syscall(p) PROVE Same
  BY <1>4 DEF Syscall, SysPipe, SysDup, SysClose, Fork, Exit, SysWrite, SysRead, pipeVars
<1>5. ASSUME NEW p \in Proc, Make(p) PROVE Same \/ PipeDone(p) \/ PipeUndone(p)
  BY <1>5 DEF Make, PipeAllocFails, FileAlloc, pipeVars
<1>6. ASSUME NEW p \in Proc, Kill(p) PROVE Same
  BY <1>6 DEF Kill, pipeVars
<1>7. CASE UNCHANGED vars
  BY <1>7 DEF vars, pipeVars
<1> HIDE DEF Same
<1>8. CASE Next
  <2>1. PICK p \in Proc : Write(p) \/ Read(p) \/ Close(p) \/ Make(p) \/ Syscall(p) \/ Kill(p)
    BY <1>8 DEF Next, Kernel
  <2>2. QED
    BY <1>1, <1>2, <1>3, <1>4, <1>5, <1>6, <2>1 DEF Same
<1>9. QED
  BY <1>7, <1>8 DEF Same

-----------------------------------------------------------------------------
(* Each step keeps each part of the invariant.                              *)

\* Every step keeps the types; a descriptor that is taken is free, one that is closed in use.
LEMMA TypeStep ==
    ASSUME TypeOK, PhaseInv, FileRefsExact, EndInv, [Next]_vars
    PROVE  TypeOK'
<1> USE Names DEF End, Has, Index, NoFiles, PhaseInv, Reading, TypeOK, Writing
<1>1. ASSUME NEW p \in Proc, SysPipe(p) PROVE TypeOK'
  BY <1>1 DEF SysPipe, Goto, User, fileVars, pipeVars
<1>2. ASSUME NEW p \in Proc, PipeAllocFails(p) PROVE TypeOK'
  BY <1>2 DEF PipeAllocFails, Goto, fileVars, pipeVars
<1>3. ASSUME NEW p \in Proc, NEW f \in File, FileAlloc(p, f) PROVE TypeOK'
  <2>1. ref' = [ref EXCEPT ![f] = 1] /\ closeq' \in [Proc -> Seq(File)]
    BY <1>3, FileAllocIs
  <2>2. ref' \in [File -> Nat]
    BY <2>1
  <2>3. QED
    BY <1>3, <2>1, <2>2 DEF FileAlloc, pipeVars
<1>4. ASSUME NEW p \in Proc, PipeDone(p) PROVE TypeOK'
  <2> DEFINE d == First(FreeFds(p))
             e == First(FreeFds(p) \ {d})
  <2>1. PipeAlloc(p)
    BY <1>4 DEF PipeDone
  <2> DEFINE f == closeq[p][1]
             g == closeq[p][2]
  <2>2. f \in File /\ g \in File
    BY <2>1, TwoInHand
  <2>3. /\ kind' \in [File -> End \cup {None}] /\ open' \in [End -> BOOLEAN]
        /\ alive' \in BOOLEAN /\ nread' \in Index /\ nwrite' \in Index
    <3>1. 0 \in Index
      BY Sizes DEF Index
    <3>2. QED
      BY <2>1, <3>1, EndsOfNewPipe DEF PipeAlloc
  <2>4. d \in Fd /\ e \in Fd
    BY <1>4, TwoFds DEF PipeDone, FreeFds
  <2>5. ofile' = [ofile EXCEPT ![p][d] = f, ![p][e] = g]
    BY <1>4 DEF PipeDone
  <2> HIDE DEF d, e, f, g
  <2>6. ofile' \in [Proc -> [Fd -> File \cup {None}]]
    BY <2>2, <2>4, <2>5
  <2>7. closeq' \in [Proc -> Seq(File)]
    BY <1>4 DEF PipeDone
  <2>8. QED
    BY <1>4, <2>3, <2>6, <2>7 DEF PipeDone, Goto
<1>5. ASSUME NEW p \in Proc, PipeUndone(p) PROVE TypeOK'
  <2>1. PipeAlloc(p)
    BY <1>5 DEF PipeUndone
  <2>2. /\ kind' \in [File -> End \cup {None}] /\ open' \in [End -> BOOLEAN]
        /\ alive' \in BOOLEAN /\ nread' \in Index /\ nwrite' \in Index
    <3>1. 0 \in Index
      BY Sizes DEF Index
    <3>2. QED
      BY <2>1, <3>1, EndsOfNewPipe DEF PipeAlloc
  <2>3. QED
    BY <1>5, <2>2 DEF PipeUndone, Goto
<1>6. ASSUME NEW p \in Proc, NEW d \in Fd, NEW e \in Fd, SysDup(p, d, e) PROVE TypeOK'
  BY <1>6 DEF SysDup, FreeFds, User, pipeVars
<1>7. ASSUME NEW p \in Proc, NEW d \in Fd, SysClose(p, d) PROVE TypeOK'
  BY <1>7, OneFile DEF SysClose, Goto, User, pipeVars
<1>8. ASSUME NEW p \in Proc, NEW q \in Proc, Fork(p, q) PROVE TypeOK'
  <2> DEFINE D(f) == {d \in Fd : ofile[p][d] = f}
  <2>1. \A f \in File : Cardinality(D(f)) \in Nat
    BY Counted
  <2>2. ref' = [f \in File |-> ref[f] + Cardinality(D(f))]
    BY <1>8 DEF Fork
  <2> HIDE DEF D
  <2>3. ref' \in [File -> Nat]
    BY <2>1, <2>2
  <2>4. QED
    BY <1>8, <2>3 DEF Fork, Goto, pipeVars
<1>9. ASSUME NEW p \in Proc, Exit(p) PROVE TypeOK'
  BY <1>9 DEF Exit, Goto, fileVars, pipeVars
<1>10. ASSUME NEW p \in Proc, NEW d \in Fd, ExitFile(p, d) PROVE TypeOK'
  <2>1. ofile[p][d] \in File
    BY <1>10, DescriptorInUse DEF ExitFile
  <2>2. QED
    BY <1>10, <2>1, OneFile DEF ExitFile, pipeVars
<1>11. ASSUME NEW p \in Proc, FileClose(p) PROVE TypeOK'
  <2>1. PICK f \in File :
           /\ ref[f] - 1 \in Nat /\ ref' = [ref EXCEPT ![f] = ref[f] - 1]
           /\ \/ kind' = [kind EXCEPT ![f] = None] /\ ff' = [ff EXCEPT ![p] = kind[f]]
              \/ kind' = kind /\ ff' = ff
           /\ closeq' \in [Proc -> Seq(File)]
    BY <1>11, FileCloseIs
  <2>2. ref' \in [File -> Nat]
    <3>1. ref \in [File -> Nat]
      OBVIOUS
    <3>2. QED
      BY <2>1, <3>1
  <2>3. kind' \in [File -> End \cup {None}] /\ ff' \in [Proc -> End \cup {None}]
    <3>1. kind \in [File -> End \cup {None}] /\ ff \in [Proc -> End \cup {None}]
      OBVIOUS
    <3>2. kind[f] \in End \cup {None}
      BY <3>1
    <3>3. kind' \in [File -> End \cup {None}]
      BY <2>1, <3>1
    <3>4. ff' \in [Proc -> End \cup {None}]
      BY <2>1, <3>1, <3>2
    <3>5. QED
      BY <3>3, <3>4
  <2>4. QED
    BY <1>11, <2>1, <2>2, <2>3 DEF FileClose, pipeVars
<1>12. ASSUME NEW p \in Proc, PipeClose(p) PROVE TypeOK'
  <2>1. 0 \in Index
    BY Sizes DEF Index
  <2>2. pc' \in [Proc -> {"dead", "user", "pipe", "close", "exit"} \cup Reading \cup Writing]
    BY <1>12 DEF PipeClose, CloseWakes, WakeReaders, WakeWriters, Woken
  <2>3. /\ open' \in [End -> BOOLEAN] /\ ff' \in [Proc -> End \cup {None}]
        /\ alive' \in BOOLEAN /\ abandoned' \in BOOLEAN
    BY <1>12, Zenon DEF PipeClose, BothClosed
  <2>4. /\ nread' \in Index /\ nwrite' \in Index
        /\ data' \in [0..(PIPESIZE - 1) -> Byte \cup {None}]
    BY <1>12, <2>1 DEF PipeClose
  <2>5. QED
    BY <1>12, <2>2, <2>3, <2>4 DEF PipeClose
<1>13. ASSUME NEW p \in Proc, Closed(p) PROVE TypeOK'
  BY <1>13 DEF Closed, Goto, fileVars, pipeVars
<1>14. ASSUME NEW p \in Proc, NEW n \in 1..MaxCount, SysWrite(p, n) PROVE TypeOK'
  BY <1>14 DEF SysWrite, Goto, User, fileVars, pipeVars
<1>15. ASSUME NEW p \in Proc, WriteLock(p) PROVE TypeOK'
  BY <1>15 DEF WriteLock, Goto, fileVars
<1>16. ASSUME NEW p \in Proc, WriteDone(p) PROVE TypeOK'
  BY <1>16 DEF WriteDone, WakeReaders, Woken, fileVars
<1>17. ASSUME NEW p \in Proc, WriteGivesUp(p) PROVE TypeOK'
  <2>1. abandoned' \in BOOLEAN
    BY <1>17, Zenon DEF WriteGivesUp
  <2>2. QED
    BY <1>17, <2>1 DEF WriteGivesUp, Goto, fileVars
<1>18. ASSUME NEW p \in Proc, WriteGoesOn(p) PROVE TypeOK'
  BY <1>18 DEF WriteGoesOn, Goto, fileVars, pipeVars
<1>19. ASSUME NEW p \in Proc, WriteSleep(p) PROVE TypeOK'
  BY <1>19 DEF WriteSleep, Full, WakeReaders, Woken, fileVars
<1>20. ASSUME NEW p \in Proc, NEW c \in Byte, WritePut(p, c) PROVE TypeOK'
  <2>1. nwrite' \in Index
    BY <1>20, NextIndex DEF WritePut
  <2>2. nwrite % PIPESIZE \in 0..(PIPESIZE - 1)
    BY NextIndex
  <2>3. data' \in [0..(PIPESIZE - 1) -> Byte \cup {None}]
    BY <1>20, <2>2 DEF WritePut
  <2>4. QED
    BY <1>20, <2>1, <2>3 DEF WritePut, Goto, fileVars
<1>21. ASSUME NEW p \in Proc, WriteFault(p) PROVE TypeOK'
  BY <1>21 DEF WriteFault, Full, WakeReaders, Woken, fileVars
<1>22. ASSUME NEW p \in Proc, NEW n \in 1..MaxCount, SysRead(p, n) PROVE TypeOK'
  BY <1>22 DEF SysRead, Goto, User, fileVars, pipeVars
<1>23. ASSUME NEW p \in Proc, ReadWaits(p) PROVE TypeOK'
  BY <1>23 DEF ReadWaits, Empty, Goto, fileVars
<1>24. ASSUME NEW p \in Proc, ReadGivesUp(p) PROVE TypeOK'
  BY <1>24 DEF ReadGivesUp, Empty, Goto, fileVars, pipeVars
<1>25. ASSUME NEW p \in Proc, ReadStarts(p) PROVE TypeOK'
  BY <1>25 DEF ReadStarts, Empty, Goto, fileVars
<1>26. ASSUME NEW p \in Proc, ReadSleep(p) PROVE TypeOK'
  BY <1>26 DEF ReadSleep, Goto, fileVars
<1>27. ASSUME NEW p \in Proc, NEW fault \in BOOLEAN, ReadByte(p, fault) PROVE TypeOK'
  <2>1. nread' \in Index
    BY <1>27, NextIndex DEF ReadByte
  <2>2. nread % PIPESIZE \in 0..(PIPESIZE - 1)
    BY NextIndex
  <2>3. data' \in [0..(PIPESIZE - 1) -> Byte \cup {None}] /\ ch' \in Byte \cup {None}
    BY <1>27, <2>2 DEF ReadByte
  <2>4. abandoned' \in BOOLEAN
    BY <1>27, Zenon DEF ReadByte
  <2>5. QED
    BY <1>27, <2>1, <2>3, <2>4, SMTT(30) DEF ReadByte, fileVars
<1>28. ASSUME NEW p \in Proc, ReadDone(p) PROVE TypeOK'
  BY <1>28 DEF ReadDone, Empty, ReadWakeup, WakeWriters, Woken, fileVars
<1>29. ASSUME NEW p \in Proc, Kill(p) PROVE TypeOK'
  BY <1>29 DEF Kill, fileVars, pipeVars
<1>30. CASE UNCHANGED <<ofile, ref, kind, closeq, ff, alive, data, nread,
                         nwrite, open, plock, ch, abandoned, killed, pc, left>>
  BY <1>30
<1> HIDE DEF End, Has, Index, NoFiles, PhaseInv, Reading, TypeOK, Writing
<1>31. QED
  BY <1>1, <1>2, <1>3, <1>4, <1>5, <1>6, <1>7, <1>8, <1>9, <1>10, <1>11, <1>12, <1>13, <1>14, <1>15, <1>16,
      <1>17, <1>18, <1>19, <1>20, <1>21, <1>22, <1>23, <1>24, <1>25, <1>26, <1>27,
      <1>28, <1>29, <1>30 DEF vars, Next, Kernel, Syscall, Write, Read, Close, Make, fileVars,
      pipeVars

\* Nobody loses an end of the pipe between the system call's look at its descriptor and
\* its return: fileclose() clears f->type only when no descriptor is left.
LEMMA PhaseStep ==
    ASSUME TypeOK, PhaseInv, FileRefsExact, EndInv, [Next]_vars
    PROVE  PhaseInv'
<1> USE Names DEF End, Has, Index, NoFiles, PhaseInv, Reading, TypeOK, Writing
<1>1. ASSUME NEW p \in Proc, SysPipe(p) PROVE PhaseInv'
  BY <1>1 DEF SysPipe, Goto, User, fileVars, pipeVars
<1>2. ASSUME NEW p \in Proc, PipeAllocFails(p) PROVE PhaseInv'
  BY <1>2 DEF PipeAllocFails, Goto, fileVars, pipeVars
<1>3. ASSUME NEW p \in Proc, NEW f \in File, FileAlloc(p, f) PROVE PhaseInv'
  <2> HIDE DEF Has
  <2>1. /\ pc[p] = "pipe" /\ Distinct(closeq'[p]) /\ UNCHANGED <<ofile, kind, ff, pc>>
        /\ \A q \in Proc : q # p => closeq'[q] = closeq[q]
    BY <1>3, FileAllocIs
  <2>2. \A q \in Proc : (Has(q, "r") => Has(q, "r")') /\ (Has(q, "w") => Has(q, "w")')
    BY <2>1, HasKept
  <2>3. QED
    BY <2>1, <2>2
<1>4. ASSUME NEW p \in Proc, PipeDone(p) PROVE PhaseInv'
  <2>1. PipeAlloc(p)
    BY <1>4 DEF PipeDone
  <2>2. pc[p] = "pipe" /\ \A h \in File : kind[h] = None
    BY <2>1, NoPipeYet
  <2>3. \A q \in Proc : ~Has(q, "r") /\ ~Has(q, "w")
    BY <2>2
  <2>4. /\ pc' = [pc EXCEPT ![p] = "user"] /\ closeq' = [closeq EXCEPT ![p] = <<>>]
        /\ \A q \in Proc : q # p => ofile'[q] = ofile[q]
        /\ ff' = ff
    BY <1>4 DEF PipeDone, Goto
  <2>5. Distinct(<<>>)
    BY DEF Distinct
  <2>6. ff[p] = None
    BY <2>2
  <2> HIDE DEF Has
  <2>7. QED
    BY <2>2, <2>3, <2>4, <2>5, <2>6
<1>5. ASSUME NEW p \in Proc, PipeUndone(p) PROVE PhaseInv'
  <2>1. PipeAlloc(p)
    BY <1>5 DEF PipeUndone
  <2>2. pc[p] = "pipe" /\ \A h \in File : kind[h] = None
    BY <2>1, NoPipeYet
  <2>3. \A q \in Proc : ~Has(q, "r") /\ ~Has(q, "w")
    BY <2>2
  <2>4. pc' = [pc EXCEPT ![p] = "close"] /\ UNCHANGED <<closeq, ofile, ff>>
    BY <1>5 DEF PipeUndone, Goto
  <2> HIDE DEF Has
  <2>5. QED
    BY <2>2, <2>3, <2>4
<1>6. ASSUME NEW p \in Proc, NEW d \in Fd, NEW e \in Fd, SysDup(p, d, e) PROVE PhaseInv'
  BY <1>6 DEF SysDup, FreeFds, User, pipeVars
<1>7. ASSUME NEW p \in Proc, NEW d \in Fd, SysClose(p, d) PROVE PhaseInv'
  <2>1. ofile[p][d] \in File /\ Distinct(closeq'[p])
    BY <1>7, OneFile DEF SysClose, User
  <2>2. QED
    BY <1>7, <2>1 DEF SysClose, Goto, User, pipeVars
<1>8. ASSUME NEW p \in Proc, NEW q \in Proc, Fork(p, q) PROVE PhaseInv'
  BY <1>8 DEF Fork, Goto, User, pipeVars
<1>9. ASSUME NEW p \in Proc, Exit(p) PROVE PhaseInv'
  BY <1>9 DEF Exit, Goto, fileVars, pipeVars
<1>10. ASSUME NEW p \in Proc, NEW d \in Fd, ExitFile(p, d) PROVE PhaseInv'
  <2>1. ofile[p][d] \in File
    BY <1>10, DescriptorInUse DEF ExitFile
  <2>2. Distinct(closeq'[p])
    BY <1>10, <2>1, OneFile DEF ExitFile
  <2>3. QED
    BY <1>10, <2>2, SMTT(30) DEF ExitFile, pipeVars
<1>11. ASSUME NEW p \in Proc, FileClose(p) PROVE PhaseInv'
  <2> HIDE DEF Has
  <2>1. PICK f \in File :
           /\ Pending(p, f)
           /\ \/ ref[f] = 1 /\ kind' = [kind EXCEPT ![f] = None]
              \/ ref[f] # 1 /\ kind' = kind
           /\ Distinct(closeq'[p]) /\ \A q \in Proc : q # p => closeq'[q] = closeq[q]
    BY <1>11, FileCloseIs
  <2>2. \A q \in Proc, x \in Fd : ofile[q][x] # None => kind'[ofile[q][x]] = kind[ofile[q][x]]
    <3>1. CASE ref[f] = 1
      <4>1. \A q \in Proc, x \in Fd : ofile[q][x] # f
        BY <2>1, <3>1, LastReference
      <4>2. QED
        BY <2>1, <3>1, <4>1
    <3>2. CASE ref[f] # 1
      BY <2>1, <3>2
    <3>3. QED
      BY <3>1, <3>2
  <2>3. /\ ofile' = ofile /\ pc' = pc /\ pc[p] \in {"close", "exit"}
        /\ \A q \in Proc : q # p => ff'[q] = ff[q]
    BY <1>11 DEF FileClose
  <2>4. \A q \in Proc : (Has(q, "r") => Has(q, "r")') /\ (Has(q, "w") => Has(q, "w")')
    BY <2>2, <2>3, HasKept
  <2>5. QED
    BY <2>1, <2>3, <2>4
<1>12. ASSUME NEW p \in Proc, PipeClose(p) PROVE PhaseInv'
  BY <1>12 DEF PipeClose, BothClosed, CloseWakes, WakeReaders, WakeWriters, Woken
<1>13. ASSUME NEW p \in Proc, Closed(p) PROVE PhaseInv'
  BY <1>13 DEF Closed, Goto, fileVars, pipeVars
<1>14. ASSUME NEW p \in Proc, NEW n \in 1..MaxCount, SysWrite(p, n) PROVE PhaseInv'
  BY <1>14 DEF SysWrite, Goto, User, fileVars, pipeVars
<1>15. ASSUME NEW p \in Proc, WriteLock(p) PROVE PhaseInv'
  BY <1>15 DEF WriteLock, Goto, fileVars
<1>16. ASSUME NEW p \in Proc, WriteDone(p) PROVE PhaseInv'
  <2> HIDE DEF Has
  <2>1. \A q \in Proc : pc'[q] = IF q = p THEN "user"
                                   ELSE IF pc[q] = "rsleep" THEN "rlock" ELSE pc[q]
    <3>1. pc' = [WakeReaders(pc) EXCEPT ![p] = "user"]
      BY <1>16 DEF WriteDone
    <3>2. QED
      BY <3>1, WakesReaders
  <2>2. UNCHANGED <<ofile, kind, closeq, ff>> /\ pc[p] = "wtest"
    BY <1>16 DEF WriteDone, fileVars
  <2>3. \A q \in Proc : (Has(q, "r") => Has(q, "r")') /\ (Has(q, "w") => Has(q, "w")')
    BY <2>2, HasKept
  <2>4. QED
    BY <2>1, <2>2, <2>3
<1>17. ASSUME NEW p \in Proc, WriteGivesUp(p) PROVE PhaseInv'
  BY <1>17 DEF WriteGivesUp, Goto, fileVars
<1>18. ASSUME NEW p \in Proc, WriteGoesOn(p) PROVE PhaseInv'
  BY <1>18 DEF WriteGoesOn, Goto, fileVars, pipeVars
<1>19. ASSUME NEW p \in Proc, WriteSleep(p) PROVE PhaseInv'
  <2> HIDE DEF Has
  <2>1. \A q \in Proc : pc'[q] = IF q = p THEN "wsleep"
                                   ELSE IF pc[q] = "rsleep" THEN "rlock" ELSE pc[q]
    <3>1. pc' = [WakeReaders(pc) EXCEPT ![p] = "wsleep"]
      BY <1>19 DEF WriteSleep
    <3>2. QED
      BY <3>1, WakesReaders
  <2>2. UNCHANGED <<ofile, kind, closeq, ff>> /\ pc[p] = "wput"
    BY <1>19 DEF WriteSleep, fileVars
  <2>3. \A q \in Proc : (Has(q, "r") => Has(q, "r")') /\ (Has(q, "w") => Has(q, "w")')
    BY <2>2, HasKept
  <2>4. QED
    BY <2>1, <2>2, <2>3
<1>20. ASSUME NEW p \in Proc, NEW c \in Byte, WritePut(p, c) PROVE PhaseInv'
  BY <1>20 DEF WritePut, Full, Goto, fileVars
<1>21. ASSUME NEW p \in Proc, WriteFault(p) PROVE PhaseInv'
  <2> HIDE DEF Has
  <2>1. \A q \in Proc : pc'[q] = IF q = p THEN "user"
                                   ELSE IF pc[q] = "rsleep" THEN "rlock" ELSE pc[q]
    <3>1. pc' = [WakeReaders(pc) EXCEPT ![p] = "user"]
      BY <1>21 DEF WriteFault
    <3>2. QED
      BY <3>1, WakesReaders
  <2>2. UNCHANGED <<ofile, kind, closeq, ff>> /\ pc[p] = "wput"
    BY <1>21 DEF WriteFault, fileVars
  <2>3. \A q \in Proc : (Has(q, "r") => Has(q, "r")') /\ (Has(q, "w") => Has(q, "w")')
    BY <2>2, HasKept
  <2>4. QED
    BY <2>1, <2>2, <2>3
<1>22. ASSUME NEW p \in Proc, NEW n \in 1..MaxCount, SysRead(p, n) PROVE PhaseInv'
  BY <1>22 DEF SysRead, Goto, User, fileVars, pipeVars
<1>23. ASSUME NEW p \in Proc, ReadWaits(p) PROVE PhaseInv'
  BY <1>23 DEF ReadWaits, Empty, Goto, fileVars
<1>24. ASSUME NEW p \in Proc, ReadGivesUp(p) PROVE PhaseInv'
  BY <1>24 DEF ReadGivesUp, Empty, Goto, fileVars, pipeVars
<1>25. ASSUME NEW p \in Proc, ReadStarts(p) PROVE PhaseInv'
  BY <1>25 DEF ReadStarts, Empty, Goto, fileVars
<1>26. ASSUME NEW p \in Proc, ReadSleep(p) PROVE PhaseInv'
  BY <1>26 DEF ReadSleep, Goto, fileVars
<1>27. ASSUME NEW p \in Proc, ReadDone(p) PROVE PhaseInv'
  <2> HIDE DEF Has
  <2>1. \A q \in Proc : pc'[q] = IF q = p THEN "user"
                                   ELSE IF pc[q] = "wsleep" THEN "wlock" ELSE pc[q]
    <3>1. pc' = [WakeWriters(pc) EXCEPT ![p] = "user"]
      BY <1>27 DEF ReadDone, ReadWakeup
    <3>2. QED
      BY <3>1, WakesWriters
  <2>2. UNCHANGED <<ofile, kind, closeq, ff>> /\ pc[p] = "rcopy"
    BY <1>27 DEF ReadDone, fileVars
  <2>3. \A q \in Proc : (Has(q, "r") => Has(q, "r")') /\ (Has(q, "w") => Has(q, "w")')
    BY <2>2, HasKept
  <2>4. QED
    BY <2>1, <2>2, <2>3
<1>28. ASSUME NEW p \in Proc, Kill(p) PROVE PhaseInv'
  BY <1>28 DEF Kill, fileVars, pipeVars
<1>29. CASE UNCHANGED <<ofile, kind, closeq, ff, pc>>
  BY <1>29
<1> HIDE DEF End, Has, Index, NoFiles, PhaseInv, Reading, TypeOK, Writing
<1>30. QED
  BY <1>1, <1>2, <1>3, <1>4, <1>5, <1>6, <1>7, <1>8, <1>9, <1>10, <1>11, <1>12, <1>13, <1>14, <1>15, <1>16,
      <1>17, <1>18, <1>19, <1>20, <1>21, <1>22, <1>23, <1>24, <1>25, <1>26, <1>27,
      <1>28, <1>29 DEF vars, Next, Kernel, Syscall, Write, Read, Close, Make, fileVars,
      pipeVars, ReadByte

\* pi->lock is taken and given up in pairs; who sleeps gives it up.
LEMMA LockStep ==
    ASSUME TypeOK, LockInv, [Next]_vars
    PROVE  LockInv'
<1> USE Names DEF End, Index, Inside, LockInv, Reading, TypeOK, Writing
<1>1. ASSUME NEW p \in Proc, SysPipe(p) PROVE LockInv'
  BY <1>1 DEF SysPipe, Goto, User, fileVars, pipeVars
<1>2. ASSUME NEW p \in Proc, PipeAllocFails(p) PROVE LockInv'
  BY <1>2 DEF PipeAllocFails, Goto, fileVars, pipeVars
<1>3. ASSUME NEW p \in Proc, PipeDone(p) PROVE LockInv'
  <2>1. pc[p] = "pipe" /\ pc' = [pc EXCEPT ![p] = "user"] /\ plock' = plock
    BY <1>3 DEF PipeDone, PipeAlloc, Goto
  <2>2. QED
    BY <2>1
<1>4. ASSUME NEW p \in Proc, PipeUndone(p) PROVE LockInv'
  <2>1. pc[p] = "pipe" /\ pc' = [pc EXCEPT ![p] = "close"] /\ plock' = plock
    BY <1>4 DEF PipeUndone, PipeAlloc, Goto
  <2>2. QED
    BY <2>1
<1>5. ASSUME NEW p \in Proc, NEW d \in Fd, SysClose(p, d) PROVE LockInv'
  BY <1>5 DEF SysClose, Goto, User, pipeVars
<1>6. ASSUME NEW p \in Proc, NEW q \in Proc, Fork(p, q) PROVE LockInv'
  BY <1>6 DEF Fork, Goto, User, pipeVars
<1>7. ASSUME NEW p \in Proc, Exit(p) PROVE LockInv'
  BY <1>7 DEF Exit, Goto, fileVars, pipeVars
<1>8. ASSUME NEW p \in Proc, PipeClose(p) PROVE LockInv'
  BY <1>8 DEF PipeClose, BothClosed, CloseWakes, WakeReaders, WakeWriters, Woken
<1>9. ASSUME NEW p \in Proc, Closed(p) PROVE LockInv'
  BY <1>9 DEF Closed, Goto, NoFiles, fileVars, pipeVars
<1>10. ASSUME NEW p \in Proc, NEW n \in 1..MaxCount, SysWrite(p, n) PROVE LockInv'
  BY <1>10 DEF SysWrite, Goto, Has, User, fileVars, pipeVars
<1>11. ASSUME NEW p \in Proc, WriteLock(p) PROVE LockInv'
  BY <1>11 DEF WriteLock, Goto, fileVars
<1>12. ASSUME NEW p \in Proc, WriteDone(p) PROVE LockInv'
  BY <1>12 DEF WriteDone, WakeReaders, Woken, fileVars
<1>13. ASSUME NEW p \in Proc, WriteGivesUp(p) PROVE LockInv'
  BY <1>13 DEF WriteGivesUp, Goto, fileVars
<1>14. ASSUME NEW p \in Proc, WriteGoesOn(p) PROVE LockInv'
  BY <1>14 DEF WriteGoesOn, Goto, fileVars, pipeVars
<1>15. ASSUME NEW p \in Proc, WriteSleep(p) PROVE LockInv'
  BY <1>15 DEF WriteSleep, Full, WakeReaders, Woken, fileVars
<1>16. ASSUME NEW p \in Proc, NEW c \in Byte, WritePut(p, c) PROVE LockInv'
  BY <1>16 DEF WritePut, Full, Goto, fileVars
<1>17. ASSUME NEW p \in Proc, WriteFault(p) PROVE LockInv'
  BY <1>17 DEF WriteFault, Full, WakeReaders, Woken, fileVars
<1>18. ASSUME NEW p \in Proc, NEW n \in 1..MaxCount, SysRead(p, n) PROVE LockInv'
  BY <1>18 DEF SysRead, Goto, Has, User, fileVars, pipeVars
<1>19. ASSUME NEW p \in Proc, ReadWaits(p) PROVE LockInv'
  BY <1>19 DEF ReadWaits, Empty, Goto, fileVars
<1>20. ASSUME NEW p \in Proc, ReadGivesUp(p) PROVE LockInv'
  BY <1>20 DEF ReadGivesUp, Empty, Goto, fileVars, pipeVars
<1>21. ASSUME NEW p \in Proc, ReadStarts(p) PROVE LockInv'
  BY <1>21 DEF ReadStarts, Empty, Goto, fileVars
<1>22. ASSUME NEW p \in Proc, ReadSleep(p) PROVE LockInv'
  BY <1>22 DEF ReadSleep, Goto, fileVars
<1>23. ASSUME NEW p \in Proc, ReadDone(p) PROVE LockInv'
  BY <1>23 DEF ReadDone, Empty, ReadWakeup, WakeWriters, Woken, fileVars
<1>24. ASSUME NEW p \in Proc, Kill(p) PROVE LockInv'
  BY <1>24 DEF Kill, fileVars, pipeVars
<1>25. CASE UNCHANGED <<plock, pc>>
  BY <1>25
<1> HIDE DEF End, Index, Inside, LockInv, Reading, TypeOK, Writing
<1>26. QED
  BY <1>1, <1>2, <1>3, <1>4, <1>5, <1>6, <1>7, <1>8, <1>9, <1>10, <1>11, <1>12, <1>13, <1>14, <1>15, <1>16,
      <1>17, <1>18, <1>19, <1>20, <1>21, <1>22, <1>23, <1>24, <1>25, ZenonT(40) DEF vars, Next,
      Kernel, Syscall, Write, Read, Close, Make, fileVars, pipeVars, FileAlloc, SysDup,
      ExitFile, FileClose, ReadByte

\* A file that has a type, or a descriptor, has references.
LEMMA KindStep ==
    ASSUME TypeOK, PhaseInv, KindInv, FileRefsExact, EndInv, [Next]_vars
    PROVE  KindInv'
<1> USE Names DEF KindInv, NoFiles, TypeOK
<1>1. ASSUME NEW p \in Proc, NEW f \in File, FileAlloc(p, f) PROVE KindInv'
  <2>1. UNCHANGED <<ofile, kind>> /\ ref' = [ref EXCEPT ![f] = 1]
    BY <1>1 DEF FileAlloc
  <2>2. QED
    BY <2>1
<1>2. ASSUME NEW p \in Proc, PipeDone(p) PROVE KindInv'
  <2> DEFINE f == closeq[p][1]
             g == closeq[p][2]
             d == First(FreeFds(p))
             e == First(FreeFds(p) \ {d})
  <2>1. PipeAlloc(p) /\ ref' = ref /\ ofile' = [ofile EXCEPT ![p][d] = f, ![p][e] = g]
    BY <1>2 DEF PipeDone
  <2>2. d \in Fd /\ e \in Fd
    BY <1>2, TwoFds DEF PipeDone, FreeFds
  <2>3. /\ \A h \in File : kind'[h] # None => ref[h] # 0
        /\ \A q \in Proc, x \in Fd : ofile[q][x] = None
        /\ kind'[f] # None /\ kind'[g] # None
    <3> HIDE DEF TypeOK, KindInv
    <3>1. QED
      BY <2>1, NewPipeFiles
  <2> HIDE DEF d, e, f, g
  <2>4. \A q \in Proc, x \in Fd : ofile'[q][x] \in {None, f, g}
    BY <2>1, <2>2, <2>3
  <2>5. QED
    BY <2>1, <2>3, <2>4
<1>3. ASSUME NEW p \in Proc, PipeUndone(p) PROVE KindInv'
  <2>1. PipeAlloc(p) /\ ref' = ref /\ ofile' = ofile
    BY <1>3 DEF PipeUndone
  <2>2. /\ \A h \in File : kind'[h] # None => ref[h] # 0
        /\ \A q \in Proc, x \in Fd : ofile[q][x] = None
    <3> HIDE DEF TypeOK, KindInv
    <3>1. QED
      BY <2>1, NewPipeFiles
  <2>3. QED
    BY <2>1, <2>2
<1>4. ASSUME NEW p \in Proc, NEW d \in Fd, NEW e \in Fd, SysDup(p, d, e) PROVE KindInv'
  <2>1. /\ ofile[p][d] \in File /\ ref[ofile[p][d]] \in Nat
        /\ ref' = [ref EXCEPT ![ofile[p][d]] = ref[ofile[p][d]] + 1]
        /\ kind' = kind /\ ofile' = [ofile EXCEPT ![p][e] = ofile[p][d]]
    BY <1>4 DEF SysDup
  <2>2. \A f \in File : ref[f] # 0 => ref'[f] # 0
    BY <2>1
  <2>3. QED
    BY <2>1, <2>2
<1>5. ASSUME NEW p \in Proc, NEW d \in Fd, SysClose(p, d) \/ ExitFile(p, d) PROVE KindInv'
  <2>1. ofile' = [ofile EXCEPT ![p][d] = None] /\ UNCHANGED <<ref, kind>>
    BY <1>5 DEF SysClose, ExitFile
  <2>2. \A q \in Proc, x \in Fd : ofile'[q][x] \in {None, ofile[q][x]}
    BY <2>1
  <2>3. QED
    BY <2>1, <2>2
<1>6. ASSUME NEW p \in Proc, NEW q \in Proc, Fork(p, q) PROVE KindInv'
  <2>1. ofile' = [ofile EXCEPT ![q] = ofile[p]] /\ kind' = kind
    BY <1>6 DEF Fork
  <2>2. ASSUME NEW f \in File, ref[f] # 0 PROVE ref'[f] # 0
    <3> DEFINE D == {d \in Fd : ofile[p][d] = f}
    <3>1. ref'[f] = ref[f] + Cardinality(D)
      BY <1>6 DEF Fork
    <3>2. Cardinality(D) \in Nat
      BY Counted
    <3> HIDE DEF D
    <3>3. QED
      BY <2>2, <3>1, <3>2
  <2>3. QED
    BY <2>1, <2>2
<1>7. ASSUME NEW p \in Proc, FileClose(p) PROVE KindInv'
  <2>1. PICK f \in File :
           /\ Pending(p, f) /\ ref[f] \in Nat /\ ref[f] >= 1
           /\ ref' = [ref EXCEPT ![f] = ref[f] - 1]
           /\ \/ ref[f] = 1 /\ kind' = [kind EXCEPT ![f] = None]
              \/ ref[f] # 1 /\ kind' = kind
    <3> HIDE DEF TypeOK
    <3>1. QED
      BY <1>7, FileCloseIs
  <2>2. ofile' = ofile
    BY <1>7 DEF FileClose
  <2>3. CASE ref[f] = 1
    <3>1. \A q \in Proc, x \in Fd : ofile[q][x] # f
      BY <2>1, <2>3, LastReference
    <3>2. QED
      BY <2>1, <2>2, <2>3, <3>1
  <2>4. CASE ref[f] # 1
    <3>1. ref[f] - 1 # 0 /\ kind' = kind
      BY <2>1, <2>4
    <3>2. QED
      BY <2>1, <2>2, <3>1
  <2>5. QED
    BY <2>3, <2>4
<1>8. CASE UNCHANGED <<ofile, ref, kind>>
  BY <1>8
<1> HIDE DEF KindInv, NoFiles, TypeOK
<1>9. QED
  BY <1>1, <1>2, <1>3, <1>4, <1>5, <1>6, <1>7, <1>8, UsersKeepEnds, ZenonT(40) DEF vars, Next,
      Kernel, Syscall, Close, Make, fileVars, SysPipe, PipeAllocFails, Exit, PipeClose, Closed,
      SysWrite, SysRead, Kill

\* filealloc(), dup and fork count the references they make; pipe(), close and exit turn a
\* file in hand into a descriptor or back; fileclose() gives up one reference.
LEMMA RefsStep ==
    ASSUME TypeOK, PhaseInv, FileRefsExact, [Next]_vars
    PROVE  FileRefsExact'
<1> USE Names DEF End, Has, Index, NoFiles, PhaseInv, Reading, TypeOK, Writing
<1>1. ASSUME NEW p \in Proc, NEW f \in File, FileAlloc(p, f) PROVE FileRefsExact'
  <2> SUFFICES ASSUME NEW h \in File
               PROVE  ref'[h] = Cardinality(Descriptors(h)') + Cardinality(Holders(h)')
    BY DEF FileRefsExact, Descriptors, Holders
  <2> DEFINE D == Descriptors(h)
             C == Holders(h)
  <2>1. /\ D \in SUBSET (Proc \X Fd) /\ C \in SUBSET Proc
        /\ ref[h] = Cardinality(D) + Cardinality(C)
    BY DEF FileRefsExact, Descriptors, Holders
  <2>2. IsFiniteSet(D) /\ Cardinality(D) \in Nat /\ IsFiniteSet(C) /\ Cardinality(C) \in Nat
    BY <2>1, Counted
  <2>3. /\ ref[f] = 0 /\ ref' = [ref EXCEPT ![f] = 1] /\ ~Pending(p, f) /\ ofile' = ofile
        /\ \A q \in Proc : q # p => closeq'[q] = closeq[q]
        /\ \A x : Pending(p, x)' <=> x = f \/ Pending(p, x)
    <3> HIDE DEF TypeOK, PhaseInv
    <3>1. QED
      BY <1>1, FileAllocIs
  <2>4. Descriptors(h)' = D
    BY <2>3 DEF Descriptors
  <2>5. \A q \in Proc : q # p => (Pending(q, h)' <=> Pending(q, h))
    BY <2>3, SMTT(30) DEF Pending
  <2>6. CASE h = f
    <3>1. Holders(h)' = C \cup {p} /\ p \notin C
      BY <2>3, <2>5, <2>6 DEF Holders
    <3> HIDE DEF D, C
    <3>2. Cardinality(Holders(h)') = Cardinality(C) + 1
      BY ONLY <2>2, <3>1, FS_AddElement
    <3>3. ref[h] = 0 /\ ref'[h] = 1
      BY <2>3, <2>6
    <3>4. QED
      BY <2>1, <2>2, <2>4, <3>2, <3>3
  <2>7. CASE h # f
    <3>1. Holders(h)' = C
      BY <2>3, <2>5, <2>7 DEF Holders
    <3>2. ref'[h] = ref[h]
      BY <2>3, <2>7
    <3>3. QED
      BY <2>1, <2>4, <3>1, <3>2
  <2>8. QED
    BY <2>6, <2>7
<1>2. ASSUME NEW p \in Proc, PipeDone(p) PROVE FileRefsExact'
  <2> SUFFICES ASSUME NEW h \in File
               PROVE  ref'[h] = Cardinality(Descriptors(h)') + Cardinality(Holders(h)')
    BY DEF FileRefsExact, Descriptors, Holders
  <2> DEFINE D == Descriptors(h)
             C == Holders(h)
  <2>1. /\ D \in SUBSET (Proc \X Fd) /\ C \in SUBSET Proc
        /\ ref[h] = Cardinality(D) + Cardinality(C)
    BY DEF FileRefsExact, Descriptors, Holders
  <2>2. IsFiniteSet(D) /\ Cardinality(D) \in Nat /\ IsFiniteSet(C) /\ Cardinality(C) \in Nat
    BY <2>1, Counted
  <2> DEFINE f == closeq[p][1]
             g == closeq[p][2]
  <2>3. /\ f \in File /\ g \in File /\ f # g
        /\ \A x : Pending(p, x) <=> x = f \/ x = g
    <3> HIDE DEF TypeOK, PhaseInv
    <3>1. PipeAlloc(p)
      BY <1>2 DEF PipeDone
    <3>2. QED
      BY <3>1, TwoInHand
  <2> DEFINE d == First(FreeFds(p))
             e == First(FreeFds(p) \ {d})
  <2>4. /\ ofile' = [ofile EXCEPT ![p][d] = f, ![p][e] = g] /\ ref' = ref
        /\ closeq' = [closeq EXCEPT ![p] = <<>>]
        /\ d \in FreeFds(p) /\ e \in FreeFds(p) /\ d # e
    BY <1>2, TwoFds DEF PipeDone
  <2> HIDE DEF d, e, f, g
  <2>5. d \in Fd /\ e \in Fd /\ ofile[p][d] = None /\ ofile[p][e] = None
    BY <2>4 DEF FreeFds
  <2>6. \A x \in Proc \X Fd : ofile'[x[1]][x[2]] =
           IF x = <<p, d>> THEN f ELSE IF x = <<p, e>> THEN g ELSE ofile[x[1]][x[2]]
    BY <2>4, <2>5
  <2>7. /\ \A q \in Proc : q # p => (Pending(q, h)' <=> Pending(q, h))
        /\ ~Pending(p, h)'
    <3>1. closeq'[p] = <<>> /\ \A q \in Proc : q # p => closeq'[q] = closeq[q]
      BY <2>4
    <3>2. DOMAIN <<>> = {}
      OBVIOUS
    <3>3. QED
      BY <3>1, <3>2, SMTT(30) DEF Pending
  <2>8. ASSUME NEW y \in Proc \X Fd, y \notin D, Descriptors(h)' = D \cup {y}, h \in {f, g}
        PROVE  ref'[h] = Cardinality(Descriptors(h)') + Cardinality(Holders(h)')
    <3>1. Holders(h)' = C \ {p} /\ p \in C
      BY <2>3, <2>7, <2>8 DEF Holders
    <3> HIDE DEF D, C
    <3>2. Cardinality(Descriptors(h)') = Cardinality(D) + 1
      BY ONLY <2>2, <2>8, FS_AddElement, ZenonT(40)
    <3>3. Cardinality(Holders(h)') = Cardinality(C) - 1
      BY ONLY <2>2, <3>1, FS_RemoveElement
    <3>4. ref'[h] = ref[h]
      BY <2>4
    <3>5. QED
      BY ONLY <2>1, <2>2, <3>2, <3>3, <3>4
  <2>9. CASE h = f
    <3>1. <<p, d>> \in Proc \X Fd /\ <<p, d>> \notin D
      BY <2>5 DEF Descriptors
    <3>2. Descriptors(h)' = D \cup {<<p, d>>}
      BY <2>3, <2>4, <2>5, <2>6, <2>9 DEF Descriptors
    <3>3. QED
      BY <2>8, <2>9, <3>1, <3>2
  <2>10. CASE h = g
    <3>1. <<p, e>> \in Proc \X Fd /\ <<p, e>> \notin D
      BY <2>5 DEF Descriptors
    <3>2. Descriptors(h)' = D \cup {<<p, e>>}
      BY <2>3, <2>4, <2>5, <2>6, <2>10 DEF Descriptors
    <3>3. QED
      BY <2>8, <2>10, <3>1, <3>2
  <2>11. CASE h \notin {f, g}
    <3>1. \A x \in Proc \X Fd : ofile'[x[1]][x[2]] = h <=> ofile[x[1]][x[2]] = h
      BY <2>5, <2>6, <2>11
    <3> USE DEF Descriptors
    <3>2. Descriptors(h)' = D
      BY ONLY <3>1
    <3>3. Holders(h)' = C
      BY <2>3, <2>7, <2>11 DEF Holders
    <3>4. QED
      BY <2>1, <2>4, <3>2, <3>3
  <2>12. QED
    BY <2>9, <2>10, <2>11
<1>3. ASSUME NEW p \in Proc, NEW d \in Fd, NEW e \in Fd, SysDup(p, d, e)
      PROVE  FileRefsExact'
  <2> SUFFICES ASSUME NEW h \in File
               PROVE  ref'[h] = Cardinality(Descriptors(h)') + Cardinality(Holders(h)')
    BY DEF FileRefsExact, Descriptors, Holders
  <2> DEFINE D == Descriptors(h)
             C == Holders(h)
  <2>1. /\ D \in SUBSET (Proc \X Fd) /\ C \in SUBSET Proc
        /\ ref[h] = Cardinality(D) + Cardinality(C)
    BY DEF FileRefsExact, Descriptors, Holders
  <2>2. IsFiniteSet(D) /\ Cardinality(D) \in Nat /\ IsFiniteSet(C) /\ Cardinality(C) \in Nat
    BY <2>1, Counted
  <2>3. /\ ofile[p][d] \in File /\ ofile' = [ofile EXCEPT ![p][e] = ofile[p][d]]
        /\ ref' = [ref EXCEPT ![ofile[p][d]] = ref[ofile[p][d]] + 1] /\ closeq' = closeq
        /\ ofile[p][e] = None
    <3>1. FreeFds(p) # {} /\ e = First(FreeFds(p))
      BY <1>3 DEF SysDup
    <3>2. ofile[p][e] = None
      BY <3>1, DescriptorInUse
    <3>3. QED
      BY <1>3, <3>2 DEF SysDup
  <2>4. Holders(h)' = C
    BY <2>3 DEF Holders, Pending
  <2>5. CASE h = ofile[p][d]
    <3>1. Descriptors(h)' = D \cup {<<p, e>>} /\ <<p, e>> \notin D
      BY <2>3, <2>5 DEF Descriptors
    <3> HIDE DEF D, C
    <3>2. Cardinality(Descriptors(h)') = Cardinality(D) + 1
      BY ONLY <2>2, <3>1, FS_AddElement
    <3>3. ref'[h] = ref[h] + 1
      BY <2>3, <2>5
    <3>4. QED
      BY <2>1, <2>2, <2>4, <3>2, <3>3
  <2>6. CASE h # ofile[p][d]
    <3>1. Descriptors(h)' = D
      BY <2>3, <2>6 DEF Descriptors
    <3>2. ref'[h] = ref[h]
      BY <2>3, <2>6
    <3>3. QED
      BY <2>1, <2>4, <3>1, <3>2
  <2>7. QED
    BY <2>5, <2>6
<1>4. ASSUME NEW p \in Proc, NEW d \in Fd, SysClose(p, d) PROVE FileRefsExact'
  <2> SUFFICES ASSUME NEW h \in File
               PROVE  ref'[h] = Cardinality(Descriptors(h)') + Cardinality(Holders(h)')
    BY DEF FileRefsExact, Descriptors, Holders
  <2> DEFINE D == Descriptors(h)
             C == Holders(h)
  <2>1. /\ D \in SUBSET (Proc \X Fd) /\ C \in SUBSET Proc
        /\ ref[h] = Cardinality(D) + Cardinality(C)
    BY DEF FileRefsExact, Descriptors, Holders
  <2>2. IsFiniteSet(D) /\ Cardinality(D) \in Nat /\ IsFiniteSet(C) /\ Cardinality(C) \in Nat
    BY <2>1, Counted
  <2>3. /\ ofile' = [ofile EXCEPT ![p][d] = None] /\ ref' = ref /\ closeq[p] = <<>>
        /\ closeq' = [closeq EXCEPT ![p] = <<ofile[p][d]>>] /\ ofile[p][d] \in File
    <3>1. /\ ofile' = [ofile EXCEPT ![p][d] = None] /\ ref' = ref
          /\ closeq' = [closeq EXCEPT ![p] = <<ofile[p][d]>>] /\ ofile[p][d] # None
          /\ pc[p] = "user"
      BY <1>4 DEF SysClose, User
    <3>2. ofile[p][d] \in File
      BY <3>1
    <3>3. closeq[p] = <<>>
      BY <3>1
    <3>4. QED
      BY <3>1, <3>2, <3>3
  <2>4. \A q \in Proc : Pending(q, h)' <=> Pending(q, h) \/ (q = p /\ h = ofile[p][d])
    <3> DEFINE k == ofile[p][d]
    <3>1. /\ k \in File /\ closeq' = [closeq EXCEPT ![p] = <<k>>] /\ p \in Proc
          /\ closeq \in [Proc -> Seq(File)] /\ closeq[p] = <<>>
      BY <2>3
    <3> HIDE DEF k
    <3>2. \A q \in Proc, j \in File : Pending(q, j)' <=> Pending(q, j) \/ (q = p /\ j = k)
      BY ONLY <3>1, PendingOne
    <3>3. QED
      BY <3>2 DEF k
  <2>5. CASE h = ofile[p][d]
    <3>1. Descriptors(h)' = D \ {<<p, d>>} /\ <<p, d>> \in D
      BY <2>3, <2>5 DEF Descriptors
    <3>2. Holders(h)' = C \cup {p} /\ p \notin C
      BY <2>3, <2>4, <2>5, NonePending DEF Holders
    <3> HIDE DEF D, C
    <3>3. Cardinality(Descriptors(h)') = Cardinality(D) - 1
      BY ONLY <2>2, <3>1, FS_RemoveElement
    <3>4. Cardinality(Holders(h)') = Cardinality(C) + 1
      BY ONLY <2>2, <3>2, FS_AddElement
    <3>5. QED
      BY <2>1, <2>2, <2>3, <3>3, <3>4
  <2>6. CASE h # ofile[p][d]
    <3>1. Descriptors(h)' = D /\ Holders(h)' = C
      BY <2>3, <2>4, <2>6 DEF Descriptors, Holders
    <3>2. QED
      BY <2>1, <2>3, <3>1
  <2>7. QED
    BY <2>5, <2>6
<1>5. ASSUME NEW p \in Proc, NEW q \in Proc, Fork(p, q) PROVE FileRefsExact'
  <2> SUFFICES ASSUME NEW h \in File
               PROVE  ref'[h] = Cardinality(Descriptors(h)') + Cardinality(Holders(h)')
    BY DEF FileRefsExact, Descriptors, Holders
  <2> DEFINE D == Descriptors(h)
             C == Holders(h)
  <2>1. /\ D \in SUBSET (Proc \X Fd) /\ C \in SUBSET Proc
        /\ ref[h] = Cardinality(D) + Cardinality(C)
    BY DEF FileRefsExact, Descriptors, Holders
  <2>2. IsFiniteSet(D) /\ Cardinality(D) \in Nat /\ IsFiniteSet(C) /\ Cardinality(C) \in Nat
    BY <2>1, Counted
  <2> DEFINE E == {x \in Fd : ofile[p][x] = h}
             G == {y \in Proc \X Fd : y[1] = q /\ y[2] \in E}
  <2>3. /\ ofile' = [ofile EXCEPT ![q] = ofile[p]] /\ closeq' = closeq /\ p # q
        /\ ref'[h] = ref[h] + Cardinality(E) /\ ofile[q] = NoFiles
    BY <1>5 DEF Fork, User
  <2>4. Holders(h)' = C
    BY <2>3 DEF Holders, Pending
  <2>5. Descriptors(h)' = D \cup G /\ D \cap G = {}
    BY <2>3 DEF Descriptors, NoFiles
  <2>6. IsFiniteSet(E) /\ Cardinality(E) \in Nat /\ IsFiniteSet(G)
    BY Counted
  <2>7. Cardinality(G) = Cardinality(E)
    <3> DEFINE b == [x \in E |-> <<q, x>>]
    <3>1. b \in [E -> G]
      OBVIOUS
    <3>2. \A x, y \in E : b[x] = b[y] => x = y
      OBVIOUS
    <3>3. \A y \in G : \E x \in E : b[x] = y
      OBVIOUS
    <3> HIDE DEF b, E, G
    <3>4. b \in Bijection(E, G)
      BY <3>1, <3>2, <3>3, Fun_IsBij
    <3>5. ExistsBijection(E, G)
      BY <3>4 DEF ExistsBijection
    <3>6. QED
      BY <2>6, <3>5, FS_Bijection
  <2> HIDE DEF D, C, E, G
  <2>8. Cardinality(D \cup G) = Cardinality(D) + Cardinality(G) - Cardinality({})
    BY ONLY <2>2, <2>5, <2>6, FS_Union
  <2>9. Cardinality(Descriptors(h)') = Cardinality(D) + Cardinality(E)
    BY <2>2, <2>5, <2>6, <2>7, <2>8, FS_EmptySet
  <2>10. QED
    BY <2>1, <2>2, <2>3, <2>4, <2>6, <2>9
<1>6. ASSUME NEW p \in Proc, NEW d \in Fd, ExitFile(p, d) PROVE FileRefsExact'
  <2> SUFFICES ASSUME NEW h \in File
               PROVE  ref'[h] = Cardinality(Descriptors(h)') + Cardinality(Holders(h)')
    BY DEF FileRefsExact, Descriptors, Holders
  <2> DEFINE D == Descriptors(h)
             C == Holders(h)
  <2>1. /\ D \in SUBSET (Proc \X Fd) /\ C \in SUBSET Proc
        /\ ref[h] = Cardinality(D) + Cardinality(C)
    BY DEF FileRefsExact, Descriptors, Holders
  <2>2. IsFiniteSet(D) /\ Cardinality(D) \in Nat /\ IsFiniteSet(C) /\ Cardinality(C) \in Nat
    BY <2>1, Counted
  <2>3. /\ ofile' = [ofile EXCEPT ![p][d] = None] /\ ref' = ref /\ closeq[p] = <<>>
        /\ closeq' = [closeq EXCEPT ![p] = <<ofile[p][d]>>] /\ ofile[p][d] \in File
    BY <1>6, DescriptorInUse DEF ExitFile
  <2>4. \A q \in Proc : Pending(q, h)' <=> Pending(q, h) \/ (q = p /\ h = ofile[p][d])
    <3> DEFINE k == ofile[p][d]
    <3>1. /\ k \in File /\ closeq' = [closeq EXCEPT ![p] = <<k>>] /\ p \in Proc
          /\ closeq \in [Proc -> Seq(File)] /\ closeq[p] = <<>>
      BY <2>3
    <3> HIDE DEF k
    <3>2. \A q \in Proc, j \in File : Pending(q, j)' <=> Pending(q, j) \/ (q = p /\ j = k)
      BY ONLY <3>1, PendingOne
    <3>3. QED
      BY <3>2 DEF k
  <2>5. CASE h = ofile[p][d]
    <3>1. Descriptors(h)' = D \ {<<p, d>>} /\ <<p, d>> \in D
      BY <2>3, <2>5 DEF Descriptors
    <3>2. Holders(h)' = C \cup {p} /\ p \notin C
      BY <2>3, <2>4, <2>5, NonePending DEF Holders
    <3> HIDE DEF D, C
    <3>3. Cardinality(Descriptors(h)') = Cardinality(D) - 1
      BY ONLY <2>2, <3>1, FS_RemoveElement
    <3>4. Cardinality(Holders(h)') = Cardinality(C) + 1
      BY ONLY <2>2, <3>2, FS_AddElement
    <3>5. QED
      BY <2>1, <2>2, <2>3, <3>3, <3>4
  <2>6. CASE h # ofile[p][d]
    <3>1. Descriptors(h)' = D /\ Holders(h)' = C
      BY <2>3, <2>4, <2>6 DEF Descriptors, Holders
    <3>2. QED
      BY <2>1, <2>3, <3>1
  <2>7. QED
    BY <2>5, <2>6
<1>7. ASSUME NEW p \in Proc, FileClose(p) PROVE FileRefsExact'
  <2> SUFFICES ASSUME NEW h \in File
               PROVE  ref'[h] = Cardinality(Descriptors(h)') + Cardinality(Holders(h)')
    BY DEF FileRefsExact, Descriptors, Holders
  <2> DEFINE D == Descriptors(h)
             C == Holders(h)
  <2>1. /\ D \in SUBSET (Proc \X Fd) /\ C \in SUBSET Proc
        /\ ref[h] = Cardinality(D) + Cardinality(C)
    BY DEF FileRefsExact, Descriptors, Holders
  <2>2. IsFiniteSet(D) /\ Cardinality(D) \in Nat /\ IsFiniteSet(C) /\ Cardinality(C) \in Nat
    BY <2>1, Counted
  <2>3. PICK f \in File :
           /\ Pending(p, f) /\ ref' = [ref EXCEPT ![f] = ref[f] - 1]
           /\ \A q \in Proc : q # p => closeq'[q] = closeq[q]
           /\ \A x : Pending(p, x)' <=> x # f /\ Pending(p, x)
    <3> HIDE DEF TypeOK, PhaseInv
    <3>1. QED
      BY <1>7, FileCloseIs
  <2>4. Descriptors(h)' = D
    BY <1>7 DEF FileClose, Descriptors
  <2>5. \A q \in Proc : q # p => (Pending(q, h)' <=> Pending(q, h))
    BY <2>3, SMTT(30) DEF Pending
  <2>6. CASE h = f
    <3>1. Holders(h)' = C \ {p} /\ p \in C
      BY <2>3, <2>5, <2>6 DEF Holders
    <3> HIDE DEF D, C
    <3>2. Cardinality(Holders(h)') = Cardinality(C) - 1
      BY ONLY <2>2, <3>1, FS_RemoveElement
    <3>3. ref'[h] = ref[h] - 1
      BY <2>3, <2>6
    <3>4. QED
      BY <2>1, <2>2, <2>4, <3>2, <3>3
  <2>7. CASE h # f
    <3>1. Holders(h)' = C
      BY <2>3, <2>5, <2>7 DEF Holders
    <3>2. ref'[h] = ref[h]
      BY <2>3, <2>7
    <3>3. QED
      BY <2>1, <2>4, <3>1, <3>2
  <2>8. QED
    BY <2>6, <2>7
<1>8. CASE UNCHANGED <<ofile, ref, closeq>>
  BY <1>8, SameRefs
<1> HIDE DEF End, Has, Index, NoFiles, PhaseInv, Reading, TypeOK, Writing
<1>9. QED
  BY <1>1, <1>2, <1>3, <1>4, <1>5, <1>6, <1>7, <1>8, UsersKeepEnds DEF vars, Next,
      Kernel, Syscall, Close, Make, fileVars, pipeVars, SysPipe, PipeAllocFails, PipeUndone, Exit, PipeClose, Closed, SysWrite,
      SysRead, Kill

\* The end of a file is handed over to pipeclose() with its last reference.
LEMMA EndStep ==
    ASSUME TypeOK, PhaseInv, KindInv, FileRefsExact, EndInv, [Next]_vars
    PROVE  EndInv'
<1> USE Names DEF End, EndInv, Has, Index, KindInv, NoFiles, PhaseInv, Reading, TypeOK,
    Writing
<1>1. ASSUME NEW p \in Proc, PipeDone(p) PROVE EndInv'
  <2> HIDE DEF End, EndInv, Has, Index, KindInv, NoFiles, PhaseInv, Reading, TypeOK, Writing
  <2>1. PipeAlloc(p) /\ ff' = ff
    BY <1>1 DEF PipeDone
  <2>2. QED
    BY <2>1, NewPipeEnds
<1>2. ASSUME NEW p \in Proc, PipeUndone(p) PROVE EndInv'
  <2> HIDE DEF End, EndInv, Has, Index, KindInv, NoFiles, PhaseInv, Reading, TypeOK, Writing
  <2>1. PipeAlloc(p) /\ ff' = ff
    BY <1>2 DEF PipeUndone
  <2>2. QED
    BY <2>1, NewPipeEnds
<1>3. ASSUME NEW p \in Proc, FileClose(p) PROVE EndInv'
  <2>1. PICK f \in File :
           /\ ref[f] >= 1
           /\ \/ ref[f] = 1 /\ kind' = [kind EXCEPT ![f] = None] /\ ff' = [ff EXCEPT ![p] = kind[f]]
              \/ ref[f] # 1 /\ kind' = kind /\ ff' = ff
    <3> HIDE DEF TypeOK, PhaseInv, EndInv, KindInv
    <3>1. QED
      BY <1>3, FileCloseIs
  <2>2. UNCHANGED <<alive, open>> /\ ff[p] = None
    BY <1>3 DEF FileClose, pipeVars
  <2>3. CASE ref[f] # 1
    BY <2>1, <2>2, <2>3
  <2>4. CASE ref[f] = 1 /\ kind[f] = None
    <3>1. kind' = kind /\ ff' = ff
      BY <2>1, <2>2, <2>4
    <3>2. QED
      BY <2>2, <3>1
  <2>5. CASE ref[f] = 1 /\ kind[f] # None
    <3>1. kind[f] # None /\ kind' = [kind EXCEPT ![f] = None] /\ ff' = [ff EXCEPT ![p] = kind[f]]
      BY <2>1, <2>5
    <3>2. /\ \A h \in File : kind'[h] = IF h = f THEN None ELSE kind[h]
          /\ \A q \in Proc : ff'[q] = IF q = p THEN kind[f] ELSE ff[q]
      BY <3>1
    <3>3. kind[f] \in End /\ (\A h \in File : kind[h] = kind[f] => h = f)
          /\ (\A q \in Proc : ff[q] # kind[f])
      BY <3>1
    <3>4. ASSUME NEW e \in End
          PROVE  ((\E h \in File : kind'[h] = e) \/ (\E q \in Proc : ff'[q] = e))
                   <=> (\E h \in File : kind[h] = e) \/ (\E q \in Proc : ff[q] = e)
      <4>1. CASE e = kind[f]
        BY <3>2, <4>1
      <4>2. CASE e # kind[f]
        <5>1. \A h \in File : kind'[h] = e <=> kind[h] = e
          BY <3>2, <3>3, <4>2
        <5>2. \A q \in Proc : ff'[q] = e <=> ff[q] = e
          BY <2>2, <3>2, <4>2
        <5>3. QED
          BY ONLY <5>1, <5>2
      <4>3. QED
        BY <4>1, <4>2
    <3>5. ASSUME NEW e \in End
          PROVE  open'[e] <=> (\E h \in File : kind'[h] = e) \/ (\E q \in Proc : ff'[q] = e)
      <4>1. open[e] <=> (\E h \in File : kind[h] = e) \/ (\E q \in Proc : ff[q] = e)
        OBVIOUS
      <4>2. open' = open
        BY <2>2
      <4>3. ((\E h \in File : kind'[h] = e) \/ (\E q \in Proc : ff'[q] = e))
                   <=> (\E h \in File : kind[h] = e) \/ (\E q \in Proc : ff[q] = e)
        BY <3>4
      <4>4. QED
        BY ONLY <4>1, <4>2, <4>3
    <3>6. \A h, g \in File : kind'[h] = kind'[g] /\ kind'[h] # None => h = g
      BY <3>2
    <3>7. ASSUME NEW q \in Proc, NEW r \in Proc, ff'[q] = ff'[r], ff'[q] # None PROVE q = r
      <4>1. CASE q # p /\ r # p
        BY <3>2, <3>7, <4>1
      <4>2. CASE q = p
        <5>1. r # p => ff[r] = kind[f]
          BY <3>2, <3>7, <4>2
        <5>2. QED
          BY <3>3, <4>2, <5>1
      <4>3. CASE r = p
        <5>1. q # p => ff[q] = kind[f]
          BY <3>2, <3>7, <4>3
        <5>2. QED
          BY <3>3, <4>3, <5>1
      <4>4. QED
        BY <4>1, <4>2, <4>3
    <3>8. ASSUME NEW h \in File, NEW q \in Proc, kind'[h] = ff'[q] PROVE ff'[q] = None
      <4>1. CASE h = f
        BY <3>2, <3>8, <4>1
      <4>2. CASE h # f
        <5>1. kind[h] = ff'[q] /\ kind[h] # kind[f]
          BY <3>2, <3>3, <3>8, <4>2
        <5>2. q # p /\ kind[h] = ff[q]
          BY <3>2, <5>1
        <5>3. QED
          BY <3>2, <5>2
      <4>3. QED
        BY <4>1, <4>2
    <3>9. QED
      BY <2>2, <3>5, <3>6, <3>7, <3>8, SMTT(30)
  <2>6. QED
    BY <2>3, <2>4, <2>5
<1>4. ASSUME NEW p \in Proc, PipeClose(p) PROVE EndInv'
  BY <1>4 DEF PipeClose, BothClosed, CloseWakes, WakeReaders, WakeWriters, Woken
<1>5. CASE UNCHANGED <<kind, ff, alive, open>>
  BY <1>5
<1> HIDE DEF End, EndInv, Has, Index, KindInv, NoFiles, PhaseInv, Reading, TypeOK,
    Writing
<1>6. QED
  BY <1>1, <1>2, <1>3, <1>4, <1>5, UsersKeepEnds, ZenonT(40) DEF vars, Next, Kernel, Syscall, Close,
      Make, fileVars, pipeVars, SysPipe, FileAlloc, PipeAllocFails, SysDup, SysClose, Fork, Exit, ExitFile, Closed, SysWrite,
      SysRead, Kill

\* pipewrite() adds a byte only when the pipe is not full.
LEMMA UsedStep ==
    ASSUME TypeOK, UsedInv, [Next]_vars
    PROVE  UsedInv'
<1> USE Names DEF End, Index, Reading, TypeOK, UsedInv, Writing
<1>1. ASSUME NEW p \in Proc, PipeAlloc(p) PROVE UsedInv'
  <2>1. nread' = nwrite' /\ 0 = nread' /\ 0 \in Index
    BY <1>1, Sizes DEF PipeAlloc, Index
  <2>2. Minus(nwrite', nread') = 0
    BY <2>1, MinusDist
  <2>3. QED
    BY <2>2, Sizes DEF Used, Minus
<1>2. ASSUME NEW p \in Proc, PipeDone(p) \/ PipeUndone(p) PROVE UsedInv'
  BY <1>1, <1>2 DEF PipeDone, PipeUndone
<1>3. ASSUME NEW p \in Proc, PipeClose(p) PROVE UsedInv'
  <2>1. CASE UNCHANGED <<nread, nwrite>>
    BY <2>1 DEF Used
  <2>2. CASE nread' = 0 /\ nwrite' = 0
    <3>1. 0 \in Index
      BY Sizes DEF Index
    <3>2. Minus(nwrite', nread') = 0
      BY <2>2, <3>1, MinusDist
    <3>3. QED
      BY <3>2, Sizes DEF Used, Minus
  <2>3. QED
    BY <1>3, <2>1, <2>2 DEF PipeClose
<1>4. ASSUME NEW p \in Proc, NEW c \in Byte, WritePut(p, c) PROVE UsedInv'
  <2>1. nread' = nread /\ nwrite' = Plus(nwrite, 1) /\ ~Full
    BY <1>4 DEF WritePut, Plus
  <2>2. Used = Minus(nwrite, nread) /\ Used \in Nat /\ Used # PIPESIZE
    BY <2>1, TestsAre
  <2>3. Used < PIPESIZE
    BY <2>2, Sizes
  <2>4. Minus(nwrite', nread') = Used + 1
    BY <2>1, <2>2, <2>3, MinusPut
  <2>5. Used' = Used + 1
    BY <2>4 DEF Used, Minus
  <2>6. QED
    BY <2>2, <2>3, <2>5, Sizes
<1>5. ASSUME NEW p \in Proc, NEW fault \in BOOLEAN, ReadByte(p, fault) PROVE UsedInv'
  <2>1. nread' = Plus(nread, 1) /\ nwrite' = nwrite /\ nread # nwrite
    BY <1>5 DEF ReadByte, Plus, Empty
  <2>2. Used = Minus(nwrite, nread) /\ Used \in Nat
    BY TestsAre
  <2>3. Minus(nwrite', nread') = Used - 1
    BY <2>1, <2>2, MinusGet
  <2>4. Used' = Used - 1
    BY <2>3 DEF Used, Minus
  <2>5. QED
    BY <2>2, <2>4, Sizes
<1>6. CASE UNCHANGED <<nread, nwrite>>
  BY <1>6 DEF Used
<1> HIDE DEF End, Index, Reading, TypeOK, UsedInv, Writing
<1>7. QED
  BY <1>1, <1>2, <1>3, <1>4, <1>5, <1>6, RingSteps

\* Under pi->lock: who goes to sleep has just seen why, and who closes the other end
\* wakes everybody.
LEMMA SleepStep ==
    ASSUME TypeOK, PhaseInv, LockInv, EndInv, SleepInv, SleepsForAReason, [Next]_vars
    PROVE  SleepInv'
<1> USE Names DEF Empty, End, EndInv, Full, Has, Index, Inside, LockInv, NoFiles,
    PhaseInv, Reading, SleepInv, SleepsForAReason, TypeOK, Writing
<1>1. ASSUME NEW p \in Proc, SysPipe(p) PROVE SleepInv'
  BY <1>1 DEF SysPipe, Goto, User, fileVars, pipeVars
<1>2. ASSUME NEW p \in Proc, PipeAllocFails(p) PROVE SleepInv'
  BY <1>2 DEF PipeAllocFails, Goto, fileVars, pipeVars
<1>3. ASSUME NEW p \in Proc, PipeDone(p) PROVE SleepInv'
  <2>1. PipeAlloc(p) /\ pc' = [pc EXCEPT ![p] = "user"]
    BY <1>3 DEF PipeDone, Goto
  <2>2. pc[p] = "pipe" /\ ~open["r"] /\ ~open["w"]
    <3> HIDE DEF TypeOK, EndInv, End
    <3>1. QED
      BY <2>1, NoPipeYet
  <2>3. \A q \in Proc : pc[q] \notin {"rsleep", "wsleep", "wput", "rwait"}
    BY <2>2
  <2>4. \A q \in Proc : pc'[q] \notin {"rsleep", "wsleep", "wput", "rwait"}
    BY <2>1, <2>3
  <2>5. QED
    BY <2>4
<1>4. ASSUME NEW p \in Proc, PipeUndone(p) PROVE SleepInv'
  <2>1. PipeAlloc(p) /\ pc' = [pc EXCEPT ![p] = "close"]
    BY <1>4 DEF PipeUndone, Goto
  <2>2. pc[p] = "pipe" /\ ~open["r"] /\ ~open["w"]
    <3> HIDE DEF TypeOK, EndInv, End
    <3>1. QED
      BY <2>1, NoPipeYet
  <2>3. \A q \in Proc : pc[q] \notin {"rsleep", "wsleep", "wput", "rwait"}
    BY <2>2
  <2>4. \A q \in Proc : pc'[q] \notin {"rsleep", "wsleep", "wput", "rwait"}
    BY <2>1, <2>3
  <2>5. QED
    BY <2>4
<1>5. ASSUME NEW p \in Proc, NEW d \in Fd, SysClose(p, d) PROVE SleepInv'
  BY <1>5 DEF SysClose, Goto, User, pipeVars
<1>6. ASSUME NEW p \in Proc, NEW q \in Proc, Fork(p, q) PROVE SleepInv'
  BY <1>6, SMTT(30) DEF Fork, Goto, User, pipeVars
<1>7. ASSUME NEW p \in Proc, Exit(p) PROVE SleepInv'
  BY <1>7 DEF Exit, Goto, fileVars, pipeVars
<1>8. ASSUME NEW p \in Proc, PipeClose(p) PROVE SleepInv'
  BY <1>8 DEF PipeClose, BothClosed, CloseWakes, WakeReaders, WakeWriters, Woken
<1>9. ASSUME NEW p \in Proc, Closed(p) PROVE SleepInv'
  BY <1>9 DEF Closed, Goto, fileVars, pipeVars
<1>10. ASSUME NEW p \in Proc, NEW n \in 1..MaxCount, SysWrite(p, n) PROVE SleepInv'
  BY <1>10, SMTT(30) DEF SysWrite, Goto, User, fileVars, pipeVars
<1>11. ASSUME NEW p \in Proc, WriteLock(p) PROVE SleepInv'
  BY <1>11 DEF WriteLock, Goto, fileVars
<1>12. ASSUME NEW p \in Proc, WriteDone(p) PROVE SleepInv'
  BY <1>12 DEF WriteDone, WakeReaders, Woken, fileVars
<1>13. ASSUME NEW p \in Proc, WriteGivesUp(p) PROVE SleepInv'
  BY <1>13 DEF WriteGivesUp, Goto, fileVars
<1>14. ASSUME NEW p \in Proc, WriteGoesOn(p) PROVE SleepInv'
  BY <1>14 DEF WriteGoesOn, Goto, fileVars, pipeVars
<1>15. ASSUME NEW p \in Proc, WriteSleep(p) PROVE SleepInv'
  BY <1>15, SMTT(30) DEF WriteSleep, WakeReaders, Woken, fileVars
<1>16. ASSUME NEW p \in Proc, NEW c \in Byte, WritePut(p, c) PROVE SleepInv'
  BY <1>16 DEF WritePut, Goto, fileVars
<1>17. ASSUME NEW p \in Proc, WriteFault(p) PROVE SleepInv'
  BY <1>17 DEF WriteFault, WakeReaders, Woken, fileVars
<1>18. ASSUME NEW p \in Proc, NEW n \in 1..MaxCount, SysRead(p, n) PROVE SleepInv'
  BY <1>18 DEF SysRead, Goto, User, fileVars, pipeVars
<1>19. ASSUME NEW p \in Proc, ReadWaits(p) PROVE SleepInv'
  <2>1. Empty /\ open["w"] /\ pc' = [pc EXCEPT ![p] = "rwait"] /\ plock = None
        /\ UNCHANGED <<nread, nwrite, open, abandoned>>
    BY <1>19 DEF ReadWaits, Goto
  <2>2. ~Full
    BY <2>1, TestsAre, Sizes
  <2>3. \A q \in Proc : pc[q] # "wsleep" /\ pc[q] \notin Inside
    BY <2>1, <2>2
  <2>4. QED
    BY <2>1, <2>3
<1>20. ASSUME NEW p \in Proc, ReadGivesUp(p) PROVE SleepInv'
  BY <1>20 DEF ReadGivesUp, Goto, fileVars, pipeVars
<1>21. ASSUME NEW p \in Proc, ReadStarts(p) PROVE SleepInv'
  BY <1>21 DEF ReadStarts, Goto, fileVars
<1>22. ASSUME NEW p \in Proc, ReadSleep(p) PROVE SleepInv'
  BY <1>22 DEF ReadSleep, Goto, fileVars
<1>23. ASSUME NEW p \in Proc, NEW fault \in BOOLEAN, ReadByte(p, fault) PROVE SleepInv'
  BY <1>23, SMTT(30) DEF ReadByte, fileVars
<1>24. ASSUME NEW p \in Proc, ReadDone(p) PROVE SleepInv'
  BY <1>24 DEF ReadDone, ReadWakeup, WakeWriters, Woken, fileVars
<1>25. ASSUME NEW p \in Proc, Kill(p) PROVE SleepInv'
  BY <1>25, SMTT(30) DEF Kill, fileVars, pipeVars
<1>26. CASE UNCHANGED <<nread, nwrite, open, abandoned, pc>>
  BY <1>26
<1> HIDE DEF Empty, End, EndInv, Full, Has, Index, Inside, LockInv, NoFiles, PhaseInv,
    Reading, SleepInv, SleepsForAReason, TypeOK, Writing
<1>27. QED
  BY <1>1, <1>2, <1>3, <1>4, <1>5, <1>6, <1>7, <1>8, <1>9, <1>10, <1>11, <1>12, <1>13, <1>14, <1>15,
      <1>16, <1>17, <1>18, <1>19, <1>20, <1>21, <1>22, <1>23, <1>24, <1>25, <1>26 DEF
      vars, Next, Kernel, Syscall, Write, Read, Close, Make, fileVars, pipeVars, SysDup,
      ExitFile, FileClose, FileAlloc

\* Who changes what a sleeper waits for wakes it before it gives up pi->lock.
LEMMA ReasonStep ==
    ASSUME TypeOK, PhaseInv, LockInv, EndInv, SleepInv, SleepsForAReason, [Next]_vars
    PROVE  SleepsForAReason'
<1> USE Names DEF Empty, End, EndInv, Full, Has, Index, Inside, LockInv, NoFiles,
    PhaseInv, Reading, SleepInv, SleepsForAReason, TypeOK, Writing
<1>1. ASSUME NEW p \in Proc, SysPipe(p) PROVE SleepsForAReason'
  BY <1>1 DEF SysPipe, Goto, User, fileVars, pipeVars
<1>2. ASSUME NEW p \in Proc, PipeAllocFails(p) PROVE SleepsForAReason'
  BY <1>2 DEF PipeAllocFails, Goto, fileVars, pipeVars
<1>3. ASSUME NEW p \in Proc, PipeDone(p) PROVE SleepsForAReason'
  <2>1. PipeAlloc(p) /\ pc' = [pc EXCEPT ![p] = "user"]
    BY <1>3 DEF PipeDone, Goto
  <2>2. pc[p] = "pipe" /\ ~open["r"] /\ ~open["w"]
    <3> HIDE DEF TypeOK, EndInv, End
    <3>1. QED
      BY <2>1, NoPipeYet
  <2>3. \A q \in Proc : pc[q] \notin {"rsleep", "wsleep", "wput", "rwait"}
    BY <2>2
  <2>4. \A q \in Proc : pc'[q] \notin {"rsleep", "wsleep", "wput", "rwait"}
    BY <2>1, <2>3
  <2>5. QED
    BY <2>4
<1>4. ASSUME NEW p \in Proc, PipeUndone(p) PROVE SleepsForAReason'
  <2>1. PipeAlloc(p) /\ pc' = [pc EXCEPT ![p] = "close"]
    BY <1>4 DEF PipeUndone, Goto
  <2>2. pc[p] = "pipe" /\ ~open["r"] /\ ~open["w"]
    <3> HIDE DEF TypeOK, EndInv, End
    <3>1. QED
      BY <2>1, NoPipeYet
  <2>3. \A q \in Proc : pc[q] \notin {"rsleep", "wsleep", "wput", "rwait"}
    BY <2>2
  <2>4. \A q \in Proc : pc'[q] \notin {"rsleep", "wsleep", "wput", "rwait"}
    BY <2>1, <2>3
  <2>5. QED
    BY <2>4
<1>5. ASSUME NEW p \in Proc, NEW d \in Fd, SysClose(p, d) PROVE SleepsForAReason'
  BY <1>5 DEF SysClose, Goto, User, pipeVars
<1>6. ASSUME NEW p \in Proc, NEW q \in Proc, Fork(p, q) PROVE SleepsForAReason'
  BY <1>6 DEF Fork, Goto, User, pipeVars
<1>7. ASSUME NEW p \in Proc, Exit(p) PROVE SleepsForAReason'
  BY <1>7 DEF Exit, Goto, fileVars, pipeVars
<1>8. ASSUME NEW p \in Proc, PipeClose(p) PROVE SleepsForAReason'
  BY <1>8 DEF PipeClose, BothClosed, CloseWakes, WakeReaders, WakeWriters, Woken
<1>9. ASSUME NEW p \in Proc, Closed(p) PROVE SleepsForAReason'
  BY <1>9 DEF Closed, Goto, fileVars, pipeVars
<1>10. ASSUME NEW p \in Proc, NEW n \in 1..MaxCount, SysWrite(p, n)
      PROVE  SleepsForAReason'
  BY <1>10 DEF SysWrite, Goto, User, fileVars, pipeVars
<1>11. ASSUME NEW p \in Proc, WriteLock(p) PROVE SleepsForAReason'
  BY <1>11 DEF WriteLock, Goto, fileVars
<1>12. ASSUME NEW p \in Proc, WriteDone(p) PROVE SleepsForAReason'
  BY <1>12 DEF WriteDone, WakeReaders, Woken, fileVars
<1>13. ASSUME NEW p \in Proc, WriteGivesUp(p) PROVE SleepsForAReason'
  BY <1>13 DEF WriteGivesUp, Goto, fileVars
<1>14. ASSUME NEW p \in Proc, WriteGoesOn(p) PROVE SleepsForAReason'
  BY <1>14 DEF WriteGoesOn, Goto, fileVars, pipeVars
<1>15. ASSUME NEW p \in Proc, WriteSleep(p) PROVE SleepsForAReason'
  BY <1>15 DEF WriteSleep, WakeReaders, Woken, fileVars
<1>16. ASSUME NEW p \in Proc, NEW c \in Byte, WritePut(p, c) PROVE SleepsForAReason'
  BY <1>16 DEF WritePut, Goto, fileVars
<1>17. ASSUME NEW p \in Proc, WriteFault(p) PROVE SleepsForAReason'
  BY <1>17 DEF WriteFault, WakeReaders, Woken, fileVars
<1>18. ASSUME NEW p \in Proc, NEW n \in 1..MaxCount, SysRead(p, n)
       PROVE  SleepsForAReason'
  BY <1>18 DEF SysRead, Goto, User, fileVars, pipeVars
<1>19. ASSUME NEW p \in Proc, ReadWaits(p) PROVE SleepsForAReason'
  BY <1>19 DEF ReadWaits, Goto, fileVars
<1>20. ASSUME NEW p \in Proc, ReadGivesUp(p) PROVE SleepsForAReason'
  BY <1>20 DEF ReadGivesUp, Goto, fileVars, pipeVars
<1>21. ASSUME NEW p \in Proc, ReadStarts(p) PROVE SleepsForAReason'
  BY <1>21 DEF ReadStarts, Goto, fileVars
<1>22. ASSUME NEW p \in Proc, ReadSleep(p) PROVE SleepsForAReason'
  BY <1>22 DEF ReadSleep, Goto, fileVars
<1>23. ASSUME NEW p \in Proc, NEW fault \in BOOLEAN, ReadByte(p, fault)
       PROVE  SleepsForAReason'
  BY <1>23 DEF ReadByte, fileVars
<1>24. ASSUME NEW p \in Proc, ReadDone(p) PROVE SleepsForAReason'
  BY <1>24 DEF ReadDone, ReadWakeup, WakeWriters, Woken, fileVars
<1>25. ASSUME NEW p \in Proc, Kill(p) PROVE SleepsForAReason'
  BY <1>25 DEF Kill, fileVars, pipeVars
<1>26. CASE UNCHANGED <<nread, nwrite, open, plock, abandoned, pc>>
  BY <1>26
<1> HIDE DEF Empty, End, EndInv, Full, Has, Index, Inside, LockInv, NoFiles, PhaseInv,
    Reading, SleepInv, SleepsForAReason, TypeOK, Writing
<1>27. QED
  BY <1>1, <1>2, <1>3, <1>4, <1>5, <1>6, <1>7, <1>8, <1>9, <1>10, <1>11, <1>12, <1>13, <1>14, <1>15,
      <1>16, <1>17, <1>18, <1>19, <1>20, <1>21, <1>22, <1>23, <1>24, <1>25, <1>26 DEF
      vars, Next, Kernel, Syscall, Write, Read, Close, Make, fileVars, pipeVars, SysDup,
      ExitFile, FileClose, FileAlloc

-----------------------------------------------------------------------------
(* The invariant and what follows from it.                                  *)

\* At first there is one process, no file and no pipe.
LEMMA InitInv == Init => PipeInv
<1> SUFFICES ASSUME Init PROVE PipeInv
  OBVIOUS
<1>1. 0 \in Index /\ Minus(0, 0) = 0
  <2>1. 0 \in Index
    BY Sizes DEF Index
  <2>2. QED
    BY <2>1, MinusDist
<1>2. TypeOK
  <2>1. /\ ofile \in [Proc -> [Fd -> File \cup {None}]]
        /\ ref \in [File -> Nat] /\ kind \in [File -> End \cup {None}]
    BY DEF Init, NoFiles
  <2>2. /\ data \in [0..(PIPESIZE - 1) -> Byte \cup {None}] /\ nread \in Index /\ nwrite \in Index
    BY <1>1 DEF Init
  <2>3. /\ killed \in [Proc -> BOOLEAN] /\ left \in [Proc -> Int]
        /\ ff \in [Proc -> End \cup {None}]
        /\ pc \in [Proc -> {"dead", "user", "pipe", "close", "exit"} \cup Reading \cup Writing]
    BY DEF Init
  <2>4. /\ open \in [End -> BOOLEAN] /\ plock \in Proc \cup {None} /\ alive \in BOOLEAN
        /\ ch \in Byte \cup {None} /\ abandoned \in BOOLEAN
    BY DEF Init
  <2>5. closeq \in [Proc -> Seq(File)]
    BY DEF Init
  <2>6. QED
    BY <2>1, <2>2, <2>3, <2>4, <2>5 DEF TypeOK
<1>3. PhaseInv
  <2>1. \A p \in Proc : /\ closeq[p] = <<>> /\ ff[p] = None /\ ofile[p] = NoFiles
                        /\ pc[p] \in {"user", "dead"}
    BY DEF Init
  <2>2. Distinct(<<>>)
    BY DEF Distinct
  <2>3. QED
    BY <2>1, <2>2 DEF PhaseInv, Reading, Writing
<1>4. LockInv /\ KindInv /\ EndInv /\ SleepsForAReason /\ SleepInv
  BY Names DEF Init, NoFiles, LockInv, KindInv, EndInv, SleepsForAReason, SleepInv, Inside, End
<1>5. FileRefsExact
  <2> SUFFICES ASSUME NEW f \in File
               PROVE  ref[f] = Cardinality(Descriptors(f)) + Cardinality(Holders(f))
    BY DEF FileRefsExact, Descriptors, Holders
  <2>1. \A p \in Proc, d \in Fd : ofile[p][d] # f
    BY Names DEF Init, NoFiles
  <2>2. \A p \in Proc : ~Pending(p, f)
    BY NonePending DEF Init
  <2>3. Descriptors(f) = {} /\ Holders(f) = {}
    BY <2>1, <2>2 DEF Descriptors, Holders
  <2>4. ref[f] = 0
    BY DEF Init
  <2>5. QED
    BY <2>3, <2>4, FS_EmptySet
<1>6. UsedInv
  BY <1>1, Sizes DEF Init, UsedInv, Used, Minus
<1>7. QED
  BY <1>2, <1>3, <1>4, <1>5, <1>6 DEF PipeInv

\* Descriptors, files, ends and sleepers fit together in every reachable state, for any
\* number of processes, descriptors and files, and any sizes of the pipe and of uint.
THEOREM PipeInvariant == Spec => []PipeInv
<1>1. PipeInv /\ [Next]_vars => PipeInv'
  <2> SUFFICES ASSUME PipeInv, [Next]_vars PROVE PipeInv'
    OBVIOUS
  <2> QED
    BY TypeStep, PhaseStep, LockStep, KindStep, RefsStep, EndStep, UsedStep, SleepStep,
       ReasonStep DEF PipeInv
<1>2. QED
  BY InitInv, <1>1, PTL DEF Spec

\* f->ref counts exactly the descriptors of the file and the processes that have it in hand,
\* also where pipealloc() or sys_pipe() fails half-way.
THEOREM FileCountsAreExact == Spec => []FileRefsExact
<1>1. PipeInv => FileRefsExact
  BY DEF PipeInv
<1>2. QED
  BY <1>1, PipeInvariant, PTL

\* The page of a pipe is not freed, and its end not closed, under a process that has a
\* descriptor of it or sleeps in it: the count reaches zero only at the last close.  And
\* an open end always has somebody who will close it.
THEOREM PageIsNotUsedAfterFree == Spec => []NoUseAfterFree
<1>1. PipeInv => NoUseAfterFree
  <2>0. ASSUME PipeInv, NEW e \in End, open[e]
        PROVE  (\E f \in File : ref[f] # 0 /\ kind[f] = e) \/ (\E p \in Proc : ff[p] = e)
    BY <2>0, Names DEF PipeInv, EndInv, KindInv
  <2> SUFFICES ASSUME PipeInv, NEW p \in Proc
               PROVE  /\ \A d \in Fd : ofile[p][d] # None => kind[ofile[p][d]] # None
                      /\ \A e \in End : Has(p, e) => alive /\ open[e]
                      /\ ff[p] # None => alive /\ open[ff[p]]
                      /\ pc[p] \in Reading => Has(p, "r")
                      /\ pc[p] \in Writing => Has(p, "w")
    BY <2>0 DEF NoUseAfterFree, Reading, Writing
  <2>1. ASSUME NEW e \in End, Has(p, e) PROVE alive /\ open[e]
    <3>1. PICK d \in Fd : ofile[p][d] # None /\ kind[ofile[p][d]] = e
      BY <2>1 DEF Has
    <3>2. ofile[p][d] \in File
      BY <3>1 DEF PipeInv, TypeOK
    <3>3. QED
      BY <3>1, <3>2 DEF PipeInv, EndInv
  <2>2. ASSUME ff[p] # None PROVE alive /\ open[ff[p]]
    <3>1. ff[p] \in End
      BY <2>2 DEF PipeInv, TypeOK
    <3>2. QED
      BY <3>1 DEF PipeInv, EndInv
  <2>3. QED
    BY <2>1, <2>2 DEF PipeInv, PhaseInv, KindInv
<1>2. QED
  BY <1>1, PipeInvariant, PTL

\* A reader sleeps only while the pipe is empty and may be written, a writer only while it
\* is full and may be read, or their wakeup is under way.
THEOREM SleepersHaveAReason == Spec => []SleepsForAReason
<1>1. PipeInv => SleepsForAReason
  BY DEF PipeInv
<1>2. QED
  BY <1>1, PipeInvariant, PTL

-----------------------------------------------------------------------------
(* A pipe implements a queue.                                               *)

\* The pipe is a ring: its size divides the range of the indices.
LEMMA PipeRing == IsRing(PIPESIZE, UintMod)
BY Sizes

\* The bytes in the pipe, as the contents of a ring.
LEMMA QueueIs ==
    /\ Queue = Contents(data, nread, Used, PIPESIZE)
    /\ Queue' = Contents(data', nread', Used', PIPESIZE)
BY DEF Queue, Contents

\* pipealloc() and the last pipeclose() leave an empty pipe.
LEMMA EmptyPipe == ASSUME nread' = 0, nwrite' = 0 PROVE Queue' = <<>>
<1>1. 0 \in Index
  BY Sizes DEF Index
<1>2. Minus(nwrite', nread') = 0
  BY <1>1, MinusDist
<1>3. Used' = 0
  BY <1>2 DEF Used, Minus
<1>4. QED
  BY <1>3 DEF Queue

\* A turn of pipewrite()'s loop appends a byte.
LEMMA WritePutSimulates ==
    ASSUME TypeOK, UsedInv, NEW p \in Proc, NEW c \in Byte, WritePut(p, c)
    PROVE  Abstract!FPut(c)
<1> DEFINE d == Used
<1>1. /\ ~Full /\ nread' = nread /\ nwrite' = Plus(nwrite, 1) /\ ch' = ch
      /\ data' = Stored(data, nwrite % PIPESIZE, c)
  BY DEF WritePut, Plus, Stored
<1>2. d = Minus(nwrite, nread) /\ d \in Nat /\ d # PIPESIZE /\ d <= PIPESIZE
  BY <1>1, TestsAre DEF UsedInv
<1>3. nread \in Index /\ nwrite \in Index /\ DOMAIN data = 0..(PIPESIZE - 1)
  BY DEF TypeOK
<1> HIDE DEF d
<1>4. d < PIPESIZE /\ d \in 0..(PIPESIZE - 1) /\ nread \in Nat
  BY <1>2, <1>3, Sizes DEF Index
<1>5. Used' = d + 1
  <2>1. Minus(nwrite', nread') = d + 1
    BY <1>1, <1>2, <1>3, <1>4, MinusPut
  <2>2. QED
    BY <2>1 DEF Used, Minus
<1>6. nwrite = (nread + d) % UintMod
  <2>1. nwrite = Plus(nread, d)
    BY <1>2, <1>3, MinusDist
  <2>2. QED
    BY <2>1 DEF Plus
<1>7. Contents(Stored(data, nwrite % PIPESIZE, c), nread, d + 1, PIPESIZE)
        = Append(Contents(data, nread, d, PIPESIZE), c)
  BY <1>3, <1>4, <1>6, ContentsPut, PipeRing
<1>8. Queue' = Append(Queue, c)
  BY <1>1, <1>5, <1>7, QueueIs DEF d
<1>9. Len(Queue) = d
  BY <1>2, QueueIs DEF Contents, d
<1>10. QED
  BY <1>1, <1>4, <1>8, <1>9 DEF Abstract!FPut

\* A turn of piperead()'s loop takes the oldest byte.
LEMMA ReadByteSimulates ==
    ASSUME TypeOK, UsedInv, NEW p \in Proc, NEW fault \in BOOLEAN, ReadByte(p, fault)
    PROVE  Abstract!FGet
<1> DEFINE d == Used
<1>1. /\ nread # nwrite /\ nread' = Plus(nread, 1) /\ nwrite' = nwrite
      /\ ch' = data[nread % PIPESIZE] /\ data' = Stored(data, nread % PIPESIZE, None)
  BY DEF ReadByte, Plus, Stored, Empty
<1>2. d = Minus(nwrite, nread) /\ d \in Nat /\ d # 0 /\ d <= PIPESIZE
  BY <1>1, TestsAre DEF UsedInv, Empty
<1>3. nread \in Index /\ nwrite \in Index /\ DOMAIN data = 0..(PIPESIZE - 1)
  BY DEF TypeOK
<1> HIDE DEF d
<1>4. d \in 1..PIPESIZE /\ nread \in Nat
  BY <1>2, <1>3, Sizes DEF Index
<1>5. Used' = d - 1
  <2>1. Minus(nwrite', nread') = d - 1
    BY <1>1, <1>2, <1>3, MinusGet
  <2>2. QED
    BY <2>1 DEF Used, Minus
<1>6. nread' = (nread + 1) % UintMod
  BY <1>1 DEF Plus
<1>7. /\ Contents(data, nread, d, PIPESIZE) # <<>>
      /\ Head(Contents(data, nread, d, PIPESIZE)) = data[nread % PIPESIZE]
      /\ Contents(Stored(data, nread % PIPESIZE, None), (nread + 1) % UintMod, d - 1, PIPESIZE)
           = Tail(Contents(data, nread, d, PIPESIZE))
  <2>1. Contents(data, nread, d, PIPESIZE) # <<>>
    BY <1>3, <1>4, ContentsHead, PipeRing
  <2>2. Head(Contents(data, nread, d, PIPESIZE)) = data[nread % PIPESIZE]
    BY <1>3, <1>4, ContentsHead, PipeRing
  <2>3. Contents(Stored(data, nread % PIPESIZE, None), (nread + 1) % UintMod, d - 1, PIPESIZE)
          = Tail(Contents(data, nread, d, PIPESIZE))
    BY <1>3, <1>4, ContentsHead, PipeRing
  <2>4. QED
    BY <2>1, <2>2, <2>3
<1>8. Queue' = Tail(Queue) /\ Queue # <<>> /\ ch' = Head(Queue)
  BY <1>1, <1>5, <1>6, <1>7, QueueIs DEF d
<1>9. QED
  BY <1>8 DEF Abstract!FGet

\* Bytes leave a pipe once and in the order of writing, however its users sleep, wake,
\* are killed and go, and however the indices wrap.
THEOREM PipeImplementsFifo == Spec => ImplementsFifo
<1>1. Init => Abstract!FInit
  <2> SUFFICES ASSUME Init PROVE Abstract!FInit
    OBVIOUS
  <2>1. 0 \in Index
    BY Sizes DEF Index
  <2>2. Minus(0, 0) = 0
    BY <2>1, MinusDist
  <2>3. Queue = <<>>
    BY <2>2 DEF Init, Queue, Used, Minus
  <2>4. QED
    BY <2>3 DEF Init, Abstract!FInit
<1>2. PipeInv /\ [Next]_vars => [Abstract!FNext]_(Abstract!fvars)
  <2> SUFFICES ASSUME PipeInv, [Next]_vars PROVE [Abstract!FNext]_(Abstract!fvars)
    OBVIOUS
  <2>1. ASSUME NEW p \in Proc, NEW c \in Byte, WritePut(p, c) PROVE Abstract!FNext
    BY <2>1, WritePutSimulates DEF PipeInv, Abstract!FNext, Abstract!FStep
  <2>2. ASSUME NEW p \in Proc, NEW fault \in BOOLEAN, ReadByte(p, fault) PROVE Abstract!FNext
    BY <2>2, ReadByteSimulates DEF PipeInv, Abstract!FNext, Abstract!FStep
  <2>3. ASSUME nread' = 0, nwrite' = 0, ch' = ch PROVE Abstract!FNext
    BY <2>3, EmptyPipe DEF Abstract!FNext, Abstract!FClose
  <2>4. CASE UNCHANGED <<data, nread, nwrite, ch>>
    BY <2>4 DEF Abstract!fvars, Queue, Used
  <2>5. ASSUME NEW p \in Proc, PipeClose(p) PROVE [Abstract!FNext]_(Abstract!fvars)
    BY <2>3, <2>4, <2>5 DEF PipeClose
  <2>6. ASSUME NEW p \in Proc, PipeDone(p) \/ PipeUndone(p) PROVE Abstract!FNext
    BY <2>3, <2>6 DEF PipeDone, PipeUndone, PipeAlloc
  <2>7. QED
    BY <2>1, <2>2, <2>4, <2>5, <2>6, RingSteps
<1>3. QED
  BY <1>1, <1>2, PipeInvariant, PTL DEF Spec, ImplementsFifo, Abstract!FSpec
=============================================================================
