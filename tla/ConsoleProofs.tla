--------------------------- MODULE ConsoleProofs ----------------------------
(***************************************************************************)
(* Proofs about Console, for any number of readers and writers, any sizes  *)
(* of the two rings and any input: who sleeps does so for a reason, the    *)
(* UART is not overrun, buffered output moves, and the two rings implement *)
(* a queue and a line editor.                                              *)
(***************************************************************************)
EXTENDS Console, SequenceTheorems, WellFoundedInduction, TLAPS

-----------------------------------------------------------------------------
(* Division.                                                                *)

\* What % and \div compute.
LEMMA DivMod ==
    ASSUME NEW x \in Int, NEW S \in Nat \ {0}
    PROVE  x % S \in 0..(S - 1) /\ x \div S \in Int /\ x = S * (x \div S) + (x % S)
BY Z3

\* They are determined by it.
LEMMA ModUnique ==
    ASSUME NEW S \in Nat \ {0}, NEW q \in Int, NEW m \in 0..(S - 1), NEW x \in Int,
           x = S * q + m
    PROVE  x % S = m
BY Z3

\* An index that has not wrapped.
LEMMA ModSmall == ASSUME NEW S \in Nat \ {0}, NEW x \in 0..(S - 1) PROVE x % S = x
BY Z3

\* One that has wrapped once.
LEMMA ModWrapped == ASSUME NEW S \in Nat \ {0}, NEW x \in S..(2 * S - 1) PROVE x % S = x - S
BY Z3

\* A full turn leads to the same place.
LEMMA ModTurns ==
    ASSUME NEW S \in Nat \ {0}, NEW x \in Int, NEW k \in Int
    PROVE  (x + S * k) % S = x % S
<1> DEFINE q == x \div S
           m == x % S
<1>1. q \in Int /\ m \in 0..(S - 1) /\ x = S * q + m
  BY DivMod
<1> HIDE DEF q, m
<1>2. q + k \in Int /\ x + S * k \in Int /\ x + S * k = S * (q + k) + m
  BY <1>1, Z3
<1>3. (x + S * k) % S = m
  BY <1>1, <1>2, ModUnique
<1>4. QED
  BY <1>3 DEF m

\* Places less than a turn apart are distinct.
LEMMA ModDistinct ==
    ASSUME NEW S \in Nat \ {0}, NEW x \in Int, NEW y \in Int, x < y, y < x + S
    PROVE  x % S # y % S
<1> DEFINE q == x \div S
           k == y \div S
           m == x % S
<1>1. q \in Int /\ k \in Int /\ m \in 0..(S - 1) /\ x = S * q + m
  BY DivMod
<1>2. SUFFICES ASSUME m = y % S PROVE FALSE
  OBVIOUS
<1>3. y = S * k + m
  BY <1>2, DivMod
<1> HIDE DEF q, k, m
<1>4. S * (k - q) = y - x /\ k - q \in Int
  BY <1>1, <1>3, Z3
<1>5. ASSUME NEW t \in Int, S * t = y - x PROVE FALSE
  <2>1. CASE t <= 0
    BY <1>5, <2>1, Z3
  <2>2. CASE t >= 1
    BY <1>5, <2>2, Z3
  <2>3. QED
    BY <2>1, <2>2
<1>6. QED
  BY <1>4, <1>5

Divides(S, M) == M % S = 0

\* The place of an index does not depend on whether the index has wrapped.
LEMMA ModMod ==
    ASSUME NEW S \in Nat \ {0}, NEW M \in Nat \ {0}, Divides(S, M), NEW x \in Int, NEW y \in Int
    PROVE  ((x % M) + y) % S = (x + y) % S
<1> DEFINE q == x \div M
           m == x % M
           k == M \div S
<1>1. q \in Int /\ m \in Int /\ x = M * q + m
  <2>1. q \in Int /\ m \in 0..(M - 1) /\ x = M * q + m
    BY DivMod, Zenon
  <2>2. QED
    BY <2>1
<1>2. k \in Int /\ M = S * k
  BY DivMod DEF Divides
<1> HIDE DEF q, m, k
<1>3. k * q \in Int /\ m + y \in Int /\ x + y = (m + y) + S * (k * q)
  BY <1>1, <1>2, Z3
<1>4. (m + y) % S = (x + y) % S
  BY <1>3, ModTurns, ZenonT(40)
<1>5. QED
  BY <1>4 DEF m

\* A set of numbers has a least element.
LEMMA HasLeast ==
    ASSUME NEW T, T \subseteq Nat, T # {}
    PROVE  \E i \in T : \A j \in T : i <= j
<1>1. PICK i \in T : \A j \in T : <<j, i>> \notin OpToRel(<, Nat)
  BY NatLessThanWellFounded, WFMin, Zenon
<1>2. \A j \in T : ~(j < i)
  BY <1>1, Zenon DEF OpToRel
<1>3. QED
  BY <1>2

-----------------------------------------------------------------------------
(* Parts of sequences.                                                      *)

\* A part of a part is a part, also when it is empty.
LEMMA SubSeqTwice ==
    ASSUME NEW V, NEW s \in Seq(V), NEW i \in Nat, NEW j \in Nat, i >= 1, j <= Len(s),
           NEW a \in Nat, NEW b \in Int, a >= 1, b <= j - i + 1
    PROVE  SubSeq(SubSeq(s, i, j), a, b) = SubSeq(s, i + a - 1, i + b - 1)
<1> DEFINE t == SubSeq(s, i, j)
           u == SubSeq(t, a, b)
           v == SubSeq(s, i + a - 1, i + b - 1)
<1>1. \A x \in i..j : s[x] \in V
  BY ElementOfSeq
<1>2. t \in Seq(V) /\ Len(t) = (IF i <= j THEN j - i + 1 ELSE 0)
      /\ \A x \in 1..(j - i + 1) : t[x] = s[i + x - 1]
  BY <1>1, SubSeqProperties
<1> HIDE DEF t
<1>3. \A x \in a..b : t[x] \in V
  BY <1>1, <1>2
<1>4. u \in Seq(V) /\ Len(u) = (IF a <= b THEN b - a + 1 ELSE 0)
      /\ \A x \in 1..(b - a + 1) : u[x] = t[a + x - 1]
  BY <1>3, SubSeqProperties
<1>5. \A x \in (i + a - 1)..(i + b - 1) : s[x] \in V
  BY <1>1
<1>6. v \in Seq(V) /\ Len(v) = (IF a <= b THEN b - a + 1 ELSE 0)
      /\ \A x \in 1..(b - a + 1) : v[x] = s[i + a - 1 + x - 1]
  <2>1. i + a - 1 \in Int /\ i + b - 1 \in Int
    OBVIOUS
  <2>2. v \in Seq(V)
        /\ Len(v) = (IF i + a - 1 <= i + b - 1 THEN (i + b - 1) - (i + a - 1) + 1 ELSE 0)
        /\ \A x \in 1..((i + b - 1) - (i + a - 1) + 1) : v[x] = s[i + a - 1 + x - 1]
    BY <1>5, <2>1, SubSeqProperties
  <2> HIDE DEF v
  <2>3. QED
    BY <2>2
<1> HIDE DEF u, v
<1>7. \A x \in 1..Len(u) : u[x] = v[x]
  <2> SUFFICES ASSUME NEW x \in 1..Len(u) PROVE u[x] = v[x]
    OBVIOUS
  <2>1. x \in 1..(b - a + 1) /\ a + x - 1 \in 1..(j - i + 1)
    BY <1>4
  <2>2. u[x] = s[i + (a + x - 1) - 1] /\ v[x] = s[i + a - 1 + x - 1]
    BY <1>2, <1>4, <1>6, <2>1
  <2>3. QED
    BY <2>2
<1>8. u = v
  BY <1>4, <1>6, <1>7, SeqEqual
<1>9. QED
  BY <1>8 DEF u, v, t

\* Appending to a sequence appends to its last part.
LEMMA SubSeqAppend ==
    ASSUME NEW V, NEW s \in Seq(V), NEW c \in V, NEW m \in 0..Len(s)
    PROVE  /\ SubSeq(Append(s, c), 1, m) = SubSeq(s, 1, m)
           /\ SubSeq(Append(s, c), m + 1, Len(s) + 1) = Append(SubSeq(s, m + 1, Len(s)), c)
           /\ SubSeq(s, 1, m) \o Append(SubSeq(s, m + 1, Len(s)), c) = Append(s, c)
<1> DEFINE d == Len(s)
           t == Append(s, c)
           a == SubSeq(s, 1, m)
           b == SubSeq(s, m + 1, d)
<1>1. d \in Nat /\ \A x \in 1..d : s[x] \in V
  BY ElementOfSeq, LenProperties
<1>2. /\ t \in Seq(V) /\ Len(t) = d + 1
      /\ \A x \in 1..d : t[x] = s[x]
      /\ t[d + 1] = c
  BY AppendProperties
<1> HIDE DEF t
<1>3. /\ a \in Seq(V) /\ Len(a) = m /\ \A x \in 1..m : a[x] = s[x]
  <2>1. \A x \in 1..m : s[x] \in V
    BY <1>1
  <2>2. /\ a \in Seq(V) /\ Len(a) = (IF 1 <= m THEN m - 1 + 1 ELSE 0)
        /\ \A x \in 1..(m - 1 + 1) : a[x] = s[1 + x - 1]
    BY <1>1, <2>1, SubSeqProperties
  <2> HIDE DEF a
  <2>3. QED
    BY <1>1, <2>2
<1>4. b \in Seq(V) /\ Len(b) = d - m /\ \A x \in 1..(d - m) : b[x] = s[m + x]
  <2>1. \A x \in (m + 1)..d : s[x] \in V
    BY <1>1
  <2>2. /\ b \in Seq(V) /\ Len(b) = (IF m + 1 <= d THEN d - (m + 1) + 1 ELSE 0)
        /\ \A x \in 1..(d - (m + 1) + 1) : b[x] = s[m + 1 + x - 1]
    BY <1>1, <2>1, SubSeqProperties
  <2> HIDE DEF b
  <2>3. QED
    BY <1>1, <2>2
<1> HIDE DEF a, b
<1>5. /\ Append(b, c) \in Seq(V) /\ Len(Append(b, c)) = d - m + 1
      /\ \A x \in 1..(d - m) : Append(b, c)[x] = s[m + x]
      /\ Append(b, c)[d - m + 1] = c
  BY <1>4, AppendProperties
<1>6. SubSeq(t, 1, m) = a
  <2> DEFINE u == SubSeq(t, 1, m)
  <2>1. \A x \in 1..m : t[x] \in V
    BY <1>1, <1>2
  <2>2. /\ u \in Seq(V) /\ Len(u) = (IF 1 <= m THEN m - 1 + 1 ELSE 0)
        /\ \A x \in 1..(m - 1 + 1) : u[x] = t[1 + x - 1]
    BY <1>1, <2>1, SubSeqProperties
  <2> HIDE DEF u
  <2>3. Len(u) = m
    BY <1>1, <2>2
  <2>4. ASSUME NEW x \in 1..m PROVE u[x] = a[x]
    <3>1. x \in 1..(m - 1 + 1) /\ 1 + x - 1 = x /\ x \in 1..d
      BY <1>1
    <3>2. QED
      BY <1>2, <1>3, <2>2, <3>1
  <2>5. u = a
    BY <1>3, <2>2, <2>3, <2>4, SeqEqual
  <2>6. QED
    BY <2>5 DEF u
<1>7. SubSeq(t, m + 1, d + 1) = Append(b, c)
  <2> DEFINE u == SubSeq(t, m + 1, d + 1)
  <2>1. \A x \in (m + 1)..(d + 1) : t[x] \in V
    BY <1>1, <1>2
  <2>2. /\ u \in Seq(V) /\ Len(u) = (IF m + 1 <= d + 1 THEN (d + 1) - (m + 1) + 1 ELSE 0)
        /\ \A x \in 1..((d + 1) - (m + 1) + 1) : u[x] = t[m + 1 + x - 1]
    BY <1>1, <2>1, SubSeqProperties
  <2> HIDE DEF u
  <2>3. Len(u) = d - m + 1
    BY <1>1, <2>2
  <2>4. ASSUME NEW x \in 1..(d - m + 1) PROVE u[x] = Append(b, c)[x]
    <3>1. x \in 1..((d + 1) - (m + 1) + 1) /\ m + 1 + x - 1 = m + x
      BY <1>1
    <3>2. u[x] = t[m + x]
      BY <2>2, <3>1
    <3>3. CASE x <= d - m
      <4>1. x \in 1..(d - m) /\ m + x \in 1..d
        BY <1>1, <3>3
      <4>2. QED
        BY <1>2, <1>5, <3>2, <4>1
    <3>4. CASE x = d - m + 1
      <4>1. m + x = d + 1
        BY <1>1, <3>4
      <4>2. QED
        BY <1>2, <1>5, <3>2, <3>4, <4>1
    <3>5. x <= d - m \/ x = d - m + 1
      BY <1>1
    <3>6. QED
      BY <3>3, <3>4, <3>5
  <2>5. u = Append(b, c)
    BY <1>5, <2>2, <2>3, <2>4, SeqEqual
  <2>6. QED
    BY <2>5 DEF u
<1>8. a \o Append(b, c) = t
  <2> DEFINE p == Append(b, c)
             u == a \o p
  <2> HIDE DEF p
  <2>1. /\ p \in Seq(V) /\ Len(p) = d - m + 1 /\ p[d - m + 1] = c
        /\ \A x \in 1..(d - m) : p[x] = s[m + x]
    BY <1>5 DEF p
  <2>2. /\ u \in Seq(V) /\ Len(u) = d + 1
        /\ \A x \in 1..(d + 1) : u[x] = IF x <= m THEN a[x] ELSE p[x - m]
    BY <1>1, <1>3, <2>1, ConcatProperties
  <2> HIDE DEF u
  <2>3. ASSUME NEW x \in 1..(d + 1) PROVE u[x] = t[x]
    <3>1. CASE x <= m
      <4>1. x \in 1..m /\ x \in 1..d
        BY <1>1, <3>1
      <4>2. QED
        BY <1>2, <1>3, <2>2, <3>1, <4>1
    <3>2. CASE x > m /\ x <= d
      <4>1. x - m \in 1..(d - m) /\ m + (x - m) = x /\ x \in 1..d /\ ~(x <= m)
        BY <1>1, <3>2
      <4>2. QED
        BY <1>2, <2>1, <2>2, <4>1
    <3>3. CASE x = d + 1
      <4>1. x - m = d - m + 1 /\ ~(x <= m)
        BY <1>1, <3>3
      <4>2. QED
        BY <1>2, <2>1, <2>2, <3>3, <4>1
    <3>4. QED
      BY <1>1, <3>1, <3>2, <3>3
  <2>4. u = t
    BY <1>2, <2>2, <2>3, SeqEqual
  <2>5. QED
    BY <2>4 DEF u, p
<1>9. QED
  BY <1>6, <1>7, <1>8 DEF t, a, b

-----------------------------------------------------------------------------
(* Indices without %: the index k places on, and the places from rp to wp.  *)

Ahead(rp, k, M) == IF rp + k < M THEN rp + k ELSE rp + k - M
Dist(rp, wp, M) == IF rp <= wp THEN wp - rp ELSE wp + M - rp

\* The sum of an index and an offset, as the code computes it.
LEMMA ModAhead ==
    ASSUME NEW M \in Nat \ {0}, NEW rp \in 0..(M - 1), NEW k \in 0..M
    PROVE  (rp + k) % M = Ahead(rp, k, M)
<1>1. CASE rp + k < M
  BY <1>1, ModSmall DEF Ahead
<1>2. CASE rp + k >= M
  <2>1. rp + k \in M..(2 * M - 1)
    BY <1>2
  <2>2. (rp + k) % M = (rp + k) - M
    BY <2>1, ModWrapped, Zenon
  <2>3. QED
    BY <1>2, <2>2 DEF Ahead
<1>3. QED
  BY <1>1, <1>2

\* With or without adding M first: C's unsigned subtraction.
LEMMA ModDist ==
    ASSUME NEW M \in Nat \ {0}, NEW rp \in 0..(M - 1), NEW wp \in 0..(M - 1)
    PROVE  (wp + M - rp) % M = Dist(rp, wp, M) /\ (wp - rp) % M = Dist(rp, wp, M)
<1>1. CASE rp <= wp
  <2>1. wp + M - rp \in M..(2 * M - 1) /\ wp - rp \in 0..(M - 1)
    BY <1>1
  <2>2. (wp + M - rp) % M = (wp + M - rp) - M /\ (wp - rp) % M = wp - rp
    BY <2>1, ModWrapped, ModSmall
  <2>3. QED
    BY <1>1, <2>2 DEF Dist
<1>2. CASE wp < rp
  <2>1. wp - rp = M * (-1) + (wp + M - rp) /\ wp + M - rp \in 0..(M - 1)
    BY <1>2
  <2>2. (wp + M - rp) % M = wp + M - rp /\ (wp - rp) % M = wp + M - rp
    BY <2>1, ModUnique, ModSmall
  <2>3. QED
    BY <1>2, <2>2 DEF Dist
<1>3. QED
  BY <1>1, <1>2

\* They are inverse to each other.
LEMMA AheadDist ==
    ASSUME NEW M \in Nat \ {0}, NEW rp \in 0..(M - 1), NEW wp \in 0..(M - 1)
    PROVE  /\ Dist(rp, wp, M) \in 0..(M - 1) /\ Ahead(rp, Dist(rp, wp, M), M) = wp
           /\ Dist(rp, wp, M) = 0 <=> rp = wp
           /\ \A k \in 0..(M - 1) : Dist(rp, Ahead(rp, k, M), M) = k
BY DEF Ahead, Dist

\* One place on at the writing end.
LEMMA DistPut ==
    ASSUME NEW M \in Nat \ {0}, NEW rp \in 0..(M - 1), NEW wp \in 0..(M - 1),
           Dist(rp, wp, M) + 1 < M
    PROVE  Dist(rp, Ahead(wp, 1, M), M) = Dist(rp, wp, M) + 1
BY DEF Ahead, Dist

\* One place back at the writing end.
LEMMA DistErase ==
    ASSUME NEW M \in Nat \ {0}, M > 1, NEW rp \in 0..(M - 1), NEW wp \in 0..(M - 1), rp # wp
    PROVE  Dist(rp, Dist(1, wp, M), M) = Dist(rp, wp, M) - 1
BY DEF Dist

\* k places on at the reading end.
LEMMA DistGet ==
    ASSUME NEW M \in Nat \ {0}, NEW rp \in 0..(M - 1), NEW wp \in 0..(M - 1),
           NEW k \in 0..Dist(rp, wp, M)
    PROVE  Dist(Ahead(rp, k, M), wp, M) = Dist(rp, wp, M) - k
BY DEF Ahead, Dist

-----------------------------------------------------------------------------
(* The bytes in a ring, oldest first.                                       *)

IsRing(S, M) == S \in Nat \ {0} /\ M \in Nat \ {0} /\ Divides(S, M)
Contents(b, rp, d, S) == [i \in 1..d |-> b[(rp + i - 1) % S]]
Stored(b, i, c) == [b EXCEPT ![i] = c]

\* Writing at the write index appends, as long as there is room.
LEMMA ContentsPut ==
    ASSUME NEW S, NEW M, IsRing(S, M),
           NEW rp \in Nat, NEW d \in 0..(S - 1), NEW wp, wp = (rp + d) % M,
           NEW b, DOMAIN b = 0..(S - 1), NEW c
    PROVE  Contents(Stored(b, wp % S, c), rp, d + 1, S) = Append(Contents(b, rp, d, S), c)
<1>0. S \in Nat \ {0} /\ M \in Nat \ {0} /\ Divides(S, M)
  BY DEF IsRing
<1> USE <1>0
<1> DEFINE bb == [b EXCEPT ![wp % S] = c]
           V  == {b[i] : i \in 0..(S - 1)} \cup {c}
<1>1. wp % S = (rp + d) % S
  <2>1. wp \in Int
    BY DivMod
  <2> DEFINE x == rp + d
             y == 0
  <2>2. x \in Int /\ y \in Int
    OBVIOUS
  <2> HIDE DEF x, y
  <2>3. ((x % M) + y) % S = (x + y) % S
    BY <2>2, ModMod
  <2>4. x % M = wp
    BY DEF x
  <2>5. QED
    BY <2>1, <2>2, <2>3, <2>4 DEF x, y
<1>2. wp % S \in 0..(S - 1)
  <2>1. rp + d \in Int
    OBVIOUS
  <2>2. QED
    BY <2>1, <1>1, DivMod, Zenon
<1>3. ASSUME NEW i \in 1..d PROVE bb[(rp + i - 1) % S] = b[(rp + i - 1) % S]
  <2>1. (rp + i - 1) % S # (rp + d) % S
    <3>1. rp + i - 1 \in Int /\ rp + d \in Int /\ rp + i - 1 < rp + d /\ rp + d < (rp + i - 1) + S
      OBVIOUS
    <3>2. QED
      BY <3>1, ModDistinct, Zenon
  <2>2. (rp + i - 1) % S \in 0..(S - 1)
    <3>1. rp + i - 1 \in Int 
      OBVIOUS
    <3>2. QED
      BY <3>1, DivMod, Zenon
  <2>3. QED
    BY <1>1, <2>1, <2>2
<1>4. bb[(rp + (d + 1) - 1) % S] = c
  <2>1. rp + (d + 1) - 1 = rp + d
    OBVIOUS
  <2>2. QED
    BY <1>1, <1>2, <2>1
<1>5. ASSUME NEW i \in 1..d PROVE b[(rp + i - 1) % S] \in V
  <2>1. rp + i - 1 \in Int
    OBVIOUS
  <2>2. (rp + i - 1) % S \in 0..(S - 1)
    BY <2>1, DivMod, Zenon
  <2>3. QED
    BY <2>2
<1> DEFINE s == Contents(b, rp, d, S)
           t == Contents(bb, rp, d + 1, S)
<1> HIDE DEF bb
<1>6. s \in [1..d -> V]
  BY <1>5 DEF Contents
<1>7. \A i \in 1..d : t[i] = s[i]
  BY <1>3 DEF Contents
<1>8. t[d + 1] = c
  BY <1>4 DEF Contents
<1>9. t = [i \in 1..(d + 1) |-> t[i]]
  BY DEF Contents
<1> HIDE DEF s, t
<1>10. s \in Seq(V) /\ Len(s) = d /\ c \in V
  BY <1>6
<1>11. t \in Seq(V) /\ Len(t) = d + 1
  <2>1. \A i \in 1..(d + 1) : t[i] \in V
    BY <1>6, <1>7, <1>8, <1>10
  <2>2. t \in [1..(d + 1) -> V]
    BY <1>9, <2>1
  <2> HIDE DEF V
  <2>3. QED
    BY <2>2
<1> HIDE DEF V
<1>12. /\ Append(s, c) \in Seq(V) /\ Len(Append(s, c)) = d + 1
       /\ \A i \in 1..d : Append(s, c)[i] = s[i]
       /\ Append(s, c)[d + 1] = c
  BY <1>10, AppendProperties
<1>13. \A i \in 1..(d + 1) : t[i] = Append(s, c)[i]
  BY <1>7, <1>8, <1>12
<1>14. t = Append(s, c)
  BY <1>11, <1>12, <1>13, SeqEqual
<1>15. QED
  BY <1>14 DEF s, t, bb, Stored

\* Two rings have the same bytes from the k-th place to the d-th.
Agree(b, bb, rp, k, d, S) == \A i \in k..d : bb[(rp + i - 1) % S] = b[(rp + i - 1) % S]

\* Reading k bytes leaves the rest, whatever becomes of their places.
LEMMA ContentsGet ==
    ASSUME NEW S, NEW M, IsRing(S, M),
           NEW rp \in Nat, NEW d \in 0..S, NEW k \in 0..d,
           NEW b, NEW bb, Agree(b, bb, rp, k + 1, d, S)
    PROVE  Contents(bb, (rp + k) % M, d - k, S) = SubSeq(Contents(b, rp, d, S), k + 1, d)
<1>0. S \in Nat \ {0} /\ M \in Nat \ {0} /\ Divides(S, M)
  BY DEF IsRing
<1> USE <1>0
<1> DEFINE s == Contents(b, rp, d, S)
           t == Contents(bb, (rp + k) % M, d - k, S)
           V == {b[i] : i \in 0..(S - 1)}
<1>1. ASSUME NEW i \in 1..d PROVE b[(rp + i - 1) % S] \in V
  <2>1. rp + i - 1 \in Int
    OBVIOUS
  <2>2. (rp + i - 1) % S \in 0..(S - 1)
    BY <2>1, DivMod, Zenon
  <2>3. QED
    BY <2>2
<1>2. s \in [1..d -> V]
  BY <1>1 DEF Contents
<1>3. t = [i \in 1..(d - k) |-> t[i]]
  BY DEF Contents
<1>4. ASSUME NEW i \in 1..(d - k) PROVE t[i] = s[i + k]
  <2>1. rp + k \in Int /\ i - 1 \in Int
    OBVIOUS
  <2>2. (((rp + k) % M) + (i - 1)) % S = ((rp + k) + (i - 1)) % S
    <3> DEFINE x == rp + k
               y == i - 1
    <3>1. x \in Int /\ y \in Int
      OBVIOUS
    <3> HIDE DEF x, y
    <3>2. ((x % M) + y) % S = (x + y) % S
      BY <3>1, ModMod
    <3>3. QED
      BY <3>2 DEF x, y
  <2>3. (rp + k) % M \in Int
    <3>1. (rp + k) % M \in 0..(M - 1)
      BY <2>1, DivMod, Zenon
    <3>2. QED
      BY <3>1
  <2>4. /\ ((rp + k) % M) + (i - 1) = ((rp + k) % M) + i - 1
        /\ (rp + k) + (i - 1) = rp + (i + k) - 1
    BY <2>3
  <2>5. t[i] = bb[(rp + (i + k) - 1) % S]
    BY <2>2, <2>4 DEF Contents
  <2>6. i + k \in (k + 1)..d /\ i + k \in 1..d
    OBVIOUS
  <2>7. s[i + k] = b[(rp + (i + k) - 1) % S]
    BY <2>6 DEF Contents
  <2>8. QED
    BY <2>5, <2>6, <2>7 DEF Agree
<1> HIDE DEF s, t
<1>5. s \in Seq(V) /\ Len(s) = d
  BY <1>2
<1>6. SubSeq(s, k + 1, d) = [i \in 1..(d - k) |-> s[i + k]]
  BY <1>5
<1>7. QED
  BY <1>3, <1>4, <1>6 DEF s, t

\* Reading one byte: the first, whose place may be used again.
LEMMA ContentsHead ==
    ASSUME NEW S, NEW M, IsRing(S, M),
           NEW rp \in Nat, NEW d \in 1..S,
           NEW b, DOMAIN b = 0..(S - 1), NEW c
    PROVE  /\ Contents(b, rp, d, S) # <<>>
           /\ Head(Contents(b, rp, d, S)) = b[rp % S]
           /\ Contents(Stored(b, rp % S, c), (rp + 1) % M, d - 1, S)
                = Tail(Contents(b, rp, d, S))
<1>0. S \in Nat \ {0} /\ M \in Nat \ {0} /\ Divides(S, M)
  BY DEF IsRing
<1> USE <1>0
<1> DEFINE s == Contents(b, rp, d, S)
           bb == [b EXCEPT ![rp % S] = c]
           V == {b[i] : i \in 0..(S - 1)}
<1>1. ASSUME NEW i \in 1..d PROVE (rp + i - 1) % S \in 0..(S - 1)
  <2>1. rp + i - 1 \in Int
    OBVIOUS
  <2>2. QED
    BY <2>1, DivMod, Zenon
<1>2. s \in [1..d -> V]
  BY <1>1 DEF Contents
<1>3. s[1] = b[rp % S]
  <2>1. rp + 1 - 1 = rp
    OBVIOUS
  <2>2. QED
    BY <2>1 DEF Contents
<1>4. ASSUME NEW i \in 2..d PROVE bb[(rp + i - 1) % S] = b[(rp + i - 1) % S]
  <2>1. rp \in Int /\ rp + i - 1 \in Int /\ rp < rp + i - 1 /\ rp + i - 1 < rp + S
    OBVIOUS
  <2>2. rp % S # (rp + i - 1) % S
    BY <2>1, ModDistinct, Zenon
  <2>3. QED
    BY <1>1, <2>2
<1> HIDE DEF bb
<1>5. Contents(bb, (rp + 1) % M, d - 1, S) = SubSeq(s, 2, d)
  <2>1. 1 + 1 = 2 /\ 1 \in 0..d /\ d \in 0..S
    OBVIOUS
  <2>2. Contents(bb, (rp + 1) % M, d - 1, S) = SubSeq(s, 1 + 1, d)
    <3>1. Agree(b, bb, rp, 1 + 1, d, S)
      BY <1>4, <2>1 DEF Agree
    <3> HIDE <1>0
    <3>2. ASSUME NEW k \in 0..d, Agree(b, bb, rp, k + 1, d, S)
          PROVE  Contents(bb, (rp + k) % M, d - k, S) = SubSeq(s, k + 1, d)
      BY <2>1, <3>2, ContentsGet
    <3>3. QED
      BY <2>1, <3>1, <3>2, Zenon
  <2>3. QED
    BY <2>1, <2>2
<1> HIDE DEF s
<1>6. s \in Seq(V) /\ Len(s) = d
  <2> HIDE DEF V
  <2>1. d \in Nat
    OBVIOUS
  <2>2. QED
    BY ONLY <1>2, <2>1
<1>7. s # <<>> /\ Head(s) = s[1] /\ Tail(s) = SubSeq(s, 2, d)
  BY <1>6
<1>8. QED
  BY <1>3, <1>5, <1>7 DEF s, bb, Stored

\* What is stored behind the used places does not matter.
LEMMA ContentsBehind ==
    ASSUME NEW S, NEW M, IsRing(S, M),
           NEW rp \in Nat, NEW d \in 0..(S - 1), NEW wp, wp = (rp + d) % M,
           NEW b, DOMAIN b = 0..(S - 1), NEW c
    PROVE  Contents(Stored(b, wp % S, c), rp, d, S) = Contents(b, rp, d, S)
<1> DEFINE bb == Stored(b, wp % S, c)
           s == Contents(b, rp, d, S)
           V == {s[i] : i \in 1..d}
<1> HIDE DEF bb
<1>1. Contents(bb, rp, d + 1, S) = Append(s, c)
  BY ContentsPut DEF bb
<1>2. d \in Nat /\ DOMAIN s = 1..d /\ s \in [1..d -> V]
  <2>1. d \in Nat
    BY DEF IsRing
  <2>2. QED
    BY <2>1 DEF Contents
<1>3. ASSUME NEW i \in 1..d PROVE Append(s, c)[i] = s[i]
  <2>1. s \in Seq(V \cup {c}) /\ Len(s) = d /\ c \in V \cup {c}
    <3> HIDE DEF s
    <3>1. s \in [1..d -> V \cup {c}]
      BY <1>2
    <3> HIDE DEF V
    <3>2. QED
      BY <1>2, <3>1
  <2> HIDE DEF s, V
  <2>2. QED
    BY <2>1, AppendProperties
<1>4. ASSUME NEW i \in 1..d PROVE Contents(bb, rp, d, S)[i] = Contents(bb, rp, d + 1, S)[i]
  BY <1>2 DEF Contents
<1>5. Contents(bb, rp, d, S) = [i \in 1..d |-> s[i]] /\ s = [i \in 1..d |-> s[i]]
  BY <1>1, <1>3, <1>4 DEF Contents
<1>6. QED
  BY <1>5 DEF bb

Bytes(b, S, V) == b \in [0..(S - 1) -> V]

\* They are a sequence of what the ring holds.
LEMMA ContentsSeq ==
    ASSUME NEW S, NEW M, IsRing(S, M), NEW rp \in Nat, NEW d \in 0..S, NEW V, NEW b, Bytes(b, S, V)
    PROVE  Contents(b, rp, d, S) \in Seq(V) /\ Len(Contents(b, rp, d, S)) = d
<1> DEFINE s == Contents(b, rp, d, S)
<1>1. S \in Nat \ {0}
  BY DEF IsRing
<1>2. ASSUME NEW i \in 1..d PROVE (rp + i - 1) % S \in 0..(S - 1)
  <2>1. rp + i - 1 \in Int
    BY <1>1
  <2>2. QED
    BY <1>1, <2>1, DivMod, Zenon
<1>3. s \in [1..d -> V] /\ d \in Nat
  BY <1>1, <1>2 DEF Contents, Bytes
<1> HIDE DEF s
<1>4. s \in Seq(V) /\ Len(s) = d
  BY <1>3
<1>5. QED
  BY <1>4 DEF s

\* The first m bytes.
LEMMA ContentsFirst ==
    ASSUME NEW b, NEW rp, NEW S, NEW V, NEW d \in Nat, NEW m \in 0..d,
           Contents(b, rp, d, S) \in Seq(V), Len(Contents(b, rp, d, S)) = d
    PROVE  Contents(b, rp, m, S) = SubSeq(Contents(b, rp, d, S), 1, m)
<1> DEFINE s == Contents(b, rp, d, S)
<1>1. ASSUME NEW i \in 1..m PROVE Contents(b, rp, m, S)[i] = s[i]
  BY DEF Contents
<1>2. Contents(b, rp, m, S) = [i \in 1..m |-> s[i]]
  BY <1>1 DEF Contents
<1> HIDE DEF s
<1>3. s \in Seq(V) /\ Len(s) = d
  BY DEF s
<1>4. SubSeq(s, 1, m) = [i \in 1..m |-> s[i]]
  BY <1>3
<1>5. QED
  BY <1>2, <1>4 DEF s

\* The others.
LEMMA ContentsRest ==
    ASSUME NEW S, NEW M, IsRing(S, M), NEW rp \in Nat, NEW d \in 0..S, NEW m \in 0..d, NEW b
    PROVE  Contents(b, (rp + m) % M, d - m, S) = SubSeq(Contents(b, rp, d, S), m + 1, d)
<1>1. Agree(b, b, rp, m + 1, d, S)
  BY DEF Agree
<1>2. QED
  BY <1>1, ContentsGet

-----------------------------------------------------------------------------
(* The state.                                                               *)

Index == 0..(UintMod - 1)

-----------------------------------------------------------------------------
(* The inductive invariant.                                                 *)

\* The types of the variables.
TypeOK ==
    /\ buf \in [0..(INPUT_BUF_SIZE - 1) -> Key \cup {None}]
    /\ r \in Index /\ w \in Index /\ e \in Index
    /\ clock \in {None, intr} /\ killed \subseteq Reader
    /\ rpc \in [Reader -> {"user", "lock", "asleep"}]
    /\ n \in [Reader -> Int] /\ got \in [Reader -> Nat]
    /\ txbuf \in [0..(UART_TX_BUF_SIZE - 1) -> Byte \cup {None}]
    /\ txr \in Index /\ txw \in Index /\ taken \in Byte \cup {None}
    /\ tlock \in Actor \cup {None}
    /\ wpc \in [Actor -> {"user", "lock", "asleep", "txlock", "start", "send"}]
    /\ ch \in [Writer -> Byte \cup {None}]
    /\ ipc \in {"idle", "getc", "edit", "echo", "send", "start"}
    /\ key \in Key \cup {None} /\ rx \in Key \cup {None}
    /\ thr \in Nat /\ irq \in BOOLEAN /\ scene \in Scene

\* Who is in uartstart() has uart_tx_lock; the handler has cons.lock while it
\* deals with a character.
LockInv ==
    /\ \A a \in Actor : wpc[a] \in {"start", "send"} <=> tlock = a
    /\ wpc[intr] \notin {"lock", "asleep"} /\ \A p \in Writer : wpc[p] # "txlock"
    /\ ipc = "start" <=> wpc[intr] # "user"
    /\ ipc \in {"edit", "echo", "send"} <=> clock = intr
    /\ ipc \in {"edit", "echo", "send"} => key # None

\* Two bytes are on the way to the UART at most: the one that uartstart() is
\* about to write, and the echo.  Each has found the UART idle.
ThrInv ==
    /\ thr <= 2
    /\ \A a \in Actor : wpc[a] = "send" => thr <= 1 /\ (ipc = "send" => thr = 0)
    /\ ipc = "send" => thr <= 1

\* The transmit ring is not overfull, and a writer has a byte for it.
TxInv ==
    /\ Minus(txw, txr) <= UART_TX_BUF_SIZE
    /\ \A p \in Writer : wpc[p] \in {"lock", "asleep"} => ch[p] \in Byte

\* The three indices of the input ring are in order and not further apart than
\* the ring is long.  The character to be echoed and stored fits.
InputInv ==
    /\ Minus(e, r) = Minus(w, r) + Minus(e, w)
    /\ Minus(e, r) <= INPUT_BUF_SIZE
    /\ ipc \in {"echo", "send"} => key # "P" /\ (key \notin {"U", "H"} => Room)

ConsoleInv == /\ TypeOK /\ LockInv /\ ThrInv /\ TxInv /\ InputInv
              /\ SleepsForAReason /\ OutputMoves
-----------------------------------------------------------------------------
(* Indices and places.                                                      *)

\* The sizes of the rings and the range of the indices.
LEMMA Sizes ==
    /\ UintMod \in Nat \ {0} /\ UintMod > 1
    /\ INPUT_BUF_SIZE \in Nat \ {0} /\ INPUT_BUF_SIZE < UintMod
    /\ UART_TX_BUF_SIZE \in Nat \ {0} /\ UART_TX_BUF_SIZE < UintMod
BY ConsoleAssumption

\* Both rings: the size divides the range of the indices.
LEMMA RingSizes == IsRing(INPUT_BUF_SIZE, UintMod) /\ IsRing(UART_TX_BUF_SIZE, UintMod)
BY ConsoleAssumption DEF IsRing, Divides

\* None is nobody and nothing; the handler is not a process.
LEMMA Names ==
    None \notin Actor \cup Byte \cup Key /\ intr \notin Writer /\ ReadLen \subseteq Nat \ {0}
BY ConsoleAssumption

\* Who takes part in a scene.
LEMMA SceneParts ==
    ASSUME TypeOK
    PROVE  /\ scene.typed \subseteq Key
           /\ scene.readers \subseteq Reader /\ scene.writers \subseteq Writer
BY ConsoleAssumption DEF TypeOK

\* The C expression for the index k places on.
LEMMA PlusAhead ==
    ASSUME NEW i \in Index, NEW k \in 0..UintMod
    PROVE  Plus(i, k) = Ahead(i, k, UintMod) /\ Plus(i, k) \in Index
<1>1. Plus(i, k) = Ahead(i, k, UintMod)
  BY Sizes, ModAhead, Zenon DEF Plus, Index
<1>2. QED
  BY <1>1, Sizes DEF Index, Ahead

\* The C expression for the distance of two indices.
LEMMA MinusDist ==
    ASSUME NEW i \in Index, NEW j \in Index
    PROVE  Minus(i, j) = Dist(j, i, UintMod) /\ Minus(i, j) \in Index
BY Sizes, ModDist, SMTT(30) DEF Minus, Index, Dist

\* The two together.
LEMMA PlusMinus ==
    ASSUME NEW i \in Index, NEW j \in Index
    PROVE  Plus(j, Minus(i, j)) = i /\ Plus(i, 0) = i /\ (Minus(i, j) = 0 <=> i = j)
<1>1. Minus(i, j) = Dist(j, i, UintMod) /\ Minus(i, j) \in 0..UintMod /\ 0 \in 0..UintMod
  BY MinusDist, Sizes DEF Index
<1>2. Plus(j, Minus(i, j)) = Ahead(j, Minus(i, j), UintMod)
  BY <1>1, PlusAhead
<1>3. Plus(i, 0) = Ahead(i, 0, UintMod)
  BY <1>1, PlusAhead
<1>4. QED
  BY <1>1, <1>2, <1>3, AheadDist, Sizes DEF Index, Ahead, Dist

\* k places on, the distance has become k.
LEMMA MinusPlus ==
    ASSUME NEW j \in Index, NEW k \in Index
    PROVE  Minus(Plus(j, k), j) = k
<1>1. k \in 0..UintMod
  BY Sizes DEF Index
<1>2. Plus(j, k) = Ahead(j, k, UintMod) /\ Plus(j, k) \in Index
  BY <1>1, PlusAhead
<1>3. Minus(Plus(j, k), j) = Dist(j, Plus(j, k), UintMod)
  BY <1>2, MinusDist
<1>4. QED
  BY <1>2, <1>3, Sizes DEF Index, Ahead, Dist

\* A character more.
LEMMA MinusPut ==
    ASSUME NEW i \in Index, NEW j \in Index, Minus(i, j) + 1 < UintMod
    PROVE  Plus(i, 1) \in Index /\ Minus(Plus(i, 1), j) = Minus(i, j) + 1
<1>1. 1 \in 0..UintMod
  BY Sizes
<1>2. Plus(i, 1) = Ahead(i, 1, UintMod) /\ Plus(i, 1) \in Index
  BY <1>1, PlusAhead
<1>3. /\ Minus(Plus(i, 1), j) = Dist(j, Plus(i, 1), UintMod)
      /\ Minus(i, j) = Dist(j, i, UintMod)
  BY <1>2, MinusDist
<1>4. QED
  BY <1>2, <1>3, DistPut, Sizes DEF Index

\* The last character erased.
LEMMA MinusErase ==
    ASSUME NEW i \in Index, NEW j \in Index, i # j
    PROVE  Minus(i, 1) \in Index /\ Minus(Minus(i, 1), j) = Minus(i, j) - 1
<1>1. 1 \in Index
  BY Sizes DEF Index
<1>2. Minus(i, 1) = Dist(1, i, UintMod) /\ Minus(i, 1) \in Index
  BY <1>1, MinusDist
<1>3. /\ Minus(Minus(i, 1), j) = Dist(j, Minus(i, 1), UintMod)
      /\ Minus(i, j) = Dist(j, i, UintMod)
  BY <1>2, MinusDist
<1>4. QED
  BY <1>2, <1>3, DistErase, Sizes DEF Index

\* k characters read.
LEMMA MinusGet ==
    ASSUME NEW i \in Index, NEW j \in Index, NEW k \in 0..Minus(i, j)
    PROVE  Plus(j, k) \in Index /\ Minus(i, Plus(j, k)) = Minus(i, j) - k
<1>1. Minus(i, j) = Dist(j, i, UintMod) /\ Minus(i, j) \in Index
  BY MinusDist
<1>2. k \in 0..UintMod
  BY <1>1, Sizes DEF Index
<1>3. Plus(j, k) = Ahead(j, k, UintMod) /\ Plus(j, k) \in Index
  BY <1>2, PlusAhead
<1>4. Minus(i, Plus(j, k)) = Dist(Plus(j, k), i, UintMod)
  BY <1>3, MinusDist
<1>5. QED
  BY <1>1, <1>3, <1>4, DistGet, Sizes DEF Index

\* An index names a place of a ring.
LEMMA InPlace == ASSUME NEW i \in Int PROVE In(i) \in 0..(INPUT_BUF_SIZE - 1)
BY Sizes, DivMod DEF In

\* The same for the transmit ring.
LEMMA OutPlace == ASSUME NEW i \in Int PROVE Out(i) \in 0..(UART_TX_BUF_SIZE - 1)
BY Sizes, DivMod DEF Out

\* The loop of consoleread() takes bytes of complete lines.
LEMMA TakesComplete ==
    ASSUME TypeOK, NEW p \in Reader, NEW bad
    PROVE  /\ Takes(p, bad) \in 0..Minus(w, r) /\ DOMAIN Complete = 1..Minus(w, r)
           /\ \/ Takes(p, bad) = Minus(w, r)
              \/ /\ Takes(p, bad) \in 1..Minus(w, r)
                 /\ \/ Complete[Takes(p, bad)] \in {"nl", "D"}
                    \/ Takes(p, bad) \in {n[p], bad}
<1> DEFINE stop == {i \in DOMAIN Complete : Complete[i] \in {"nl", "D"} \/ i \in {n[p], bad}}
<1>1. Minus(w, r) \in Nat
  BY MinusDist DEF TypeOK, Index
<1>2. DOMAIN Complete = 1..Minus(w, r) /\ Len(Complete) = Minus(w, r)
  BY <1>1 DEF Complete
<1>3. CASE stop = {}
  BY <1>1, <1>2, <1>3 DEF Takes
<1>4. CASE stop # {}
  <2> DEFINE k == CHOOSE i \in stop : \A j \in stop : i <= j
  <2>1. stop \subseteq Nat
    BY <1>1, <1>2
  <2>2. Takes(p, bad) = k
    BY <1>4 DEF Takes
  <2> HIDE DEF stop
  <2>3. k \in stop
    BY <1>4, <2>1, HasLeast
  <2> HIDE DEF k
  <2>4. QED
    BY <1>1, <1>2, <2>2, <2>3 DEF stop
<1>5. QED
  BY <1>3, <1>4

-----------------------------------------------------------------------------
(* Each step keeps each part of the invariant.                              *)

\* Every step keeps the types; the loop of consoleread() moves r by what it takes.
LEMMA TypeStep ==
    ASSUME TypeOK, LockInv, [Next]_vars
    PROVE  TypeOK'
<1> USE Names DEF Actor, Index, Key, LockInv, TypeOK, intr
<1>1. ASSUME NEW c \in Key, Type(c) PROVE TypeOK'
  BY <1>1 DEF Type, input, output, reader
<1>2. CASE Transmit
  BY <1>2 DEF Transmit, input, output, reader
<1>3. ASSUME NEW p \in Reader, NEW k \in ReadLen, Read(p, k) PROVE TypeOK'
  BY <1>3 DEF Read, input, output
<1>4. ASSUME NEW p \in Reader, NEW bad \in 1..(INPUT_BUF_SIZE + 1), ReadLoop(p, bad)
      PROVE  TypeOK'
  <2> DEFINE k == Takes(p, bad)
             used == IF (IF k = 0 THEN None ELSE Complete[k]) = "D" /\ got[p] + k > 1
                     THEN k - 1 ELSE k
  <2>1. Minus(w, r) \in Index /\ k \in 0..Minus(w, r)
    BY MinusDist, TakesComplete
  <2>2. used \in 0..UintMod /\ k \in Nat
    <3>1. k \in 0..UintMod /\ got[p] \in Nat
      BY <2>1, Sizes DEF Index
    <3>2. k = 0 => used = 0
      OBVIOUS
    <3>3. QED
      BY <3>1, <3>2, Sizes
  <2>3. r' = Plus(r, used) /\ Plus(r, used) \in Index
    BY <1>4, <2>2, PlusAhead DEF ReadLoop
  <2>4. /\ buf' \in [0..(INPUT_BUF_SIZE - 1) -> Key \cup {None}]
        /\ rpc' \in [Reader -> {"user", "lock", "asleep"}]
        /\ n' \in [Reader -> Int] /\ got' \in [Reader -> Nat]
    BY <1>4, <2>2 DEF ReadLoop
  <2>5. QED
    BY <1>4, <2>3, <2>4 DEF ReadLoop, output
<1>5. ASSUME NEW p \in Reader, Kill(p) PROVE TypeOK'
  BY <1>5 DEF Kill, input, output
<1>6. ASSUME NEW p \in Writer, NEW c \in Byte, Write(p, c) PROVE TypeOK'
  BY <1>6 DEF Write, GoW, input, reader
<1>7. ASSUME NEW p \in Writer, WriteSleep(p) PROVE TypeOK'
  BY <1>7 DEF WriteSleep, GoW, TxFull, input, reader
<1>8. ASSUME NEW p \in Writer, WritePut(p) PROVE TypeOK'
  <2>1. 1 \in 0..UintMod /\ 1 \in Index
    BY Sizes DEF Index
  <2>2. Plus(txw, 1) \in Index
    BY <2>1, PlusAhead
  <2>3. QED
    BY <1>8, <2>2, ZenonT(40) DEF WritePut, GoW, input, reader
<1>9. ASSUME NEW a \in Actor, StartTake(a) PROVE TypeOK'
  <2>1. 1 \in 0..UintMod /\ 1 \in Index
    BY Sizes DEF Index
  <2>2. Plus(txr, 1) \in Index
    BY <2>1, PlusAhead
  <2>3. Out(txr) \in 0..(UART_TX_BUF_SIZE - 1)
    BY OutPlace DEF Index
  <2>4. QED
    BY <1>9, <2>2, <2>3 DEF StartTake, Startable, WakeWriters, input, reader
<1>10. ASSUME NEW a \in Actor, StartSend(a) PROVE TypeOK'
  BY <1>10 DEF StartSend, GoW, input, reader
<1>11. ASSUME NEW a \in Actor, StartDone(a) PROVE TypeOK'
  BY <1>11 DEF StartDone, GoW, Startable, TxIdle, input, reader
<1>12. CASE Intr
  BY <1>12 DEF Intr, input, output, reader
<1>13. CASE Getc
  BY <1>13 DEF Getc, input, output, reader
<1>14. CASE Edit
  <2>1. 1 \in 0..UintMod /\ 1 \in Index
    BY Sizes DEF Index
  <2>2. Minus(e, 1) \in Index
    BY <2>1, MinusDist
  <2>3. QED
    <3>1. e' \in Index /\ buf' \in [0..(INPUT_BUF_SIZE - 1) -> Key \cup {None}]
      <4>1. CASE Erases
        <5>1. e' = Minus(e, 1) /\ buf' = [buf EXCEPT ![In(e')] = None]
          BY <1>14, <4>1 DEF Edit
        <5>2. QED
          BY <2>2, <5>1
      <4>2. CASE ~Erases
        BY <1>14, <4>2 DEF Edit
      <4>3. QED
        BY <4>1, <4>2
    <3>2. QED
      BY <1>14, <3>1 DEF Edit, Echo, Release, output, reader
<1>15. CASE EchoWait
  BY <1>15 DEF EchoWait, SyncReady, TxIdle, input, output, reader
<1>16. CASE EchoErased
  BY <1>16 DEF EchoErased, Release, input, output, reader
<1>17. CASE EchoStore
  <2>1. 1 \in 0..UintMod /\ 1 \in Index
    BY Sizes DEF Index
  <2>2. Plus(e, 1) \in Index
    BY <2>1, PlusAhead
  <2>3. QED
    <3>1. key \in Key
      BY <1>17 DEF EchoStore
    <3>2. w' \in Index /\ e' \in Index
      BY <1>17, <2>2 DEF EchoStore
    <3>3. buf' \in [0..(INPUT_BUF_SIZE - 1) -> Key \cup {None}]
      BY <1>17, <3>1 DEF EchoStore
    <3>4. rpc' \in [Reader -> {"user", "lock", "asleep"}]
      BY <1>17 DEF EchoStore
    <3>5. QED
      BY <1>17, <3>2, <3>3, <3>4 DEF EchoStore, Release, output
<1>18. CASE IntrStart
  BY <1>18 DEF IntrStart, GoW, input, reader
<1>19. CASE IntrTxLock
  BY <1>19 DEF IntrTxLock, GoW, input, reader
<1>20. CASE UNCHANGED <<buf, r, w, e, clock, rpc, n, got, killed, txbuf, txr,
                         txw, tlock, wpc, ch, taken, ipc, key, rx, thr, irq, scene>>
  BY <1>20
<1>21. QED
  BY <1>1, <1>2, <1>3, <1>4, <1>5, <1>6, <1>7, <1>8, <1>9, <1>10, <1>11, <1>12, <1>13,
      <1>14, <1>15, <1>16, <1>17, <1>18, <1>19, <1>20, SceneParts DEF vars, Next,
      Handler, ReaderStep, WriterStep, Uartstart, input, reader, output

\* uart_tx_lock and cons.lock are taken and given up in pairs; the handler gives up
\* cons.lock before uartstart().
LEMMA LockStep ==
    ASSUME TypeOK, LockInv, [Next]_vars
    PROVE  LockInv'
<1> USE Names DEF Actor, Index, Key, LockInv, TypeOK, intr
<1>1. ASSUME NEW p \in Writer, NEW c \in Byte, Write(p, c) PROVE LockInv'
  BY <1>1 DEF Write, GoW, input, reader
<1>2. ASSUME NEW p \in Writer, WriteSleep(p) PROVE LockInv'
  BY <1>2 DEF WriteSleep, GoW, TxFull, input, reader
<1>3. ASSUME NEW p \in Writer, WritePut(p) PROVE LockInv'
  BY <1>3 DEF WritePut, GoW, TxFull, input, reader
<1>4. ASSUME NEW a \in Actor, StartTake(a) PROVE LockInv'
  BY <1>4 DEF StartTake, Startable, TxIdle, WakeWriters, input, reader
<1>5. ASSUME NEW a \in Actor, StartSend(a) PROVE LockInv'
  BY <1>5 DEF StartSend, GoW, input, reader
<1>6. ASSUME NEW a \in Actor, StartDone(a) PROVE LockInv'
  BY <1>6 DEF StartDone, GoW, Startable, TxIdle, input, reader
<1>7. CASE Intr
  BY <1>7 DEF Intr, input, output, reader
<1>8. CASE Getc
  BY <1>8 DEF Getc, input, output, reader
<1>9. CASE Edit
  BY <1>9 DEF Edit, Echo, Erases, Release, Room, output, reader
<1>10. CASE EchoWait
  BY <1>10 DEF EchoWait, SyncReady, TxIdle, input, output, reader
<1>11. CASE EchoErased
  BY <1>11 DEF EchoErased, Release, input, output, reader
<1>12. CASE EchoStore
  BY <1>12 DEF EchoStore, IsComplete, Release, output
<1>13. CASE IntrStart
  BY <1>13 DEF IntrStart, GoW, input, reader
<1>14. CASE IntrTxLock
  BY <1>14 DEF IntrTxLock, GoW, input, reader
<1>15. CASE UNCHANGED <<clock, tlock, wpc, ipc, key>>
  BY <1>15
<1>16. QED
  BY <1>1, <1>2, <1>3, <1>4, <1>5, <1>6, <1>7, <1>8, <1>9, <1>10, <1>11, <1>12, <1>13,
      <1>14, <1>15, SceneParts DEF vars, Next, Handler, ReaderStep, WriterStep,
      Uartstart, input, reader, output, Type, Transmit, Read, ReadLoop, Kill

\* A byte is written to the UART by somebody who has seen it idle, and in between at
\* most one other byte was.
LEMMA ThrStep ==
    ASSUME TypeOK, LockInv, ThrInv, [Next]_vars
    PROVE  ThrInv'
<1> USE Names DEF Actor, Index, Key, LockInv, ThrInv, TypeOK, intr
<1>1. CASE Transmit
  BY <1>1 DEF Transmit, input, output, reader
<1>2. ASSUME NEW p \in Writer, NEW c \in Byte, Write(p, c) PROVE ThrInv'
  BY <1>2 DEF Write, GoW, input, reader
<1>3. ASSUME NEW p \in Writer, WriteSleep(p) PROVE ThrInv'
  BY <1>3 DEF WriteSleep, GoW, TxFull, input, reader
<1>4. ASSUME NEW p \in Writer, WritePut(p) PROVE ThrInv'
  BY <1>4 DEF WritePut, GoW, TxFull, input, reader
<1>5. ASSUME NEW a \in Actor, StartTake(a) PROVE ThrInv'
  BY <1>5 DEF StartTake, Startable, TxIdle, WakeWriters, input, reader
<1>6. ASSUME NEW a \in Actor, StartSend(a) PROVE ThrInv'
  BY <1>6 DEF StartSend, GoW, input, reader
<1>7. ASSUME NEW a \in Actor, StartDone(a) PROVE ThrInv'
  BY <1>7 DEF StartDone, GoW, Startable, TxIdle, input, reader
<1>8. CASE Intr
  BY <1>8 DEF Intr, input, output, reader
<1>9. CASE Getc
  BY <1>9 DEF Getc, input, output, reader
<1>10. CASE Edit
  BY <1>10 DEF Edit, Echo, Erases, Release, Room, output, reader
<1>11. CASE EchoWait
  BY <1>11 DEF EchoWait, SyncReady, TxIdle, input, output, reader
<1>12. CASE EchoErased
  BY <1>12 DEF EchoErased, Release, input, output, reader
<1>13. CASE EchoStore
  BY <1>13 DEF EchoStore, IsComplete, Release, output
<1>14. CASE IntrStart
  BY <1>14 DEF IntrStart, GoW, input, reader
<1>15. CASE IntrTxLock
  BY <1>15 DEF IntrTxLock, GoW, input, reader
<1>16. CASE UNCHANGED <<wpc, ipc, thr>>
  BY <1>16
<1>17. QED
  BY <1>1, <1>2, <1>3, <1>4, <1>5, <1>6, <1>7, <1>8, <1>9, <1>10, <1>11, <1>12, <1>13,
      <1>14, <1>15, <1>16, SceneParts DEF vars, Next, Handler, ReaderStep, WriterStep,
      Uartstart, input, reader, output, Type, Read, ReadLoop, Kill

\* uartputc() adds to the transmit ring only if it is not full.
LEMMA TxStep ==
    ASSUME TypeOK, LockInv, TxInv, [Next]_vars
    PROVE  TxInv'
<1> USE Names DEF Actor, Index, Key, LockInv, TxInv, TypeOK, intr
<1>1. ASSUME NEW p \in Writer, NEW c \in Byte, Write(p, c) PROVE TxInv'
  BY <1>1 DEF Write, GoW, input, reader
<1>2. ASSUME NEW p \in Writer, WriteSleep(p) PROVE TxInv'
  BY <1>2 DEF WriteSleep, GoW, TxFull, input, reader
<1>3. ASSUME NEW p \in Writer, WritePut(p) PROVE TxInv'
  <2>1. Minus(txw, txr) \in Nat /\ Minus(txw, txr) # UART_TX_BUF_SIZE
    BY <1>3, MinusDist, PlusMinus DEF WritePut, TxFull, Index
  <2>2. Minus(txw, txr) + 1 <= UART_TX_BUF_SIZE
    BY <2>1, Sizes
  <2>3. Minus(Plus(txw, 1), txr) = Minus(txw, txr) + 1
    BY <2>1, <2>2, Sizes, MinusPut
  <2>4. QED
    BY <1>3, <2>2, <2>3 DEF WritePut, GoW
<1>4. ASSUME NEW a \in Actor, StartTake(a) PROVE TxInv'
  <2>1. Minus(txw, txr) \in Nat /\ txr # txw
    BY <1>4, MinusDist DEF StartTake, Startable, Index
  <2>2. 1 \in 0..Minus(txw, txr)
    BY <2>1, PlusMinus
  <2>3. Minus(txw, Plus(txr, 1)) = Minus(txw, txr) - 1
    BY <2>2, MinusGet
  <2>4. QED
    BY <1>4, <2>1, <2>3, Sizes DEF StartTake, WakeWriters
<1>5. ASSUME NEW a \in Actor, StartSend(a) PROVE TxInv'
  BY <1>5 DEF StartSend, GoW, input, reader
<1>6. ASSUME NEW a \in Actor, StartDone(a) PROVE TxInv'
  BY <1>6 DEF StartDone, GoW, Startable, TxIdle, input, reader
<1>7. CASE IntrStart
  BY <1>7 DEF IntrStart, GoW, input, reader
<1>8. CASE IntrTxLock
  BY <1>8 DEF IntrTxLock, GoW, input, reader
<1>9. CASE UNCHANGED <<txr, txw, wpc, ch>>
  BY <1>9
<1>10. QED
  BY <1>1, <1>2, <1>3, <1>4, <1>5, <1>6, <1>7, <1>8, <1>9, SceneParts DEF vars, Next,
      Handler, ReaderStep, WriterStep, Uartstart, input, reader, output, Type, Transmit,
      Read, ReadLoop, Kill, Intr, Getc, Edit, EchoWait, EchoErased, EchoStore

\* consoleintr() checks for room before it echoes, and keeps cons.lock until it has
\* stored the character; it erases back to w, and consoleread() reads up to w.
LEMMA InputStep ==
    ASSUME TypeOK, LockInv, InputInv, [Next]_vars
    PROVE  InputInv'
<1> USE Names DEF Actor, Index, InputInv, Key, LockInv, Room, TypeOK, intr
<1>1. ASSUME NEW p \in Reader, NEW bad \in 1..(INPUT_BUF_SIZE + 1), ReadLoop(p, bad)
      PROVE  InputInv'
  <2> DEFINE k == Takes(p, bad)
             used == IF (IF k = 0 THEN None ELSE Complete[k]) = "D" /\ got[p] + k > 1
                     THEN k - 1 ELSE k
  <2>1. Minus(w, r) \in Nat /\ Minus(e, w) \in Nat /\ Minus(e, r) \in Nat
    BY MinusDist DEF Index
  <2>2. k \in 0..Minus(w, r)
    BY TakesComplete
  <2>3. used \in 0..Minus(w, r) /\ used \in 0..Minus(e, r)
    <3>1. used \in {k, k - 1} /\ (k = 0 => used = 0)
      OBVIOUS
    <3> HIDE DEF k, used
    <3>2. used \in 0..Minus(w, r)
      BY <2>1, <2>2, <3>1
    <3>3. QED
      BY <2>1, <3>2
  <2>4. r' = Plus(r, used) /\ w' = w /\ e' = e
    BY <1>1 DEF ReadLoop
  <2>5. ipc \notin {"echo", "send"} /\ ipc' = ipc
    BY <1>1 DEF ReadLoop
  <2> HIDE DEF k, used
  <2>6. Minus(w, r') = Minus(w, r) - used /\ Minus(e, r') = Minus(e, r) - used
    <3>1. Minus(w, Plus(r, used)) = Minus(w, r) - used
      BY <2>3, MinusGet
    <3>2. Minus(e, Plus(r, used)) = Minus(e, r) - used
      BY <2>3, MinusGet
    <3>3. QED
      BY <2>4, <3>1, <3>2
  <2>7. Minus(e, r') = Minus(w, r') + Minus(e, w) /\ Minus(e, r') <= INPUT_BUF_SIZE
    BY <2>1, <2>3, <2>6, Sizes
  <2>8. QED
    BY <2>4, <2>5, <2>7
<1>2. ASSUME NEW a \in Actor, StartDone(a) PROVE InputInv'
  BY <1>2 DEF StartDone, GoW, Startable, TxIdle, input, reader
<1>3. CASE Intr
  BY <1>3 DEF Intr, input, output, reader
<1>4. CASE Getc
  BY <1>4 DEF Getc, input, output, reader
<1>5. CASE Edit
  <2>1. Minus(w, r) \in Nat /\ Minus(e, w) \in Nat /\ Minus(e, r) \in Nat
    BY MinusDist DEF Index
  <2>2. CASE Erases
    <3>1. e' = Minus(e, 1) /\ r' = r /\ w' = w /\ key' = key /\ key \in {"U", "H"}
      BY <1>5, <2>2 DEF Edit, Echo, Erases
    <3>2. Minus(e, w) # 0 /\ e # w /\ e # r
      BY <2>1, <2>2, PlusMinus DEF Erases
    <3>3. Minus(e', w) = Minus(e, w) - 1 /\ Minus(e', r) = Minus(e, r) - 1
      BY <3>1, <3>2, MinusErase
    <3>4. QED
      BY <2>1, <3>1, <3>3, Sizes, SMTT(30)
  <2>3. CASE ~Erases
    BY <1>5, <2>3 DEF Edit, Echo, Release
  <2>4. QED
    BY <2>2, <2>3
<1>6. CASE EchoWait
  BY <1>6 DEF EchoWait, SyncReady, TxIdle, input, output, reader
<1>7. CASE EchoErased
  BY <1>7 DEF EchoErased, Release, input, output, reader
<1>8. CASE EchoStore
  <2>1. Minus(w, r) \in Nat /\ Minus(e, w) \in Nat /\ Minus(e, r) \in Nat
    BY MinusDist DEF Index
  <2>2. e' = Plus(e, 1) /\ r' = r /\ w' \in {w, e'}
    BY <1>8 DEF EchoStore
  <2>3. Minus(e, r) + 1 <= INPUT_BUF_SIZE /\ ipc' = "getc"
    BY <1>8, <2>1, Sizes DEF EchoStore, Release
  <2>4. Minus(e, r) + 1 < UintMod /\ Minus(e, w) + 1 < UintMod
    BY <2>1, <2>3, Sizes
  <2>5. e' \in Index /\ Minus(e', r) = Minus(e, r) + 1 /\ Minus(e', w) = Minus(e, w) + 1
    BY <2>2, <2>4, MinusPut
  <2>6. Minus(e', e') = 0
    BY <2>5, PlusMinus
  <2>7. CASE w' = w
    BY <2>1, <2>2, <2>3, <2>5, <2>7, Sizes
  <2>8. CASE w' = e'
    BY <2>1, <2>2, <2>3, <2>5, <2>6, <2>8, Sizes
  <2>9. QED
    BY <2>2, <2>7, <2>8
<1>9. CASE IntrStart
  BY <1>9 DEF IntrStart, GoW, input, reader
<1>10. CASE UNCHANGED <<r, w, e, ipc, key>>
  BY <1>10
<1>11. QED
  BY <1>1, <1>2, <1>3, <1>4, <1>5, <1>6, <1>7, <1>8, <1>9, <1>10, SceneParts DEF vars,
      Next, Handler, ReaderStep, WriterStep, Uartstart, input, reader, output, Type,
      Transmit, Read, Kill, Write, WriteSleep, WritePut, StartTake, StartSend,
      IntrTxLock

\* Whoever changes what a sleeper waits for wakes it in the same critical section.
LEMMA SleepStep ==
    ASSUME TypeOK, LockInv, SleepsForAReason, [Next]_vars
    PROVE  SleepsForAReason'
<1> USE Names DEF Actor, Index, Key, LockInv, SleepsForAReason, TxFull, TypeOK, intr
<1>1. ASSUME NEW p \in Reader, NEW k \in ReadLen, Read(p, k) PROVE SleepsForAReason'
  BY <1>1 DEF Read, input, output
<1>2. ASSUME NEW p \in Reader, NEW bad \in 1..(INPUT_BUF_SIZE + 1), ReadLoop(p, bad)
      PROVE  SleepsForAReason'
  <2> DEFINE k == Takes(p, bad)
             last == IF k = 0 THEN None ELSE Complete[k]
             ends == last \in {"nl", "D"} \/ k = n[p] \/ k = bad \/ p \in killed
             used == IF last = "D" /\ got[p] + k > 1 THEN k - 1 ELSE k
  <2>1. Minus(w, r) \in Index
    BY MinusDist
  <2>2. /\ k \in 0..Minus(w, r)
        /\ k = Minus(w, r) \/ (k \in 1..Minus(w, r)
                               /\ (Complete[k] \in {"nl", "D"} \/ k \in {n[p], bad}))
    BY TakesComplete
  <2>3. CASE ~ends
    <3>1. k = Minus(w, r) /\ last # "D"
      BY <2>1, <2>2, <2>3 DEF Index
    <3>2. r' = Plus(r, k)
      BY <1>2, <3>1 DEF ReadLoop
    <3>3. r' = w
      BY <3>1, <3>2, PlusMinus
    <3>4. QED
      BY <1>2, <3>3 DEF ReadLoop, output
  <2>4. CASE ends
    <3>1. rpc' = [rpc EXCEPT ![p] = "user"] /\ r' = Plus(r, used) /\ w' = w
      BY <1>2, <2>4 DEF ReadLoop
    <3>2. ASSUME r = w PROVE r' = w
      <4>1. k = 0
        BY <2>2, <3>2, PlusMinus
      <4>2. r' = Plus(r, 0)
        BY <3>1, <4>1
      <4>3. QED
        BY <3>2, <4>2, PlusMinus
    <3>3. QED
      BY <1>2, <3>1, <3>2 DEF ReadLoop, output
  <2>5. QED
    BY <2>3, <2>4
<1>3. ASSUME NEW p \in Reader, Kill(p) PROVE SleepsForAReason'
  BY <1>3 DEF Kill, input, output
<1>4. ASSUME NEW p \in Writer, NEW c \in Byte, Write(p, c) PROVE SleepsForAReason'
  BY <1>4 DEF Write, GoW, input, reader
<1>5. ASSUME NEW p \in Writer, WriteSleep(p) PROVE SleepsForAReason'
  BY <1>5 DEF WriteSleep, GoW, input, reader
<1>6. ASSUME NEW p \in Writer, WritePut(p) PROVE SleepsForAReason'
  BY <1>6 DEF WritePut, GoW, input, reader
<1>7. ASSUME NEW a \in Actor, StartTake(a) PROVE SleepsForAReason'
  BY <1>7 DEF StartTake, Startable, TxIdle, WakeWriters, input, reader
<1>8. ASSUME NEW a \in Actor, StartSend(a) PROVE SleepsForAReason'
  BY <1>8 DEF StartSend, GoW, input, reader
<1>9. ASSUME NEW a \in Actor, StartDone(a) PROVE SleepsForAReason'
  BY <1>9 DEF StartDone, GoW, Startable, TxIdle, input, reader
<1>10. CASE EchoStore
  BY <1>10 DEF EchoStore, IsComplete, Release, output
<1>11. CASE IntrStart
  BY <1>11 DEF IntrStart, GoW, input, reader
<1>12. CASE IntrTxLock
  BY <1>12 DEF IntrTxLock, GoW, input, reader
<1>13. CASE UNCHANGED <<r, w, rpc, txr, txw, wpc>>
  BY <1>13
<1>14. QED
  BY <1>1, <1>2, <1>3, <1>4, <1>5, <1>6, <1>7, <1>8, <1>9, <1>10, <1>11, <1>12, <1>13,
      SceneParts DEF vars, Next, Handler, ReaderStep, WriterStep, Uartstart, input,
      reader, output, Type, Transmit, Intr, Getc, Edit, EchoWait, EchoErased

\* uartstart() leaves bytes behind only if the UART is busy, and a busy UART
\* interrupts, whoever made it busy.
LEMMA OutputStep ==
    ASSUME TypeOK, LockInv, OutputMoves, [Next]_vars
    PROVE  OutputMoves'
<1> USE Names DEF Actor, Index, Key, LockInv, OutputMoves, TxIdle, TypeOK, intr
<1>1. ASSUME NEW c \in Key, Type(c) PROVE OutputMoves'
  BY <1>1 DEF Type, input, output, reader
<1>2. CASE Transmit
  <2>1. CASE thr = 1
    BY <1>2, <2>1 DEF Transmit
  <2>2. CASE thr # 1
    BY <1>2, <2>2 DEF Transmit, output
  <2>3. QED
    BY <2>1, <2>2
<1>3. ASSUME NEW p \in Writer, NEW c \in Byte, Write(p, c) PROVE OutputMoves'
  BY <1>3 DEF Write, GoW, input, reader
<1>4. ASSUME NEW p \in Writer, WriteSleep(p) PROVE OutputMoves'
  BY <1>4 DEF WriteSleep, GoW, TxFull, input, reader
<1>5. ASSUME NEW p \in Writer, WritePut(p) PROVE OutputMoves'
  BY <1>5 DEF WritePut, GoW, TxFull, input, reader
<1>6. ASSUME NEW a \in Actor, StartTake(a) PROVE OutputMoves'
  BY <1>6 DEF StartTake, Startable, WakeWriters, input, reader
<1>7. ASSUME NEW a \in Actor, StartSend(a) PROVE OutputMoves'
  BY <1>7 DEF StartSend, GoW, input, reader
<1>8. ASSUME NEW a \in Actor, StartDone(a) PROVE OutputMoves'
  BY <1>8 DEF StartDone, GoW, Startable, input, reader
<1>9. CASE Intr
  BY <1>9 DEF Intr, input, output, reader
<1>10. CASE Getc
  BY <1>10 DEF Getc, input, output, reader
<1>11. CASE Edit
  BY <1>11 DEF Edit, Echo, Erases, Release, Room, output, reader
<1>12. CASE EchoWait
  BY <1>12 DEF EchoWait, SyncReady, input, output, reader
<1>13. CASE EchoErased
  BY <1>13 DEF EchoErased, Release, input, output, reader
<1>14. CASE EchoStore
  BY <1>14 DEF EchoStore, IsComplete, Release, output
<1>15. CASE IntrStart
  BY <1>15 DEF IntrStart, GoW, input, reader
<1>16. CASE IntrTxLock
  BY <1>16 DEF IntrTxLock, GoW, input, reader
<1>17. CASE UNCHANGED <<txr, txw, wpc, ipc, thr, irq>>
  BY <1>17
<1>18. QED
  BY <1>1, <1>2, <1>3, <1>4, <1>5, <1>6, <1>7, <1>8, <1>9, <1>10, <1>11, <1>12, <1>13,
      <1>14, <1>15, <1>16, <1>17, SceneParts, ZenonT(40) DEF vars, Next, Handler, ReaderStep,
      WriterStep, Uartstart, input, reader, output, Read, ReadLoop, Kill

-----------------------------------------------------------------------------
(* The invariant and what follows from it.                                  *)

\* After consoleinit() and uartinit() the rings are empty and nobody waits.
LEMMA InitInv == Init => ConsoleInv
<1> SUFFICES ASSUME Init PROVE ConsoleInv
  OBVIOUS
<1>1. 0 \in Index
  BY Sizes DEF Index
<1>2. Minus(0, 0) = 0
  BY <1>1, PlusMinus
<1>3. TypeOK
  <2>1. /\ buf \in [0..(INPUT_BUF_SIZE - 1) -> Key \cup {None}]
        /\ txbuf \in [0..(UART_TX_BUF_SIZE - 1) -> Byte \cup {None}]
        /\ rpc \in [Reader -> {"user", "lock", "asleep"}]
        /\ n \in [Reader -> Int] /\ got \in [Reader -> Nat]
    BY DEF Init
  <2>2. /\ wpc \in [Actor -> {"user", "lock", "asleep", "txlock", "start", "send"}]
        /\ ch \in [Writer -> Byte \cup {None}]
    BY DEF Init
  <2>3. QED
    BY <1>1, <2>1, <2>2 DEF Init, TypeOK
<1>4. LockInv /\ ThrInv /\ SleepsForAReason /\ OutputMoves
  BY Names DEF Init, LockInv, ThrInv, SleepsForAReason, OutputMoves, Actor
<1>5. TxInv /\ InputInv
  BY <1>2, Sizes, Names DEF Init, TxInv, InputInv, Actor
<1>6. QED
  BY <1>3, <1>4, <1>5 DEF ConsoleInv

\* The locks, the rings and the UART fit together in every reachable state, for any
\* number of readers and writers and any sizes.
THEOREM ConsoleInvariant == Spec => []ConsoleInv
<1>1. ConsoleInv /\ [Next]_vars => ConsoleInv'
  <2> SUFFICES ASSUME ConsoleInv, [Next]_vars PROVE ConsoleInv'
    OBVIOUS
  <2> QED
    BY TypeStep, LockStep, ThrStep, TxStep, InputStep, SleepStep, OutputStep DEF ConsoleInv
<1>2. QED
  BY InitInv, <1>1, PTL DEF Spec

\* A reader sleeps only while there is no complete line, a writer only while the
\* transmit ring is full.
THEOREM SleepersHaveAReason == Spec => []SleepsForAReason
<1>1. ConsoleInv => SleepsForAReason
  BY DEF ConsoleInv
<1>2. QED
  BY <1>1, ConsoleInvariant, PTL

\* The UART never holds more than two bytes, though the echo and uartstart() write to
\* it under different locks.
THEOREM UartIsNotOverrun == Spec => []NoOverrun
<1>1. ConsoleInv => NoOverrun
  BY DEF ConsoleInv, ThrInv, NoOverrun
<1>2. QED
  BY <1>1, ConsoleInvariant, PTL

\* Bytes in the transmit ring are never forgotten: an interrupt will come, or somebody
\* is on the way to uartstart().
THEOREM BufferedOutputMoves == Spec => []OutputMoves
<1>1. ConsoleInv => OutputMoves
  BY DEF ConsoleInv
<1>2. QED
  BY <1>1, ConsoleInvariant, PTL

-----------------------------------------------------------------------------
(* uart_tx_buf implements a queue.                                          *)

TxBytes == Ring(txbuf, txr, txw, UART_TX_BUF_SIZE)

\* The bytes of the transmit ring, as the contents of a ring.
LEMMA TxBytesAre == TxBytes = Contents(txbuf, txr, Minus(txw, txr), UART_TX_BUF_SIZE)
BY DEF TxBytes, Ring, Contents

\* uartputc() appends the writer's byte.
LEMMA WritePutSimulates ==
    ASSUME ConsoleInv, NEW p \in Writer, WritePut(p)
    PROVE  \E c \in Byte : TxQueue!FPut(c)
<1> DEFINE d == Minus(txw, txr)
           c == ch[p]
<1> USE DEF ConsoleInv, TypeOK, TxInv
<1>1. /\ c \in Byte /\ taken' = taken /\ txr' = txr
      /\ txw' = Plus(txw, 1) /\ txbuf' = Stored(txbuf, txw % UART_TX_BUF_SIZE, c)
  BY DEF WritePut, Out, Stored
<1>2. d \in Nat /\ d < UART_TX_BUF_SIZE
  <2>1. d \in Nat /\ d # UART_TX_BUF_SIZE
    BY MinusDist, PlusMinus DEF WritePut, TxFull, Index
  <2>2. QED
    BY <2>1, Sizes
<1>3. Minus(txw', txr') = d + 1
  BY <1>1, <1>2, MinusPut, Sizes
<1>4. txw = (txr + d) % UintMod
  BY PlusMinus DEF Plus
<1>5. /\ d \in 0..(UART_TX_BUF_SIZE - 1) /\ txr \in Nat
      /\ DOMAIN txbuf = 0..(UART_TX_BUF_SIZE - 1)
  BY <1>2, Sizes DEF Index
<1> HIDE DEF ConsoleInv, TypeOK, TxInv, d, c
<1>6. Contents(Stored(txbuf, txw % UART_TX_BUF_SIZE, c), txr, d + 1, UART_TX_BUF_SIZE)
        = Append(Contents(txbuf, txr, d, UART_TX_BUF_SIZE), c)
  BY <1>4, <1>5, ContentsPut, RingSizes
<1>7. TxBytes' = Contents(txbuf', txr', Minus(txw', txr'), UART_TX_BUF_SIZE)
  BY DEF TxBytes, Ring, Contents
<1>8. TxBytes' = Append(TxBytes, c)
  BY <1>1, <1>3, <1>6, <1>7, TxBytesAre DEF d
<1>9. Len(TxBytes) = d
  BY <1>2, TxBytesAre DEF Contents, d
<1>10. TxQueue!FPut(c)
  BY <1>1, <1>2, <1>8, <1>9 DEF TxQueue!FPut, TxBytes
<1>11. QED
  BY <1>1, <1>10

\* uartstart() takes the oldest byte.
LEMMA StartTakeSimulates ==
    ASSUME ConsoleInv, NEW a \in Actor, StartTake(a)
    PROVE  TxQueue!FGet
<1> DEFINE d == Minus(txw, txr)
<1> USE DEF ConsoleInv, TypeOK, TxInv
<1>1. /\ taken' = txbuf[txr % UART_TX_BUF_SIZE] /\ txr' = Plus(txr, 1) /\ txw' = txw
      /\ txbuf' = Stored(txbuf, txr % UART_TX_BUF_SIZE, None) /\ txw # txr
  BY DEF StartTake, Startable, Out, Stored
<1>2. d \in Nat /\ d # 0
  BY <1>1, MinusDist, PlusMinus DEF Index
<1>3. 1 \in 0..d
  BY <1>2
<1>4. Minus(txw', txr') = d - 1
  BY <1>1, <1>3, MinusGet
<1>5. /\ d \in 1..UART_TX_BUF_SIZE /\ txr \in Nat
      /\ DOMAIN txbuf = 0..(UART_TX_BUF_SIZE - 1) /\ txr' = (txr + 1) % UintMod
  BY <1>1, <1>2, Sizes DEF Index, Plus
<1> HIDE DEF ConsoleInv, TypeOK, TxInv, d
<1>6. /\ Contents(txbuf, txr, d, UART_TX_BUF_SIZE) # <<>>
      /\ Head(Contents(txbuf, txr, d, UART_TX_BUF_SIZE)) = txbuf[txr % UART_TX_BUF_SIZE]
      /\ Contents(Stored(txbuf, txr % UART_TX_BUF_SIZE, None), (txr + 1) % UintMod, d - 1,
                  UART_TX_BUF_SIZE)
           = Tail(Contents(txbuf, txr, d, UART_TX_BUF_SIZE))
  <2>1. Contents(txbuf, txr, d, UART_TX_BUF_SIZE) # <<>>
    BY <1>5, ContentsHead, RingSizes
  <2>2. Head(Contents(txbuf, txr, d, UART_TX_BUF_SIZE)) = txbuf[txr % UART_TX_BUF_SIZE]
    BY <1>5, ContentsHead, RingSizes
  <2>3. Contents(Stored(txbuf, txr % UART_TX_BUF_SIZE, None), (txr + 1) % UintMod, d - 1,
                 UART_TX_BUF_SIZE)
          = Tail(Contents(txbuf, txr, d, UART_TX_BUF_SIZE))
    BY <1>5, ContentsHead, RingSizes
  <2>4. QED
    BY <2>1, <2>2, <2>3
<1>7. TxBytes' = Contents(txbuf', txr', Minus(txw', txr'), UART_TX_BUF_SIZE)
  BY DEF TxBytes, Ring, Contents
<1>8. TxBytes' = Tail(TxBytes) /\ TxBytes # <<>> /\ taken' = Head(TxBytes)
  BY <1>1, <1>4, <1>5, <1>6, <1>7, TxBytesAre DEF d
<1>9. QED
  BY <1>8 DEF TxQueue!FGet, TxBytes

\* Bytes leave the transmit ring once and in the order of uartputc(), however the
\* indices wrap.
THEOREM UartImplementsFifo == Spec => ImplementsFifo
<1>1. Init => TxQueue!FInit
  <2> SUFFICES ASSUME Init PROVE TxQueue!FInit
    OBVIOUS
  <2>1. 0 \in Index
    BY Sizes DEF Index
  <2>2. Minus(0, 0) = 0
    BY <2>1, PlusMinus
  <2>3. TxBytes = <<>>
    BY <2>2 DEF Init, TxBytes, Ring
  <2>4. QED
    BY <2>3 DEF Init, TxQueue!FInit, TxBytes
<1>2. ConsoleInv /\ [Next]_vars => [TxQueue!FStep]_(TxQueue!fvars)
  <2> SUFFICES ASSUME ConsoleInv, [Next]_vars PROVE [TxQueue!FStep]_(TxQueue!fvars)
    OBVIOUS
  <2>1. ASSUME NEW p \in Writer, WritePut(p) PROVE TxQueue!FStep
    BY <2>1, WritePutSimulates DEF TxQueue!FStep
  <2>2. ASSUME NEW a \in Actor, StartTake(a) PROVE TxQueue!FStep
    BY <2>2, StartTakeSimulates DEF TxQueue!FStep
  <2>3. CASE UNCHANGED <<txbuf, txr, txw, taken>>
    BY <2>3 DEF TxQueue!fvars, Ring, Minus
  <2>4. QED
    BY <2>1, <2>2, <2>3 DEF Next, vars, Handler, ReaderStep, WriterStep, Uartstart, input,
       reader, output, Type, Transmit, Read, ReadLoop, Kill, Write, WriteSleep, StartSend,
       StartDone, Intr, Getc, Edit, EchoWait, EchoErased, EchoStore, IntrStart, IntrTxLock
<1>3. QED
  BY <1>1, <1>2, ConsoleInvariant, PTL DEF Spec, ImplementsFifo, TxQueue!FOpenSpec

-----------------------------------------------------------------------------
(* cons.buf implements a line editor.  What is in the ring is one sequence, *)
(* the complete lines followed by the line that is edited; a step changes   *)
(* that sequence at one end, or moves the border.                           *)

AllInput == Contents(buf, r, Minus(e, r), INPUT_BUF_SIZE)
Lines    == Ring(buf, r, w, INPUT_BUF_SIZE)
EditLine == Ring(buf, w, e, INPUT_BUF_SIZE)

\* The bytes behind the first m of d.
LEMMA InputRest ==
    ASSUME NEW b, NEW i \in Nat, NEW d \in 0..INPUT_BUF_SIZE, NEW m \in 0..d
    PROVE  Contents(b, (i + m) % UintMod, d - m, INPUT_BUF_SIZE)
             = SubSeq(Contents(b, i, d, INPUT_BUF_SIZE), m + 1, d)
BY ContentsRest, RingSizes, SMTT(30)

\* What is left of d bytes when k are taken.
LEMMA InputTaken ==
    ASSUME NEW b, NEW bb, NEW i \in Nat, NEW d \in 0..INPUT_BUF_SIZE, NEW k \in 0..d,
           Agree(b, bb, i, k + 1, d, INPUT_BUF_SIZE)
    PROVE  Contents(bb, (i + k) % UintMod, d - k, INPUT_BUF_SIZE)
             = SubSeq(Contents(b, i, d, INPUT_BUF_SIZE), k + 1, d)
BY ContentsGet, RingSizes

\* The ring from i to k is the ring from i to j followed by the ring from j to k.
LEMMA InputParts ==
    ASSUME NEW b \in [0..(INPUT_BUF_SIZE - 1) -> Key \cup {None}],
           NEW i \in Index, NEW j \in Index, NEW k \in Index,
           Minus(k, i) = Minus(j, i) + Minus(k, j), Minus(k, i) <= INPUT_BUF_SIZE
    PROVE  /\ Minus(j, i) \in 0..Minus(k, i) /\ Minus(k, i) \in 0..INPUT_BUF_SIZE
           /\ Contents(b, i, Minus(k, i), INPUT_BUF_SIZE) \in Seq(Key \cup {None})
           /\ Len(Contents(b, i, Minus(k, i), INPUT_BUF_SIZE)) = Minus(k, i)
           /\ Ring(b, i, j, INPUT_BUF_SIZE)
                = SubSeq(Contents(b, i, Minus(k, i), INPUT_BUF_SIZE), 1, Minus(j, i))
           /\ Ring(b, j, k, INPUT_BUF_SIZE)
                = SubSeq(Contents(b, i, Minus(k, i), INPUT_BUF_SIZE), Minus(j, i) + 1, Minus(k, i))
<1> DEFINE d == Minus(k, i)
           m == Minus(j, i)
           s == Contents(b, i, d, INPUT_BUF_SIZE)
<1>1. /\ d \in Nat /\ m \in Nat /\ Minus(k, j) \in Nat /\ Minus(k, j) = d - m
      /\ d \in 0..INPUT_BUF_SIZE /\ m \in 0..d /\ i \in Nat
  <2>1. d \in Nat /\ m \in Nat /\ Minus(k, j) \in Nat /\ i \in Nat
    BY MinusDist DEF Index
  <2> HIDE DEF d, m
  <2>2. d = m + Minus(k, j) /\ d <= INPUT_BUF_SIZE
    BY DEF d, m
  <2>3. QED
    BY <2>1, <2>2, Sizes
<1>2. j = (i + m) % UintMod
  BY PlusMinus DEF Plus
<1> HIDE DEF d, m
<1>0. Bytes(b, INPUT_BUF_SIZE, Key \cup {None})
  BY DEF Bytes
<1>3. s \in Seq(Key \cup {None}) /\ Len(s) = d
  BY <1>0, <1>1, ContentsSeq, RingSizes
<1>4. Contents(b, i, m, INPUT_BUF_SIZE) = SubSeq(s, 1, m)
  BY <1>1, <1>3, ContentsFirst
<1>5. Contents(b, (i + m) % UintMod, d - m, INPUT_BUF_SIZE) = SubSeq(s, m + 1, d)
  BY <1>1, InputRest, Zenon
<1>6. Ring(b, i, j, INPUT_BUF_SIZE) = Contents(b, i, m, INPUT_BUF_SIZE)
  BY DEF Ring, Contents, m
<1>7. Ring(b, j, k, INPUT_BUF_SIZE) = Contents(b, j, d - m, INPUT_BUF_SIZE)
  BY <1>1 DEF Ring, Contents
<1>8. QED
  BY <1>1, <1>2, <1>3, <1>4, <1>5, <1>6, <1>7 DEF d, m

\* The invariant says so of the two parts of the ring.
LEMMA StateParts ==
    ASSUME ConsoleInv
    PROVE  /\ Minus(w, r) \in 0..Minus(e, r) /\ Minus(e, r) \in 0..INPUT_BUF_SIZE
           /\ AllInput \in Seq(Key \cup {None}) /\ Len(AllInput) = Minus(e, r)
           /\ Lines = SubSeq(AllInput, 1, Minus(w, r))
           /\ EditLine = SubSeq(AllInput, Minus(w, r) + 1, Minus(e, r))
<1>1. /\ r \in Index /\ w \in Index /\ e \in Index
      /\ buf \in [0..(INPUT_BUF_SIZE - 1) -> Key \cup {None}]
      /\ Minus(e, r) = Minus(w, r) + Minus(e, w) /\ Minus(e, r) <= INPUT_BUF_SIZE
  BY DEF ConsoleInv, TypeOK, InputInv
<1>2. QED
  BY <1>1, InputParts DEF AllInput, Lines, EditLine

\* And after a step.
LEMMA NextParts ==
    ASSUME ConsoleInv'
    PROVE  /\ Lines' = SubSeq(AllInput', 1, Minus(w', r'))
           /\ EditLine' = SubSeq(AllInput', Minus(w', r') + 1, Minus(e', r'))
BY InputParts DEF ConsoleInv, TypeOK, InputInv, AllInput, Lines, EditLine

\* consoleintr() stores a character at the end of the line, and the line may become
\* complete by it.
LEMMA EchoStoreSimulates ==
    ASSUME ConsoleInv, ConsoleInv', EchoStore
    PROVE  \E c \in {"a", "nl", "D"} : Editor!Store(c)
<1> DEFINE d == Minus(e, r)
           m == Minus(w, r)
           N == INPUT_BUF_SIZE
           c == IF key = "cr" THEN "nl" ELSE key
           done == c \in {"nl", "D"} \/ Minus(e', r) = N
<1>1. /\ r \in Index /\ w \in Index /\ e \in Index /\ r \in Nat
      /\ buf \in [0..(N - 1) -> Key \cup {None}] /\ DOMAIN buf = 0..(N - 1)
  BY DEF ConsoleInv, TypeOK, Index
<1>2. c \in {"a", "nl", "D"} /\ c \in Key \cup {None} /\ d < N
  BY Names DEF EchoStore, ConsoleInv, TypeOK, LockInv, InputInv, Room, Key
<1>3. /\ r' = r /\ e' = Plus(e, 1) /\ buf' = Stored(buf, e % N, c)
      /\ w' = IF done THEN e' ELSE w
  BY DEF EchoStore, In, Stored, IsComplete
<1>4. /\ m \in 0..d /\ d \in 0..N /\ d \in Nat /\ N \in Nat
      /\ AllInput \in Seq(Key \cup {None}) /\ Len(AllInput) = d
      /\ Lines = SubSeq(AllInput, 1, m) /\ EditLine = SubSeq(AllInput, m + 1, d)
  BY StateParts, Sizes
<1>5. d + 1 < UintMod
  BY <1>2, <1>4, Sizes
<1>6. e' \in Index /\ Minus(e', r) = d + 1
  BY <1>1, <1>3, <1>5, MinusPut
<1>7. e = (r + d) % UintMod /\ d \in 0..(N - 1)
  BY <1>1, <1>2, <1>4, PlusMinus DEF Plus
<1> HIDE DEF d, m, c, N, done
<1>8. Contents(Stored(buf, e % N, c), r, d + 1, N) = Append(Contents(buf, r, d, N), c)
  BY <1>1, <1>7, ContentsPut, RingSizes DEF N
<1>9. AllInput' = Append(AllInput, c)
  BY <1>3, <1>6, <1>8 DEF AllInput, d, N
<1>10. /\ SubSeq(Append(AllInput, c), 1, m) = SubSeq(AllInput, 1, m)
       /\ SubSeq(Append(AllInput, c), m + 1, d + 1) = Append(SubSeq(AllInput, m + 1, d), c)
       /\ SubSeq(AllInput, 1, m) \o Append(SubSeq(AllInput, m + 1, d), c) = Append(AllInput, c)
  BY <1>2, <1>4, SubSeqAppend, ZenonT(40)
<1>11. /\ Lines' = SubSeq(Append(AllInput, c), 1, Minus(w', r))
       /\ EditLine' = SubSeq(Append(AllInput, c), Minus(w', r) + 1, d + 1)
  BY <1>3, <1>6, <1>9, NextParts
<1>12. Len(Lines) = m /\ Len(EditLine) = d - m
  <2>1. m \in Nat
    BY <1>4
  <2>2. \A x \in 1..d : AllInput[x] \in Key \cup {None}
    BY <1>4, ElementOfSeq
  <2>3. Len(SubSeq(AllInput, 1, m)) = IF 1 <= m THEN m - 1 + 1 ELSE 0
    <3>1. \A x \in 1..m : AllInput[x] \in Key \cup {None}
      BY <1>4, <2>2
    <3>2. QED
      BY <2>1, <3>1, SubSeqProperties
  <2>4. Len(SubSeq(AllInput, m + 1, d)) = IF m + 1 <= d THEN d - (m + 1) + 1 ELSE 0
    <3>1. \A x \in (m + 1)..d : AllInput[x] \in Key \cup {None}
      BY <1>4, <2>1, <2>2
    <3>2. QED
      BY <1>4, <2>1, <3>1, SubSeqProperties
  <2>5. QED
    BY <1>4, <2>1, <2>3, <2>4
<1>13. /\ INPUT_BUF_SIZE - Len(Lines) - Len(EditLine) = N - d
       /\ INPUT_BUF_SIZE - Len(Lines) - Len(EditLine) > 0
       /\ INPUT_BUF_SIZE - Len(Lines) - Len(EditLine) = 1 <=> Minus(e', r) = N
  <2>1. m \in Nat /\ Minus(e', r) = d + 1 /\ d < N
    BY <1>2, <1>4, <1>6
  <2>2. N - Len(Lines) - Len(EditLine) = N - d
    BY <1>4, <1>12, <2>1
  <2>3. N - d > 0 /\ (N - d = 1 <=> Minus(e', r) = N)
    BY <1>4, <2>1
  <2>4. QED
    BY <2>2, <2>3 DEF N
<1>14. CASE done
  <2>1. Minus(w', r) = d + 1
    BY <1>3, <1>6, <1>14
  <2>2. Append(AllInput, c) \in Seq(Key \cup {None}) /\ Len(Append(AllInput, c)) = d + 1
    BY <1>2, <1>4, AppendProperties
  <2>3. SubSeq(Append(AllInput, c), 1, d + 1) = Append(AllInput, c)
    BY <2>2, SubSeqFull
  <2>4. SubSeq(Append(AllInput, c), d + 1 + 1, d + 1) = <<>>
    BY <1>4, SubSeqEmpty
  <2>5. Lines' = Lines \o Append(EditLine, c) /\ EditLine' = <<>>
    BY <1>4, <1>10, <1>11, <2>1, <2>3, <2>4
  <2>6. Editor!Store(c)
    BY <1>13, <1>14, <2>5 DEF Editor!Store, Editor!Room, Lines, EditLine, done
  <2>7. QED
    BY <1>2, <2>6
<1>15. CASE ~done
  <2>1. Minus(w', r) = m
    BY <1>3, <1>15 DEF m
  <2>2. Lines' = Lines /\ EditLine' = Append(EditLine, c)
    BY <1>4, <1>10, <1>11, <2>1
  <2>3. Editor!Store(c)
    BY <1>13, <1>15, <2>2 DEF Editor!Store, Editor!Room, Lines, EditLine, done
  <2>4. QED
    BY <1>2, <2>3
<1>16. QED
  BY <1>14, <1>15

\* ^H and ^U erase the last character of the line that is edited, never one of a
\* complete line.
LEMMA EditSimulates ==
    ASSUME ConsoleInv, ConsoleInv', Edit
    PROVE  Editor!Erase \/ UNCHANGED <<Lines, EditLine>>
<1> DEFINE d == Minus(e, r)
           m == Minus(w, r)
           N == INPUT_BUF_SIZE
           V == Key \cup {None}
<1>1. /\ r \in Index /\ w \in Index /\ e \in Index /\ r \in Nat
      /\ buf \in [0..(N - 1) -> V] /\ DOMAIN buf = 0..(N - 1)
  BY DEF ConsoleInv, TypeOK, Index
<1>2. CASE ~Erases
  <2>1. buf' = buf /\ r' = r /\ w' = w /\ e' = e
    BY <1>2 DEF Edit
  <2>2. QED
    BY <2>1 DEF Lines, EditLine, Ring, Minus
<1>3. CASE Erases
  <2>1. /\ e # w /\ e' = Minus(e, 1) /\ buf' = Stored(buf, e' % N, None) /\ r' = r /\ w' = w
    BY <1>3 DEF Edit, Erases, In, Stored
  <2>2. /\ m \in 0..d /\ d \in 0..N /\ d \in Nat /\ N \in Nat
        /\ AllInput \in Seq(V) /\ Len(AllInput) = d
        /\ Lines = SubSeq(AllInput, 1, m) /\ EditLine = SubSeq(AllInput, m + 1, d)
    BY StateParts, Sizes
  <2>3. d = m + Minus(e, w) /\ Minus(e, w) \in Nat /\ Minus(e, w) # 0
    BY <1>1, <2>1, MinusDist, PlusMinus DEF ConsoleInv, InputInv, Index
  <2>4. m \in 0..(d - 1) /\ d - 1 \in 0..(N - 1) /\ d # 0
    <3> DEFINE k == Minus(e, w)
    <3>1. k \in Nat /\ k # 0 /\ d = m + k
      BY <2>3
    <3> HIDE DEF d, m, N, k
    <3>2. QED
      BY <2>2, <3>1
  <2>5. e # r
    BY <1>1, <2>4, PlusMinus
  <2>6. e' \in Index /\ Minus(e', r) = d - 1
    BY <1>1, <2>1, <2>5, MinusErase
  <2>7. e' = (r + (d - 1)) % UintMod
    BY <1>1, <2>6, PlusMinus DEF Plus
  <2> HIDE DEF d, m, N, V
  <2>8. Contents(Stored(buf, e' % N, None), r, d - 1, N) = Contents(buf, r, d - 1, N)
    BY <1>1, <2>4, <2>7, ContentsBehind, RingSizes DEF N
  <2>9. Contents(buf, r, d - 1, N) = SubSeq(Contents(buf, r, d, N), 1, d - 1)
    <3>1. d - 1 \in 0..d
      BY <2>2, <2>4
    <3>2. Contents(buf, r, d, N) \in Seq(V) /\ Len(Contents(buf, r, d, N)) = d
      BY <2>2 DEF AllInput, d, N
    <3>3. ASSUME NEW k \in 0..d
          PROVE  Contents(buf, r, k, N) = SubSeq(Contents(buf, r, d, N), 1, k)
      BY <2>2, <3>2, ContentsFirst
    <3>4. QED
      BY <3>1, <3>3, Zenon
  <2>10. AllInput' = SubSeq(AllInput, 1, d - 1)
    BY <2>1, <2>6, <2>8, <2>9 DEF AllInput, d, N
  <2>11. /\ Lines' = SubSeq(SubSeq(AllInput, 1, d - 1), 1, m)
         /\ EditLine' = SubSeq(SubSeq(AllInput, 1, d - 1), m + 1, d - 1)
    BY <2>1, <2>6, <2>10, NextParts DEF m
  <2>12. SubSeq(SubSeq(AllInput, 1, d - 1), 1, m) = SubSeq(AllInput, 1 + 1 - 1, 1 + m - 1)
    BY <2>2, <2>4, SubSeqTwice
  <2>13. SubSeq(SubSeq(AllInput, 1, d - 1), m + 1, d - 1)
           = SubSeq(AllInput, 1 + (m + 1) - 1, 1 + (d - 1) - 1)
    BY <2>2, <2>4, SubSeqTwice
  <2>14. SubSeq(SubSeq(AllInput, m + 1, d), 1, d - m - 1)
           = SubSeq(AllInput, (m + 1) + 1 - 1, (m + 1) + (d - m - 1) - 1)
    BY <2>2, <2>4, SubSeqTwice
  <2>15. /\ 1 + 1 - 1 = 1 /\ 1 + m - 1 = m /\ 1 + (m + 1) - 1 = m + 1 /\ 1 + (d - 1) - 1 = d - 1
         /\ (m + 1) + 1 - 1 = m + 1 /\ (m + 1) + (d - m - 1) - 1 = d - 1
    BY <2>2
  <2>16. Lines' = Lines /\ EditLine' = SubSeq(EditLine, 1, d - m - 1)
    BY <2>2, <2>11, <2>12, <2>13, <2>14, <2>15
  <2>17. Len(EditLine) = d - m
    <3>1. \A x \in (m + 1)..d : AllInput[x] \in V
      BY <2>2, ElementOfSeq
    <3>2. Len(SubSeq(AllInput, m + 1, d)) = IF m + 1 <= d THEN d - (m + 1) + 1 ELSE 0
      BY <2>2, <3>1, SubSeqProperties
    <3>3. QED
      BY <2>2, <2>4, <3>2
  <2>18. EditLine # <<>>
    <3>1. Len(EditLine) # 0
      BY <2>2, <2>4, <2>17
    <3>2. QED
      BY <3>1
  <2>19. QED
    BY <2>16, <2>17, <2>18 DEF Editor!Erase, Lines, EditLine
<1>4. QED
  BY <1>2, <1>3

\* consoleread() takes bytes of complete lines; it leaves the line that is edited, and
\* all that it did not take.
LEMMA ReadLoopSimulates ==
    ASSUME ConsoleInv, ConsoleInv', NEW p \in Reader, NEW bad, ReadLoop(p, bad)
    PROVE  (\E k \in 1..INPUT_BUF_SIZE : Editor!Get(k)) \/ UNCHANGED <<Lines, EditLine>>
<1> DEFINE d == Minus(e, r)
           m == Minus(w, r)
           N == INPUT_BUF_SIZE
           V == Key \cup {None}
           t == Takes(p, bad)
           k == IF (IF t = 0 THEN None ELSE Complete[t]) = "D" /\ got[p] + t > 1
                THEN t - 1 ELSE t
<1>1. /\ r \in Index /\ w \in Index /\ e \in Index /\ r \in Nat
      /\ buf \in [0..(N - 1) -> V] /\ DOMAIN buf = 0..(N - 1)
  BY DEF ConsoleInv, TypeOK, Index
<1>2. /\ m \in 0..d /\ d \in 0..N /\ d \in Nat /\ N \in Nat /\ N \in Nat \ {0}
      /\ AllInput \in Seq(V) /\ Len(AllInput) = d
      /\ Lines = SubSeq(AllInput, 1, m) /\ EditLine = SubSeq(AllInput, m + 1, d)
  BY StateParts, Sizes
<1>3. t \in 0..m
  BY TakesComplete DEF ConsoleInv
<1>4. k \in {t, t - 1} /\ (t = 0 => k = 0)
  <2>1. t = 0 => (IF t = 0 THEN None ELSE Complete[t]) # "D"
    BY Names DEF Key
  <2>2. QED
    BY <2>1
<1>5. /\ r' = Plus(r, k) /\ w' = w /\ e' = e
      /\ buf' = [i \in DOMAIN buf |->
                   IF \E j \in 1..k : i = In(r + j - 1) THEN None ELSE buf[i]]
  BY DEF ReadLoop
<1> HIDE DEF d, m, N, V, t, k
<1>6. k \in 0..m /\ k \in 0..d /\ m \in Nat
  BY <1>2, <1>3, <1>4
<1>7. Minus(w, r') = m - k /\ Minus(e, r') = d - k
  <2>1. Minus(w, Plus(r, k)) = m - k
    BY <1>1, <1>6, MinusGet DEF m
  <2>2. Minus(e, Plus(r, k)) = d - k
    BY <1>1, <1>6, MinusGet DEF d
  <2>3. QED
    BY <1>5, <2>1, <2>2
<1>8. Agree(buf, buf', r, k + 1, d, N)
  <2> SUFFICES ASSUME NEW i \in (k + 1)..d
               PROVE  buf'[(r + i - 1) % N] = buf[(r + i - 1) % N]
    BY DEF Agree
  <2>1. i \in Nat /\ i <= N /\ r + i - 1 \in Int
    BY <1>1, <1>2, <1>6
  <2>2. (r + i - 1) % N \in 0..(N - 1)
    BY <1>2, <2>1, DivMod, Zenon
  <2>3. ASSUME NEW j \in 1..k PROVE (r + i - 1) % N # In(r + j - 1)
    <3>1. /\ r + j - 1 \in Int /\ r + j - 1 < r + i - 1 /\ r + i - 1 < (r + j - 1) + N
      BY <1>1, <1>2, <1>6, <2>1
    <3>2. (r + j - 1) % N # (r + i - 1) % N
      BY <1>2, <2>1, <3>1, ModDistinct, Zenon
    <3>3. QED
      BY <3>2 DEF In, N
  <2>4. QED
    BY <1>1, <1>5, <2>2, <2>3
<1>9. Contents(buf', (r + k) % UintMod, d - k, N) = SubSeq(Contents(buf, r, d, N), k + 1, d)
  <2>1. r \in Nat /\ d \in 0..INPUT_BUF_SIZE /\ k \in 0..d
    BY <1>1, <1>2, <1>6 DEF N
  <2>2. Agree(buf, buf', r, k + 1, d, INPUT_BUF_SIZE)
    BY <1>8 DEF N
  <2>3. Contents(buf', (r + k) % UintMod, d - k, INPUT_BUF_SIZE)
          = SubSeq(Contents(buf, r, d, INPUT_BUF_SIZE), k + 1, d)
    BY <2>1, <2>2, InputTaken
  <2>4. QED
    BY <2>3 DEF N
<1>10. AllInput' = SubSeq(AllInput, k + 1, d)
  BY <1>5, <1>7, <1>9 DEF AllInput, d, N, Plus
<1>11. /\ Lines' = SubSeq(SubSeq(AllInput, k + 1, d), 1, m - k)
       /\ EditLine' = SubSeq(SubSeq(AllInput, k + 1, d), m - k + 1, d - k)
  BY <1>5, <1>7, <1>10, NextParts
<1>12. /\ k + 1 \in Nat /\ m - k \in Int /\ m - k + 1 \in Nat /\ d - k \in Int
       /\ k + 1 >= 1 /\ m - k + 1 >= 1
       /\ m - k <= d - (k + 1) + 1 /\ d - k <= d - (k + 1) + 1
       /\ (k + 1) + 1 - 1 = k + 1 /\ (k + 1) + (m - k) - 1 = m
       /\ (k + 1) + (m - k + 1) - 1 = m + 1 /\ (k + 1) + (d - k) - 1 = d
       /\ 1 + (k + 1) - 1 = k + 1 /\ 1 + m - 1 = m /\ m <= m - 1 + 1 /\ m <= d /\ d <= d
       /\ 1 \in Nat /\ 1 >= 1 /\ m \in Int
  BY <1>2, <1>6
<1>a. ASSUME NEW x \in Nat, NEW a \in Nat, NEW b \in Int, x >= 1, a >= 1, b <= d - x + 1
      PROVE  SubSeq(SubSeq(AllInput, x, d), a, b) = SubSeq(AllInput, x + a - 1, x + b - 1)
  BY <1>2, <1>12, <1>a, SubSeqTwice
<1>13. Lines' = SubSeq(AllInput, k + 1, m)
  <2>1. SubSeq(SubSeq(AllInput, k + 1, d), 1, m - k)
          = SubSeq(AllInput, (k + 1) + 1 - 1, (k + 1) + (m - k) - 1)
    BY <1>12, <1>a, Zenon
  <2>2. QED
    BY <1>11, <1>12, <2>1
<1>14. EditLine' = EditLine
  <2>1. SubSeq(SubSeq(AllInput, k + 1, d), m - k + 1, d - k)
          = SubSeq(AllInput, (k + 1) + (m - k + 1) - 1, (k + 1) + (d - k) - 1)
    BY <1>12, <1>a, Zenon
  <2>2. QED
    BY <1>2, <1>11, <1>12, <2>1
<1>15. Len(Lines) = m
  <2>1. \A x \in 1..m : AllInput[x] \in V
    BY <1>2, ElementOfSeq
  <2>2. Len(SubSeq(AllInput, 1, m)) = IF 1 <= m THEN m - 1 + 1 ELSE 0
    BY <1>6, <2>1, SubSeqProperties
  <2>3. QED
    BY <1>2, <1>6, <2>2
<1>16. SubSeq(Lines, k + 1, Len(Lines)) = SubSeq(AllInput, k + 1, m)
  <2>1. SubSeq(SubSeq(AllInput, 1, m), k + 1, m) = SubSeq(AllInput, 1 + (k + 1) - 1, 1 + m - 1)
    BY <1>2, <1>6, <1>12, SubSeqTwice
  <2>2. QED
    BY <1>2, <1>12, <1>15, <2>1
<1>17. Editor!Get(k)
  BY <1>6, <1>13, <1>14, <1>15, <1>16 DEF Editor!Get, Lines, EditLine
<1>18. CASE k = 0
  <2>1. SubSeq(AllInput, k + 1, m) = SubSeq(AllInput, 1, m)
    BY <1>18
  <2>2. QED
    BY <1>2, <1>13, <1>14, <2>1
<1>19. CASE k # 0
  <2>1. k \in 1..INPUT_BUF_SIZE
    BY <1>2, <1>6, <1>19 DEF N
  <2>2. QED
    BY <1>17, <2>1
<1>20. QED
  BY <1>18, <1>19

\* What is typed is read once and in order; only the line that is edited can be erased,
\* and a complete line is never overwritten.
THEOREM ConsoleImplementsLineEditor == Spec => ImplementsLineEditor
<1>1. Init => Editor!LInit
  <2> SUFFICES ASSUME Init PROVE Editor!LInit
    OBVIOUS
  <2>1. 0 \in Index
    BY Sizes DEF Index
  <2>2. Minus(0, 0) = 0
    BY <2>1, PlusMinus
  <2>3. Lines = <<>> /\ EditLine = <<>>
    BY <2>2 DEF Init, Lines, EditLine, Ring
  <2>4. QED
    BY <2>3 DEF Editor!LInit, Lines, EditLine
<1>2. ConsoleInv /\ ConsoleInv' /\ [Next]_vars => [Editor!LNext]_(Editor!lvars)
  <2> SUFFICES ASSUME ConsoleInv, ConsoleInv', [Next]_vars
               PROVE  Editor!LNext \/ UNCHANGED <<Lines, EditLine>>
    BY DEF Editor!lvars, Lines, EditLine
  <2>1. CASE EchoStore
    BY <2>1, EchoStoreSimulates DEF Editor!LNext
  <2>2. CASE Edit
    BY <2>2, EditSimulates DEF Editor!LNext
  <2>3. ASSUME NEW p \in Reader, NEW bad, ReadLoop(p, bad)
        PROVE  Editor!LNext \/ UNCHANGED <<Lines, EditLine>>
    BY <2>3, ReadLoopSimulates DEF Editor!LNext
  <2>4. CASE UNCHANGED <<buf, r, w, e>>
    BY <2>4 DEF Lines, EditLine, Ring, Minus
  <2>5. QED
    BY <2>1, <2>2, <2>3, <2>4 DEF Next, vars, Handler, ReaderStep, WriterStep, Uartstart, input,
       reader, output, Type, Transmit, Read, Kill, Write, WriteSleep, WritePut, StartTake,
       StartSend, StartDone, Intr, Getc, EchoWait, EchoErased, IntrStart, IntrTxLock
<1>3. QED
  BY <1>1, <1>2, ConsoleInvariant, PTL DEF Spec, ImplementsLineEditor, Editor!LSpec
=============================================================================
