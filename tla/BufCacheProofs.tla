--------------------------- MODULE BufCacheProofs ---------------------------
(***************************************************************************)
(* The buffer cache with its disk driver implements the block store; the   *)
(* reference counts are exact, every descriptor is accounted for, and no   *)
(* panic is reached but that of bget(), for any number of processes,       *)
(* buffers, descriptors and blocks.                                        *)
(*                                                                         *)
(* The inductive invariant follows a request on its way: the chain of its  *)
(* descriptors, the ring or the device that has it, and when the buffer is *)
(* the same as the block on the disk.                                      *)
(***************************************************************************)
EXTENDS BufCache, FiniteSetTheorems, SequenceTheorems, WellFoundedInduction, TLAPS

-----------------------------------------------------------------------------
(* Division.                                                                *)

\* What % and \div compute.
LEMMA DivMod ==
    ASSUME NEW x \in Int, NEW S \in Nat \ {0}
    PROVE  x % S \in 0..(S - 1) /\ x \div S \in Int /\ x = S * (x \div S) + (x % S)
BY Z3

\* They are determined by it.
LEMMA ModUnique ==
    ASSUME NEW S \in Nat \ {0}, NEW q \in Int, NEW m \in 0..(S - 1), NEW x \in Int,
           x = S * q + m
    PROVE  x % S = m
BY Z3

\* An index that has not wrapped.
LEMMA ModSmall == ASSUME NEW S \in Nat \ {0}, NEW x \in 0..(S - 1) PROVE x % S = x
BY Z3

\* One that has wrapped once.
LEMMA ModWrapped == ASSUME NEW S \in Nat \ {0}, NEW x \in S..(2 * S - 1) PROVE x % S = x - S
BY Z3

\* A full turn leads to the same place.
LEMMA ModTurns ==
    ASSUME NEW S \in Nat \ {0}, NEW x \in Int, NEW k \in Int
    PROVE  (x + S * k) % S = x % S
<1> DEFINE q == x \div S
           m == x % S
<1>1. q \in Int /\ m \in 0..(S - 1) /\ x = S * q + m
  BY DivMod
<1> HIDE DEF q, m
<1>2. q + k \in Int /\ x + S * k \in Int /\ x + S * k = S * (q + k) + m
  BY <1>1, Z3
<1>3. (x + S * k) % S = m
  BY <1>1, <1>2, ModUnique
<1>4. QED
  BY <1>3 DEF m

Divides(S, M) == M % S = 0

\* The place of an index does not depend on whether the index has wrapped.
LEMMA ModMod ==
    ASSUME NEW S \in Nat \ {0}, NEW M \in Nat \ {0}, Divides(S, M), NEW x \in Int, NEW y \in Int
    PROVE  ((x % M) + y) % S = (x + y) % S
<1> DEFINE q == x \div M
           m == x % M
           k == M \div S
<1>1. q \in Int /\ m \in Int /\ x = M * q + m
  <2>1. q \in Int /\ m \in 0..(M - 1) /\ x = M * q + m
    BY DivMod, Zenon
  <2>2. QED
    BY <2>1
<1>2. k \in Int /\ M = S * k
  BY DivMod DEF Divides
<1> HIDE DEF q, m, k
<1>3. k * q \in Int /\ m + y \in Int /\ x + y = (m + y) + S * (k * q)
  BY <1>1, <1>2, Z3
<1>4. (m + y) % S = (x + y) % S
  BY <1>3, ModTurns, ZenonT(40)
<1>5. QED
  BY <1>4 DEF m

\* A set of numbers has a least element.
LEMMA HasLeast ==
    ASSUME NEW T, T \subseteq Nat, T # {}
    PROVE  \E i \in T : \A j \in T : i <= j
<1>1. PICK i \in T : \A j \in T : <<j, i>> \notin OpToRel(<, Nat)
  BY NatLessThanWellFounded, WFMin, Zenon
<1>2. \A j \in T : ~(j < i)
  BY <1>1, Zenon DEF OpToRel
<1>3. QED
  BY <1>2

-----------------------------------------------------------------------------
(* Indices without %: the index k places on, and the places from rp to wp.  *)

Ahead(rp, k, M) == IF rp + k < M THEN rp + k ELSE rp + k - M
Dist(rp, wp, M) == IF rp <= wp THEN wp - rp ELSE wp + M - rp

\* The sum of an index and an offset, as the code computes it.
LEMMA ModAhead ==
    ASSUME NEW M \in Nat \ {0}, NEW rp \in 0..(M - 1), NEW k \in 0..M
    PROVE  (rp + k) % M = Ahead(rp, k, M)
<1>1. CASE rp + k < M
  BY <1>1, ModSmall DEF Ahead
<1>2. CASE rp + k >= M
  <2>1. rp + k \in M..(2 * M - 1)
    BY <1>2
  <2>2. (rp + k) % M = (rp + k) - M
    BY <2>1, ModWrapped, Zenon
  <2>3. QED
    BY <1>2, <2>2 DEF Ahead
<1>3. QED
  BY <1>1, <1>2

\* They are inverse to each other.
LEMMA AheadDist ==
    ASSUME NEW M \in Nat \ {0}, NEW rp \in 0..(M - 1), NEW wp \in 0..(M - 1)
    PROVE  /\ Dist(rp, wp, M) \in 0..(M - 1) /\ Ahead(rp, Dist(rp, wp, M), M) = wp
           /\ Dist(rp, wp, M) = 0 <=> rp = wp
           /\ \A k \in 0..(M - 1) : Dist(rp, Ahead(rp, k, M), M) = k
BY DEF Ahead, Dist

-----------------------------------------------------------------------------
(* Rings.                                                                   *)

IsRing(S, M) == S \in Nat \ {0} /\ M \in Nat \ {0} /\ Divides(S, M)
Stored(b, i, c) == [b EXCEPT ![i] = c]

-----------------------------------------------------------------------------
(* The state.                                                               *)

Index   == 0..(IdxMod - 1)
Request == {"iosleep", "iowait"}                     \* a request is under way
Disk    == {"alloc", "descsleep"} \cup Request       \* in virtio_disk_rw()
DescRec == [next : Desc \cup {None}, addr : Nat \cup {None}]
OpRec   == [write : BOOLEAN, sector : Block \cup {None}]
RingRec == [ring : [Desc -> Desc \cup {None}], idx : Index]

DiskTypes ==
    /\ free \subseteq Desc /\ desc \in [Desc -> DescRec] /\ ops \in [Desc -> OpRec]
    /\ info \in [Desc -> Buf \cup {None}] /\ status \in [Desc -> BOOLEAN]
    /\ owned \in [Buf -> BOOLEAN] /\ avail \in RingRec /\ used \in RingRec
    /\ usedIdx \in Index /\ seen \in Index /\ taken \subseteq Desc
    /\ data \in [Buf -> Val] /\ platter \in [Block -> Val]

CacheTypes ==
    /\ list \in [1..NBUF -> Buf] /\ \A b \in Buf : \E i \in 1..NBUF : list[i] = b
    /\ blockno \in [Buf -> Block \cup {None}] /\ valid \in [Buf -> BOOLEAN]
    /\ refcnt \in [Buf -> Int] /\ holder \in [Buf -> Proc \cup {None}] /\ pinned \subseteq Block

ProcTypes ==
    /\ pc \in [Proc -> {"idle", "lock", "locksleep", "brelse"} \cup Inside]
    /\ buf \in [Proc -> Buf \cup {None}] /\ head \in [Proc -> Desc \cup {None}]
    /\ wr \in [Proc -> BOOLEAN]

\* What a process has in each phase.
PhaseInv ==
    \A p \in Proc : /\ pc[p] = "idle" <=> buf[p] = None
                    /\ pc[p] \in Request <=> head[p] # None
                    /\ wr[p] => pc[p] \in Disk

\* The lock of a buffer is held from acquiresleep() to releasesleep().
LockInv == \A p \in Proc, b \in Buf : holder[b] = p <=> pc[p] \in Inside /\ buf[p] = b

\* No two buffers are for the same block; what is used, valid or pinned is for a block.
BlockInv ==
    /\ \A b, c \in Buf : blockno[b] = blockno[c] /\ blockno[b] # None => b = c
    /\ \A b \in Buf : valid[b] => blockno[b] # None
    /\ \A p \in Proc : buf[p] # None => blockno[buf[p]] # None
    /\ \A k \in pinned : \E b \in Buf : blockno[b] = k

\* bread() reads what is not valid, bwrite() writes what is.
ValidInv ==
    \A p \in Proc : /\ pc[p] \in {"have", "wrote"} \/ wr[p] => valid[buf[p]]
                    /\ pc[p] \in Disk /\ ~wr[p] => ~valid[buf[p]]

\* The descriptors of a request, and what they say.
Second(p) == desc[head[p]].next
Third(p)  == desc[Second(p)].next
Links(p)  == {head[p], Second(p), Third(p)}

WellFormed(p) ==
    /\ Second(p) \in Desc /\ Third(p) \in Desc
    /\ Second(p) # head[p] /\ Third(p) # head[p] /\ Third(p) # Second(p)
    /\ desc[Second(p)].addr = buf[p]
    /\ desc[Third(p)].addr = head[p] /\ desc[Third(p)].next = None
    /\ info[head[p]] = buf[p]
    /\ ops[head[p]].write = wr[p] /\ ops[head[p]].sector = Blk(p)

RequestInv == \A p \in Proc : head[p] # None => WellFormed(p)

\* A descriptor is free or belongs to one request.
LinkInv ==
    /\ \A p \in Proc : head[p] # None => Links(p) \cap free = {}
    /\ \A p, q \in Proc : head[p] # None /\ head[q] # None /\ p # q => Links(p) \cap Links(q) = {}
    /\ \A i \in Desc : i \in free \/ \E p \in Proc : head[p] # None /\ i \in Links(p)

\* The places of a ring from r to w, and no others, hold an entry; no two the same.
Kept(ring, r, w) ==
    /\ Dist(r, w, IdxMod) <= NUM
    /\ \A j \in Desc : ring[j] # None <=> Dist(r % NUM, j, NUM) < Dist(r, w, IdxMod)
    /\ \A i, j \in Desc : ring[i] = ring[j] /\ ring[i] # None => i = j

Queued(h)   == \E j \in Desc : avail.ring[j] = h
Finished(h) == \E j \in Desc : used.ring[j] = h

RingInv == Kept(avail.ring, seen, avail.idx) /\ Kept(used.ring, usedIdx, used.idx)

\* A request is waiting, with the device, finished, or seen by the handler.
StageInv ==
    /\ \A h \in Desc : Queued(h) \/ h \in taken \/ Finished(h)
                         <=> \E p \in Proc : head[p] = h /\ owned[buf[p]]
    /\ \A h \in Desc : /\ ~(Queued(h) /\ h \in taken) /\ ~(Queued(h) /\ Finished(h))
                       /\ ~(h \in taken /\ Finished(h))
    /\ \A h \in Desc : Finished(h) => status[h]

\* When a buffer is the same as its block.
Same(b) == data[b] = platter[blockno[b]]

DataInv ==
    /\ \A p \in Proc : pc[p] = "wrote" => Same(buf[p])
    /\ \A p \in Proc : head[p] # None /\ ~Queued(head[p]) /\ head[p] \notin taken => Same(buf[p])
    /\ \A b \in Buf : valid[b] /\ blockno[b] \notin pinned /\ ~(\E p \in Proc : buf[p] = b /\ wr[p])
                         => Same(b)

\* What the steps of the disk leave alone.
Outside == <<cacheVars, procVars, pinned, panicked>>

CacheInv ==
    /\ DiskTypes /\ CacheTypes /\ ProcTypes /\ PhaseInv /\ LockInv /\ BlockInv /\ ValidInv
    /\ RefcntExact /\ RequestInv /\ LinkInv /\ RingInv /\ StageInv /\ DataInv /\ NoPanic
-----------------------------------------------------------------------------
(* Constants and the functions they index.                                  *)

\* The size of the rings and the range of their indices.
LEMMA Sizes ==
    /\ NUM \in Nat \ {0} /\ IdxMod \in Nat \ {0} /\ NUM <= IdxMod /\ IsRing(NUM, IdxMod)
<1>1. NUM \in Nat \ {0} /\ IdxMod \in Nat \ {0} /\ IdxMod % NUM = 0
  BY DiskAssumption
<1>2. NUM <= IdxMod
  <2>1. CASE IdxMod < NUM
    <3>1. IdxMod \in 0..(NUM - 1)
      BY <1>1, <2>1
    <3>2. IdxMod % NUM = IdxMod
      BY <1>1, <3>1, ModSmall, Zenon
    <3>3. QED
      BY <1>1, <3>2
  <2>2. QED
    BY <1>1, <2>1
<1>3. QED
  BY <1>1, <1>2 DEF IsRing, Divides

\* None is nobody, no buffer, no descriptor and no block.
LEMMA Names ==
    /\ NBUF \in Nat /\ None \notin Buf /\ None \notin Desc /\ None \notin Block
    /\ None \notin Proc /\ Desc \subseteq Nat /\ Buf \subseteq Nat
BY DiskAssumption, CacheAssumption DEF Buf, Desc

\* The least of a set of descriptors is one of them.
LEMMA LeastIn == ASSUME NEW S, S \subseteq Desc, S # {} PROVE Least(S) \in S
<1>1. S \subseteq Nat
  BY Names
<1>2. \E x \in S : \A y \in S : x <= y
  BY <1>1, HasLeast
<1>3. QED
  BY <1>2 DEF Least

\* alloc3_desc() gets three different descriptors.
LEMMA ThreeFree ==
    ASSUME free \subseteq Desc, CanAlloc
    PROVE  LET d0 == Least(free)
               d1 == Least(free \ {d0})
               d2 == Least(free \ {d0, d1})
           IN  /\ d0 \in free /\ d1 \in free /\ d2 \in free
               /\ d0 # d1 /\ d0 # d2 /\ d1 # d2
<1> DEFINE d0 == Least(free)
           d1 == Least(free \ {d0})
           d2 == Least(free \ {d0, d1})
<1>1. IsFiniteSet(Desc)
  BY Sizes, FS_Interval DEF Desc
<1>2. IsFiniteSet(free) /\ Cardinality(free) \in Nat /\ Cardinality(free) >= 3
  BY <1>1, FS_Subset, FS_CardinalityType DEF CanAlloc
<1>3. free # {}
  BY <1>2, FS_EmptySet
<1>4. d0 \in free
  BY <1>3, LeastIn
<1> HIDE DEF d0
<1> DEFINE A == free \ {d0}
<1>5. IsFiniteSet(A) /\ Cardinality(A) = Cardinality(free) - 1
  BY <1>2, <1>4, FS_RemoveElement
<1>6. A # {} /\ A \subseteq Desc
  <2>1. A \subseteq Desc
    OBVIOUS
  <2> HIDE DEF A
  <2>2. A # {}
    BY <1>2, <1>5, FS_EmptySet
  <2>3. QED
    BY <2>1, <2>2
<1>7. d1 \in A
  BY <1>6, LeastIn
<1> HIDE DEF d1
<1> DEFINE B == A \ {d1}
<1> HIDE DEF A
<1>8. IsFiniteSet(B) /\ Cardinality(B) = Cardinality(A) - 1
  BY <1>5, <1>7, FS_RemoveElement
<1>9. B # {} /\ B \subseteq Desc
  <2>1. B \subseteq Desc
    BY <1>6
  <2> HIDE DEF B
  <2>2. B # {}
    BY <1>2, <1>5, <1>8, FS_EmptySet
  <2>3. QED
    BY <2>1, <2>2
<1>10. B = free \ {d0, d1}
  BY DEF A
<1>11. Least(B) \in B
  BY <1>9, LeastIn
<1>12. d2 \in B
  BY <1>10, <1>11
<1>13. QED
  BY <1>4, <1>7, <1>10, <1>12 DEF A, d0, d1, d2

\* bget() finds a buffer that nobody uses, if there is one.
LEMMA LruIs ==
    ASSUME list \in [1..NBUF -> Buf], Unused # {}
    PROVE  Lru \in Buf /\ refcnt[Lru] = 0
<1> DEFINE T == {NBUF - i : i \in Unused}
<1>1. Unused \subseteq 1..NBUF /\ NBUF \in Nat
  BY Names DEF Unused
<1>2. T \subseteq Nat /\ T # {}
  BY <1>1
<1>3. PICK m \in T : \A n \in T : m <= n
  BY <1>2, HasLeast
<1>4. PICK i \in Unused : m = NBUF - i
  OBVIOUS
<1>5. \A j \in Unused : NBUF - i <= NBUF - j
  BY <1>3, <1>4
<1>6. \A j \in Unused : j <= i
  BY <1>1, <1>5
<1> DEFINE c == CHOOSE k \in Unused : \A j \in Unused : j <= k
<1>7. c \in Unused
  BY <1>6
<1> HIDE DEF c
<1>8. c \in 1..NBUF /\ refcnt[list[c]] = 0
  BY <1>1, <1>7 DEF Unused
<1>9. Lru = list[c]
  BY DEF Lru, c
<1>10. QED
  BY <1>8, <1>9

\* brelse() moves a buffer to the front; no buffer is lost from the list.
LEMMA MovedIs ==
    ASSUME list \in [1..NBUF -> Buf], \A b \in Buf : \E i \in 1..NBUF : list[i] = b,
           NEW b \in Buf
    PROVE  /\ MovedToFront(b) \in [1..NBUF -> Buf]
           /\ \A c \in Buf : \E j \in 1..NBUF : MovedToFront(b)[j] = c
<1> DEFINE i == CHOOSE k \in DOMAIN list : list[k] = b
           new == [j \in 1..NBUF |-> IF j = 1 THEN b ELSE IF j <= i THEN list[j - 1] ELSE list[j]]
<1>1. NBUF \in Nat /\ DOMAIN list = 1..NBUF
  BY Names
<1>2. i \in 1..NBUF /\ list[i] = b
  BY <1>1
<1>3. MovedToFront(b) = new
  BY <1>1 DEF MovedToFront
<1> HIDE DEF i
<1>4. new \in [1..NBUF -> Buf]
  BY <1>1, <1>2
<1>5. ASSUME NEW c \in Buf PROVE \E j \in 1..NBUF : new[j] = c
  <2>1. PICK k \in 1..NBUF : list[k] = c
    OBVIOUS
  <2>2. CASE k = i
    <3>1. 1 \in 1..NBUF /\ new[1] = c
      BY <1>1, <1>2, <2>1, <2>2
    <3>2. QED
      BY <3>1
  <2>3. CASE k < i
    <3>1. k + 1 \in 1..NBUF /\ k + 1 # 1 /\ k + 1 <= i /\ (k + 1) - 1 = k
      BY <1>1, <1>2, <2>3
    <3>2. new[k + 1] = c
      BY <2>1, <3>1
    <3>3. QED
      BY <3>1, <3>2
  <2>4. CASE k > i
    <3>1. k # 1 /\ ~(k <= i)
      BY <1>1, <1>2, <2>4
    <3>2. new[k] = c
      BY <2>1, <3>1
    <3>3. QED
      BY <3>2
  <2>5. QED
    BY <1>1, <1>2, <2>2, <2>3, <2>4
<1>6. QED
  BY <1>3, <1>4, <1>5

-----------------------------------------------------------------------------
(* The rings.                                                               *)

NextIdx(i) == (i + 1) % IdxMod

\* The place of an index.
LEMMA PlaceIs ==
    ASSUME NEW r \in Index, NEW w \in Index, Dist(r, w, IdxMod) <= NUM
    PROVE  /\ r % NUM \in Desc /\ w % NUM \in Desc
           /\ w % NUM = Ahead(r % NUM, Dist(r, w, IdxMod), NUM)
           /\ Dist(r, w, IdxMod) \in Nat
<1> DEFINE d == Dist(r, w, IdxMod)
<1>1. d \in Nat /\ d \in 0..NUM /\ r \in Int /\ w \in Int /\ Ahead(r, d, IdxMod) = w
      /\ d \in 0..IdxMod
  BY Sizes, AheadDist DEF Index
<1>2. r % NUM \in 0..(NUM - 1)
  BY <1>1, Sizes, DivMod, Zenon
<1>3. w % NUM \in 0..(NUM - 1)
  BY <1>1, Sizes, DivMod, Zenon
<1> HIDE DEF d
<1>4. w = (r + d) % IdxMod
  <2>1. (r + d) % IdxMod = Ahead(r, d, IdxMod)
    BY <1>1, Sizes, ModAhead, Zenon DEF Index
  <2>2. QED
    BY <1>1, <2>1
<1>5. w % NUM = (r + d) % NUM
  <2>1. Divides(NUM, IdxMod) /\ r + d \in Int /\ 0 \in Int
    BY <1>1, Sizes DEF IsRing
  <2>2. (((r + d) % IdxMod) + 0) % NUM = ((r + d) + 0) % NUM
    BY <2>1, Sizes, ModMod, Zenon
  <2>3. w + 0 = w /\ (r + d) + 0 = r + d
    BY <1>1, <2>1
  <2>4. QED
    BY <1>4, <2>2, <2>3
<1>6. (r + d) % NUM = ((r % NUM) + d) % NUM
  <2>1. Divides(NUM, NUM) /\ d \in Int
    BY <1>1, Sizes DEF Divides
  <2>2. QED
    BY <1>1, <2>1, Sizes, ModMod, Zenon
<1>7. ((r % NUM) + d) % NUM = Ahead(r % NUM, d, NUM)
  BY <1>1, <1>2, Sizes, ModAhead, Zenon
<1>8. QED
  BY <1>1, <1>2, <1>3, <1>5, <1>6, <1>7 DEF d, Desc

\* A new entry goes to an empty place: there are more places than different entries.
LEMMA KeptPut ==
    ASSUME NEW ring \in [Desc -> Desc \cup {None}], NEW r \in Index, NEW w \in Index,
           Kept(ring, r, w), NEW h \in Desc, NEW g \in Desc, h # g,
           \A j \in Desc : ring[j] # h /\ ring[j] # g
    PROVE  /\ w % NUM \in Desc /\ ring[w % NUM] = None /\ NextIdx(w) \in Index
           /\ Kept(Stored(ring, w % NUM, h), r, NextIdx(w))
<1> DEFINE d == Dist(r, w, IdxMod)
           x == r % NUM
           y == w % NUM
           z == (w + 1) % IdxMod
<1>1. /\ d \in Nat /\ d <= NUM /\ x \in Desc /\ y \in Desc /\ y = Ahead(x, d, NUM)
      /\ \A j \in Desc : ring[j] # None <=> Dist(x, j, NUM) < d
      /\ \A i, j \in Desc : ring[i] = ring[j] /\ ring[i] # None => i = j
  BY PlaceIs DEF Kept
<1>2. z = Ahead(w, 1, IdxMod) /\ z \in Index
  <2>1. 1 \in 0..IdxMod
    BY Sizes
  <2>2. z = Ahead(w, 1, IdxMod)
    BY <2>1, Sizes, ModAhead, Zenon DEF Index
  <2>3. QED
    BY <2>2, Sizes DEF Ahead, Index
<1> HIDE DEF d, x, y, z
<1>3. d + 1 < NUM
  <2> SUFFICES ASSUME d + 1 >= NUM PROVE FALSE
    BY <1>1, Sizes
  <2> DEFINE S == Desc \ {y}
             T == Desc \ {h, g}
             f == [j \in S |-> ring[j]]
  <2>1. \A j \in S : Dist(x, j, NUM) < d
    BY <1>1, Sizes DEF Desc, Dist, Ahead
  <2>2. f \in [S -> T]
    BY <1>1, <2>1
  <2>3. IsFiniteSet(Desc) /\ Cardinality(Desc) = NUM
    BY Sizes, FS_Interval DEF Desc
  <2>4. IsFiniteSet(S) /\ Cardinality(S) = NUM - 1
    BY <1>1, <2>3, FS_RemoveElement
  <2>5. IsFiniteSet(T) /\ Cardinality(T) = NUM - 2
    <3> DEFINE U == Desc \ {h}
    <3>1. IsFiniteSet(U) /\ Cardinality(U) = NUM - 1 /\ g \in U
      BY <2>3, FS_RemoveElement
    <3>2. T = U \ {g}
      OBVIOUS
    <3> HIDE DEF U, T
    <3>3. Cardinality(U \ {g}) = (NUM - 1) - 1 /\ IsFiniteSet(U \ {g})
      BY <3>1, FS_RemoveElement
    <3>4. QED
      BY <3>2, <3>3, Sizes
  <2> HIDE DEF S, T, f
  <2>6. \E i, j \in S : i # j /\ f[i] = f[j]
    <3>1. Cardinality(T) < Cardinality(S)
      BY <2>4, <2>5, Sizes
    <3>2. QED
      BY ONLY <2>2, <2>4, <2>5, <3>1, FS_PigeonHole
  <2>7. PICK i \in S, j \in S : i # j /\ ring[i] = ring[j]
    BY <2>6 DEF f
  <2>8. QED
    BY <1>1, <2>1, <2>7 DEF S
<1>4. Dist(x, y, NUM) = d /\ \A j \in Desc : Dist(x, j, NUM) = d => j = y
  BY <1>1, <1>3, Sizes DEF Desc, Dist, Ahead
<1>5. Dist(r, z, IdxMod) = d + 1
  BY <1>2, <1>3, Sizes DEF d, Dist, Ahead, Index
<1>6. ring[y] = None
  BY <1>1, <1>4
<1> DEFINE new == [ring EXCEPT ![y] = h]
<1>7. \A j \in Desc : new[j] = IF j = y THEN h ELSE ring[j]
  BY <1>1
<1> HIDE DEF new
<1>8. \A j \in Desc : Dist(x, j, NUM) \in Nat
  BY <1>1, Sizes DEF Desc, Dist
<1>9. \A j \in Desc : Dist(x, j, NUM) < d + 1 <=> Dist(x, j, NUM) < d \/ j = y
  BY <1>1, <1>4, <1>8
<1>10. \A j \in Desc : new[j] # None <=> Dist(x, j, NUM) < d + 1
  BY <1>1, <1>7, <1>9, Names
<1>11. \A i, j \in Desc : new[i] = new[j] /\ new[i] # None => i = j
  BY <1>1, <1>7
<1>12. Kept(new, r, z)
  <2>1. d + 1 <= NUM
    BY <1>1, <1>3, Sizes
  <2>2. QED
    BY <1>5, <1>10, <1>11, <2>1 DEF Kept, x
<1>13. QED
  BY <1>1, <1>2, <1>6, <1>12 DEF new, y, z, Stored, NextIdx

\* The oldest entry is taken, and its place is empty then.
LEMMA KeptGet ==
    ASSUME NEW ring \in [Desc -> Desc \cup {None}], NEW r \in Index, NEW w \in Index,
           Kept(ring, r, w), r # w
    PROVE  /\ r % NUM \in Desc /\ ring[r % NUM] \in Desc /\ NextIdx(r) \in Index
           /\ Kept(Stored(ring, r % NUM, None), NextIdx(r), w)
<1> DEFINE d == Dist(r, w, IdxMod)
           x == r % NUM
           s == (r + 1) % IdxMod
           y == s % NUM
<1>1. /\ d \in Nat /\ d <= NUM /\ x \in Desc
      /\ \A j \in Desc : ring[j] # None <=> Dist(x, j, NUM) < d
      /\ \A i, j \in Desc : ring[i] = ring[j] /\ ring[i] # None => i = j
  BY PlaceIs DEF Kept
<1>2. s = Ahead(r, 1, IdxMod) /\ s \in Index
  <2>1. 1 \in 0..IdxMod
    BY Sizes
  <2>2. s = Ahead(r, 1, IdxMod)
    BY <2>1, Sizes, ModAhead, Zenon DEF Index
  <2>3. QED
    BY <2>2, Sizes DEF Ahead, Index
<1>3. y \in Desc /\ y = Ahead(x, 1, NUM)
  <2>1. Dist(r, s, IdxMod) = 1 \/ IdxMod = 1
    BY <1>2, Sizes DEF Ahead, Dist, Index
  <2>2. CASE Dist(r, s, IdxMod) = 1
    <3>1. Dist(r, s, IdxMod) <= NUM
      BY <2>2, Sizes
    <3>2. QED
      BY <1>2, <2>2, <3>1, PlaceIs
  <2>3. CASE IdxMod = 1
    BY <2>3, Sizes DEF Index
  <2>4. QED
    BY <2>1, <2>2, <2>3
<1>4. d >= 1 /\ Dist(s, w, IdxMod) = d - 1
  BY <1>2, Sizes DEF d, Dist, Ahead, Index
<1> HIDE DEF d, x, s, y
<1>5. \A j \in Desc : Dist(y, j, NUM) < d - 1 <=> Dist(x, j, NUM) < d /\ j # x
  BY <1>1, <1>3, <1>4, Sizes DEF Desc, Dist, Ahead
<1>6. Dist(x, x, NUM) = 0
  BY <1>1, Sizes DEF Desc, Dist
<1>7. ring[x] \in Desc
  BY <1>1, <1>4, <1>6
<1> DEFINE new == [ring EXCEPT ![x] = None]
<1>8. \A j \in Desc : new[j] = IF j = x THEN None ELSE ring[j]
  BY <1>1
<1> HIDE DEF new
<1>9. \A j \in Desc : new[j] # None <=> Dist(y, j, NUM) < d - 1
  BY <1>1, <1>5, <1>8
<1>10. \A i, j \in Desc : new[i] = new[j] /\ new[i] # None => i = j
  BY <1>1, <1>8
<1>11. Kept(new, s, w)
  <2>1. d - 1 <= NUM
    BY <1>1, <1>4, Sizes
  <2>2. QED
    BY <1>4, <1>9, <1>10, <2>1 DEF Kept, y
<1>12. QED
  BY <1>1, <1>2, <1>7, <1>11 DEF new, x, s, Stored, NextIdx

-----------------------------------------------------------------------------
(* The steps of the driver and of the device, in terms of requests.         *)

\* A process with a buffer has a block; one with a request has a descriptor.
LEMMA HasBlock ==
    ASSUME CacheTypes, ProcTypes, PhaseInv, BlockInv, NEW p \in Proc
    PROVE  /\ pc[p] # "idle" => buf[p] \in Buf /\ Blk(p) \in Block
           /\ pc[p] \in Request => head[p] \in Desc
<1>1. ASSUME pc[p] # "idle" PROVE buf[p] \in Buf /\ Blk(p) \in Block
  <2>1. buf[p] # None
    BY <1>1 DEF PhaseInv
  <2>2. buf[p] \in Buf
    BY <2>1 DEF ProcTypes
  <2>3. blockno[buf[p]] # None
    BY <2>1 DEF BlockInv
  <2>4. QED
    BY <2>2, <2>3 DEF CacheTypes, Blk
<1>2. ASSUME pc[p] \in Request PROVE head[p] \in Desc
  BY <1>2 DEF PhaseInv, ProcTypes
<1>3. QED
  BY <1>1, <1>2

\* The head of a request is neither free nor in a link of another one, nor an inner link.
LEMMA HeadsApart ==
    ASSUME ProcTypes, RequestInv, LinkInv, NEW p \in Proc, head[p] # None
    PROVE  /\ head[p] \in Desc /\ head[p] \notin free
           /\ \A q \in Proc : head[q] = head[p] => q = p
           /\ \A q \in Proc : head[q] # None => Second(q) # head[p] /\ Third(q) # head[p]
           /\ \A q \in Proc : head[q] # None /\ q # p =>
                 Second(q) # Second(p) /\ Third(q) # Second(p) /\ Third(q) # Third(p)
<1>1. \A q \in Proc :
         head[q] # None => head[q] \in Links(q) /\ Second(q) \in Links(q) /\ Third(q) \in Links(q)
  BY DEF Links
<1>2. head[p] \in Desc /\ head[p] \notin free
  BY <1>1 DEF ProcTypes, LinkInv
<1>3. ASSUME NEW q \in Proc, head[q] # None, q # p, NEW i \in Links(p), NEW j \in Links(q)
      PROVE  i # j
  BY <1>3 DEF LinkInv
<1>4. ASSUME NEW q \in Proc, head[q] # None
      PROVE  Second(q) # head[p] /\ Third(q) # head[p] /\ (head[q] = head[p] => q = p)
  <2>1. CASE q = p
    BY <2>1, <1>4 DEF RequestInv, WellFormed
  <2>2. CASE q # p
    BY <1>1, <1>3, <1>4, <2>2
  <2>3. QED
    BY <2>1, <2>2
<1>5. ASSUME NEW q \in Proc, head[q] # None, q # p
      PROVE  Second(q) # Second(p) /\ Third(q) # Second(p) /\ Third(q) # Third(p)
  BY <1>1, <1>3, <1>5
<1>6. QED
  BY <1>2, <1>4, <1>5

\* What is in a ring or with the device is the head of a request.
LEMMA EntryHasOwner ==
    ASSUME ProcTypes, StageInv, NEW h \in Desc, Queued(h) \/ h \in taken \/ Finished(h)
    PROVE  \E p \in Proc : head[p] = h /\ owned[buf[p]]
BY DEF StageInv

\* virtio_disk_rw(): the three descriptors, and what is written to them.
LEMMA SubmitIs ==
    ASSUME DiskTypes, CacheTypes, ProcTypes, PhaseInv, BlockInv, NEW p \in Proc, DiskStart(p)
    PROVE  \E a, b, c \in free :
              /\ a # b /\ a # c /\ b # c /\ free' = free \ {a, b, c}
              /\ head' = [head EXCEPT ![p] = a]
              /\ desc' \in [Desc -> DescRec] /\ ops' \in [Desc -> OpRec]
              /\ desc'[a].next = b /\ desc'[b].next = c /\ desc'[c].next = None
              /\ desc'[b].addr = buf[p] /\ desc'[c].addr = a
              /\ \A i \in Desc \ {a, b, c} : desc'[i] = desc[i]
              /\ ops'[a].write = wr[p] /\ ops'[a].sector = Blk(p)
              /\ \A i \in Desc \ {a} : ops'[i] = ops[i]
              /\ info' = [info EXCEPT ![a] = buf[p]] /\ status' = [status EXCEPT ![a] = FALSE]
              /\ owned' = [owned EXCEPT ![buf[p]] = TRUE]
              /\ avail'.ring = Stored(avail.ring, avail.idx % NUM, a)
              /\ avail'.idx = NextIdx(avail.idx)
              /\ avail' = [ring |-> avail'.ring, idx |-> avail'.idx]
<1> DEFINE a == Least(free)
           b == Least(free \ {a})
           c == Least(free \ {a, b})
<1>1. pc[p] = "alloc" /\ CanAlloc /\ free \subseteq Desc
  BY DEF DiskStart, DiskTypes
<1>2. a \in free /\ b \in free /\ c \in free /\ a # b /\ a # c /\ b # c
  BY <1>1, ThreeFree
<1>3. buf[p] \in Buf /\ Blk(p) \in Block /\ wr[p] \in BOOLEAN
  BY <1>1, HasBlock DEF ProcTypes
<1>4. /\ free' = free \ {a, b, c} /\ head' = [head EXCEPT ![p] = a]
      /\ ops' = [ops EXCEPT ![a] = [write |-> wr[p], sector |-> Blk(p)]]
      /\ desc' = [desc EXCEPT ![a] = [next |-> b, addr |-> a], ![b] = [next |-> c, addr |-> buf[p]],
                              ![c] = [next |-> None, addr |-> a]]
      /\ info' = [info EXCEPT ![a] = buf[p]] /\ status' = [status EXCEPT ![a] = FALSE]
      /\ owned' = [owned EXCEPT ![buf[p]] = TRUE]
      /\ avail' = [ring |-> Stored(avail.ring, avail.idx % NUM, a),
                   idx  |-> NextIdx(avail.idx)]
  BY DEF DiskStart, Submit, Stored, NextIdx
<1> HIDE DEF a, b, c
<1>5. a \in Desc /\ b \in Desc /\ c \in Desc /\ a \in Nat /\ buf[p] \in Nat
  BY <1>1, <1>2, <1>3, Names
<1>6. /\ [next |-> b, addr |-> a] \in DescRec /\ [next |-> c, addr |-> buf[p]] \in DescRec
      /\ [next |-> None, addr |-> a] \in DescRec /\ [write |-> wr[p], sector |-> Blk(p)] \in OpRec
  BY <1>3, <1>5 DEF DescRec, OpRec
<1>7. desc' \in [Desc -> DescRec] /\ ops' \in [Desc -> OpRec]
  BY <1>4, <1>5, <1>6 DEF DiskTypes
<1>8. /\ desc'[a] = [next |-> b, addr |-> a] /\ desc'[b] = [next |-> c, addr |-> buf[p]]
      /\ desc'[c] = [next |-> None, addr |-> a] /\ \A i \in Desc \ {a, b, c} : desc'[i] = desc[i]
      /\ ops'[a] = [write |-> wr[p], sector |-> Blk(p)] /\ \A i \in Desc \ {a} : ops'[i] = ops[i]
  BY <1>2, <1>4, <1>5 DEF DiskTypes
<1>9. /\ desc'[a].next = b /\ desc'[b].next = c /\ desc'[c].next = None
      /\ desc'[b].addr = buf[p] /\ desc'[c].addr = a
      /\ ops'[a].write = wr[p] /\ ops'[a].sector = Blk(p)
  BY <1>8
<1>10. /\ avail'.ring = Stored(avail.ring, avail.idx % NUM, a)
       /\ avail'.idx = NextIdx(avail.idx)
       /\ avail' = [ring |-> avail'.ring, idx |-> avail'.idx]
  BY <1>4
<1>11. QED
  BY <1>2, <1>4, <1>7, <1>8, <1>9, <1>10

\* The new request is in the ring, where it has not overwritten another one.
LEMMA SubmitQueues ==
    ASSUME DiskTypes, ProcTypes, LinkInv, RequestInv, RingInv, StageInv,
           NEW a \in free, NEW b \in free, a # b,
           avail'.ring = Stored(avail.ring, avail.idx % NUM, a),
           avail'.idx = NextIdx(avail.idx), seen' = seen
    PROVE  /\ avail'.ring \in [Desc -> Desc \cup {None}] /\ avail'.idx \in Index
           /\ Kept(avail.ring, seen, avail.idx)'
           /\ \A h \in Desc : Queued(h)' <=> Queued(h) \/ h = a
<1> DEFINE ring == avail.ring
           w == avail.idx
<1>1. /\ ring \in [Desc -> Desc \cup {None}] /\ w \in Index /\ seen \in Index
      /\ a \in Desc /\ b \in Desc /\ Kept(ring, seen, w)
  BY DEF DiskTypes, RingRec, RingInv
<1>2. ASSUME NEW j \in Desc, NEW d \in free PROVE ring[j] # d
  <2>1. d \in Desc
    BY DEF DiskTypes
  <2>2. SUFFICES ASSUME Queued(d) PROVE FALSE
    BY DEF Queued
  <2>3. PICK p \in Proc : head[p] = d
    BY <2>1, <2>2, EntryHasOwner
  <2>4. head[p] # None
    BY <2>1, <2>3, Names
  <2>5. QED
    BY <2>3, <2>4, HeadsApart
<1>3. \A j \in Desc : ring[j] # a /\ ring[j] # b
  BY <1>2
<1> HIDE DEF ring, w
<1>4. /\ w % NUM \in Desc /\ ring[w % NUM] = None /\ NextIdx(w) \in Index
      /\ Kept(Stored(ring, w % NUM, a), seen, NextIdx(w))
  <2>1. w % NUM \in Desc /\ ring[w % NUM] = None
    BY <1>1, <1>3, KeptPut
  <2>2. NextIdx(w) \in Index
    BY <1>1, <1>3, KeptPut
  <2>3. Kept(Stored(ring, w % NUM, a), seen, NextIdx(w))
    BY <1>1, <1>3, KeptPut
  <2>4. QED
    BY <2>1, <2>2, <2>3
<1>5. avail'.ring = Stored(ring, w % NUM, a) /\ avail'.idx = NextIdx(w)
  BY DEF ring, w
<1>6. Kept(avail.ring, seen, avail.idx)'
  <2>1. Kept(avail'.ring, seen', avail'.idx)
    BY <1>4, <1>5
  <2>2. QED
    BY <2>1 DEF Kept
<1>7. \A j \in Desc : avail'.ring[j] = IF j = w % NUM THEN a ELSE ring[j]
  BY <1>1, <1>4, <1>5 DEF Stored
<1>8. avail'.ring \in [Desc -> Desc \cup {None}] /\ avail'.idx \in Index
  BY <1>1, <1>4, <1>5 DEF Stored
<1>9. ASSUME NEW h \in Desc PROVE Queued(h)' <=> Queued(h) \/ h = a
  <2>1. h # None
    BY Names
  <2>2. (\E j \in Desc : avail'.ring[j] = h) <=> (\E j \in Desc : ring[j] = h) \/ h = a
    BY <1>4, <1>7, <2>1
  <2>3. QED
    BY <2>2 DEF Queued, ring
<1>10. QED
  BY <1>6, <1>8, <1>9

\* A finished request's process has a buffer with a block, and is its only owner.
LEMMA OwnerIs ==
    ASSUME CacheTypes, ProcTypes, PhaseInv, BlockInv, RequestInv, NEW q \in Proc, head[q] # None
    PROVE  /\ buf[q] \in Buf /\ Blk(q) \in Block /\ head[q] \in Desc
           /\ info[head[q]] = buf[q] /\ pc[q] \in Request
<1>1. pc[q] \in Request /\ info[head[q]] = buf[q]
  BY DEF PhaseInv, RequestInv, WellFormed
<1>2. pc[q] # "idle"
  BY <1>1 DEF Request
<1>3. QED
  BY <1>1, <1>2, HasBlock

\* The rest of virtio_disk_rw() frees the request's three descriptors, which were not free.
LEMMA FinishIs ==
    ASSUME DiskTypes, CacheTypes, ProcTypes, PhaseInv, BlockInv, RequestInv, LinkInv,
           NEW p \in Proc, DiskFinish(p)
    PROVE  /\ pc[p] = "iowait" /\ head[p] \in Desc /\ Links(p) \subseteq Desc
           /\ free' = free \cup Links(p)
           /\ desc' \in [Desc -> DescRec] /\ ops' \in [Desc -> OpRec]
           /\ \A i \in Desc \ Links(p) : desc'[i] = desc[i]
           /\ \A i \in Desc \ {head[p]} : ops'[i] = ops[i]
           /\ info' = [info EXCEPT ![head[p]] = None]
           /\ status' = [status EXCEPT ![head[p]] = FALSE]
           /\ panicked' = None
<1>1. pc[p] = "iowait" /\ head[p] # None
  BY DEF DiskFinish, PhaseInv, Request
<1>2. head[p] \in Desc /\ Second(p) \in Desc /\ Third(p) \in Desc
  BY <1>1, OwnerIs DEF RequestInv, WellFormed
<1>3. Chain(head[p]) = Links(p)
  <2>1. Second(p) # None /\ Third(p) # None
    BY <1>2, Names
  <2>2. QED
    BY <2>1 DEF Chain, Links, Second, Third
<1>4. Links(p) \subseteq Desc /\ Links(p) \cap free = {}
  <2>1. Links(p) \subseteq Desc
    BY <1>2 DEF Links
  <2>2. QED
    BY <1>1, <2>1 DEF LinkInv
<1>5. /\ free' = free \cup Links(p)
      /\ desc' = [j \in Desc |-> IF j \in Links(p) THEN Blank ELSE desc[j]]
      /\ info' = [info EXCEPT ![head[p]] = None]
      /\ ops' = [ops EXCEPT ![head[p]] = NoOp] /\ status' = [status EXCEPT ![head[p]] = FALSE]
      /\ panicked' = IF Links(p) \cap free # {} THEN "free_desc" ELSE None
  BY <1>3 DEF DiskFinish, FreeChain, PanicIf
<1>6. Blank \in DescRec /\ NoOp \in OpRec
  BY DEF Blank, NoOp, DescRec, OpRec
<1>7. desc' \in [Desc -> DescRec] /\ \A i \in Desc \ Links(p) : desc'[i] = desc[i]
  <2>1. desc \in [Desc -> DescRec]
    BY DEF DiskTypes
  <2> HIDE DEF Links
  <2>2. QED
    BY <1>5, <1>6, <2>1
<1>8. ops' \in [Desc -> OpRec] /\ \A i \in Desc \ {head[p]} : ops'[i] = ops[i]
  <2>1. ops \in [Desc -> OpRec]
    BY DEF DiskTypes
  <2>2. QED
    BY <1>2, <1>5, <1>6, <2>1
<1>9. QED
  BY <1>1, <1>2, <1>4, <1>5, <1>7, <1>8

\* A turn of the handler's loop is for a request that the device has finished.
LEMMA EntryIs ==
    ASSUME DiskTypes, CacheTypes, ProcTypes, PhaseInv, BlockInv, RequestInv, RingInv, StageInv,
           HandleEntry
    PROVE  \E q \in Proc :
              /\ head[q] \in Desc /\ buf[q] \in Buf /\ owned[buf[q]] /\ Finished(head[q])
              /\ owned' = [owned EXCEPT ![buf[q]] = FALSE]
              /\ pc' = Woken(pc, "iosleep", "iowait", OnBuf(buf[q]))
              /\ panicked' = None /\ usedIdx' \in Index /\ used' \in RingRec
              /\ Kept(used.ring, usedIdx, used.idx)'
              /\ \A h \in Desc : Finished(h)' <=> Finished(h) /\ h # head[q]
<1> DEFINE ring == used.ring
           r == usedIdx
           w == used.idx
           h == NextUsed
<1>1. /\ ring \in [Desc -> Desc \cup {None}] /\ w \in Index /\ r \in Index
      /\ Kept(ring, r, w) /\ used = [ring |-> ring, idx |-> w]
  BY DEF DiskTypes, RingRec, RingInv
<1>2. /\ r # w /\ h = ring[r % NUM]
      /\ used' = [ring |-> Stored(ring, r % NUM, None), idx |-> w] /\ usedIdx' = NextIdx(r)
      /\ owned' = [owned EXCEPT ![info[h]] = FALSE]
      /\ panicked' = IF ~status[h] THEN "status" ELSE None
      /\ pc' = Woken(pc, "iosleep", "iowait", OnBuf(info[h]))
  BY <1>1 DEF HandleEntry, IntrEntry, NextUsed, PanicIf, Stored, NextIdx
<1>3. used'.ring = Stored(ring, r % NUM, None) /\ used'.idx = w
  BY <1>2
<1> HIDE DEF ring, r, w, h
<1>4. /\ r % NUM \in Desc /\ ring[r % NUM] \in Desc /\ NextIdx(r) \in Index
      /\ Kept(Stored(ring, r % NUM, None), NextIdx(r), w)
  <2>1. r % NUM \in Desc /\ ring[r % NUM] \in Desc /\ NextIdx(r) \in Index
    BY <1>1, <1>2, KeptGet
  <2>2. Kept(Stored(ring, r % NUM, None), NextIdx(r), w)
    BY <1>1, <1>2, KeptGet
  <2>3. QED
    BY <2>1, <2>2
<1>5. Finished(h) /\ h \in Desc /\ status[h]
  <2>1. Finished(h) /\ h \in Desc
    BY <1>2, <1>4 DEF Finished, ring
  <2>2. QED
    BY <2>1 DEF StageInv
<1>6. PICK q \in Proc : head[q] = h /\ owned[buf[q]]
  BY <1>5, EntryHasOwner
<1>7. buf[q] \in Buf /\ info[h] = buf[q]
  BY <1>5, <1>6, OwnerIs, Names
<1>8. Kept(used.ring, usedIdx, used.idx)'
  <2>1. Kept(used'.ring, usedIdx', used'.idx)
    BY <1>2, <1>3, <1>4
  <2>2. QED
    BY <2>1 DEF Kept
<1>9. \A j \in Desc : used'.ring[j] = IF j = r % NUM THEN None ELSE ring[j]
  BY <1>1, <1>3, <1>4 DEF Stored
<1>10. \A i, j \in Desc : ring[i] = ring[j] /\ ring[i] # None => i = j
  BY <1>1 DEF Kept
<1>11. ASSUME NEW g \in Desc PROVE Finished(g)' <=> Finished(g) /\ g # h
  <2>1. g # None
    BY Names
  <2>2. (\E j \in Desc : used'.ring[j] = g) <=> (\E j \in Desc : ring[j] = g) /\ g # h
    BY <1>2, <1>4, <1>9, <1>10, <2>1
  <2>3. QED
    BY <2>2 DEF Finished, ring
<1>12. used' \in RingRec
  <2>1. Stored(ring, r % NUM, None) \in [Desc -> Desc \cup {None}]
    BY <1>1, <1>4 DEF Stored
  <2>2. QED
    BY <1>1, <1>2, <2>1 DEF RingRec
<1>13. QED
  BY <1>2, <1>4, <1>5, <1>6, <1>7, <1>8, <1>11, <1>12

\* The device takes a request that waits in the ring.
LEMMA TakeIs ==
    ASSUME DiskTypes, RingInv, DeviceTake
    PROVE  \E h \in Desc :
              /\ Queued(h) /\ taken' = taken \cup {h} /\ seen' \in Index /\ avail' \in RingRec
              /\ Kept(avail.ring, seen, avail.idx)'
              /\ \A g \in Desc : Queued(g)' <=> Queued(g) /\ g # h
<1> DEFINE ring == avail.ring
           r == seen
           w == avail.idx
           h == avail.ring[seen % NUM]
<1>1. /\ ring \in [Desc -> Desc \cup {None}] /\ w \in Index /\ r \in Index
      /\ Kept(ring, r, w) /\ avail = [ring |-> ring, idx |-> w]
  BY DEF DiskTypes, RingRec, RingInv
<1>2. /\ r # w /\ h = ring[r % NUM] /\ taken' = taken \cup {h}
      /\ avail' = [ring |-> Stored(ring, r % NUM, None), idx |-> w] /\ seen' = NextIdx(r)
  BY <1>1 DEF DeviceTake, Stored, NextIdx
<1>3. avail'.ring = Stored(ring, r % NUM, None) /\ avail'.idx = w
  BY <1>2
<1> HIDE DEF ring, r, w, h
<1>4. /\ r % NUM \in Desc /\ ring[r % NUM] \in Desc /\ NextIdx(r) \in Index
      /\ Kept(Stored(ring, r % NUM, None), NextIdx(r), w)
  <2>1. r % NUM \in Desc /\ ring[r % NUM] \in Desc /\ NextIdx(r) \in Index
    BY <1>1, <1>2, KeptGet
  <2>2. Kept(Stored(ring, r % NUM, None), NextIdx(r), w)
    BY <1>1, <1>2, KeptGet
  <2>3. QED
    BY <2>1, <2>2
<1>5. Queued(h) /\ h \in Desc
  BY <1>2, <1>4 DEF Queued, ring
<1>6. Kept(avail.ring, seen, avail.idx)'
  <2>1. Kept(avail'.ring, seen', avail'.idx)
    BY <1>2, <1>3, <1>4
  <2>2. QED
    BY <2>1 DEF Kept
<1>7. \A j \in Desc : avail'.ring[j] = IF j = r % NUM THEN None ELSE ring[j]
  BY <1>1, <1>3, <1>4 DEF Stored
<1>8. \A i, j \in Desc : ring[i] = ring[j] /\ ring[i] # None => i = j
  BY <1>1 DEF Kept
<1>9. ASSUME NEW g \in Desc PROVE Queued(g)' <=> Queued(g) /\ g # h
  <2>1. g # None
    BY Names
  <2>2. (\E j \in Desc : avail'.ring[j] = g) <=> (\E j \in Desc : ring[j] = g) /\ g # h
    BY <1>2, <1>4, <1>7, <1>8, <2>1
  <2>3. QED
    BY <2>2 DEF Queued, ring
<1>10. avail' \in RingRec
  <2>1. Stored(ring, r % NUM, None) \in [Desc -> Desc \cup {None}]
    BY <1>1, <1>4 DEF Stored
  <2>2. QED
    BY <1>1, <1>2, <2>1 DEF RingRec
<1>11. QED
  BY <1>2, <1>4, <1>5, <1>6, <1>9, <1>10

\* The device serves the request of one process: it moves the data of its buffer.
LEMMA ServeIs ==
    ASSUME DiskTypes, CacheTypes, ProcTypes, PhaseInv, BlockInv, RequestInv, LinkInv, RingInv,
           StageInv, NEW i \in Desc, DeviceServe(i)
    PROVE  \E q \in Proc :
              /\ head[q] = i /\ owned[buf[q]] /\ i \in taken /\ taken' = taken \ {i}
              /\ buf[q] \in Buf /\ Blk(q) \in Block
              /\ wr[q] => platter' = [platter EXCEPT ![Blk(q)] = data[buf[q]]] /\ data' = data
              /\ ~wr[q] => data' = [data EXCEPT ![buf[q]] = platter[Blk(q)]] /\ platter' = platter
              /\ status' = [status EXCEPT ![i] = TRUE] /\ used' \in RingRec
              /\ Kept(used.ring, usedIdx, used.idx)'
              /\ \A h \in Desc : Finished(h)' <=> Finished(h) \/ h = i
<1>1. i \in taken
  BY DEF DeviceServe
<1>2. PICK q \in Proc : head[q] = i /\ owned[buf[q]]
  BY <1>1, EntryHasOwner
<1>3. buf[q] \in Buf /\ Blk(q) \in Block /\ head[q] # None
  BY <1>2, OwnerIs, Names
<1>4. /\ desc[i].next = Second(q) /\ desc[Second(q)].addr = buf[q] /\ ops[i].sector = Blk(q)
      /\ ops[i].write = wr[q] /\ desc[desc[Second(q)].next].addr = i
      /\ Second(q) \in Desc /\ Second(q) # i
  BY <1>2, <1>3 DEF RequestInv, WellFormed, Second, Third
<1> DEFINE ring == used.ring
           r == usedIdx
           w == used.idx
           g == Second(q)
<1>5. /\ taken' = taken \ {i}
      /\ wr[q] => platter' = [platter EXCEPT ![Blk(q)] = data[buf[q]]] /\ data' = data
      /\ ~wr[q] => data' = [data EXCEPT ![buf[q]] = platter[Blk(q)]] /\ platter' = platter
      /\ status' = [status EXCEPT ![i] = TRUE]
      /\ used' = [ring |-> Stored(ring, w % NUM, i), idx |-> NextIdx(w)] /\ usedIdx' = r
  BY <1>4 DEF DeviceServe, Stored, NextIdx, driverVars
<1>6. used'.ring = Stored(ring, w % NUM, i) /\ used'.idx = NextIdx(w)
  BY <1>5
<1>7. /\ ring \in [Desc -> Desc \cup {None}] /\ w \in Index /\ r \in Index
      /\ Kept(ring, r, w)
  BY DEF DiskTypes, RingRec, RingInv
<1>8. \A j \in Desc : ring[j] # i /\ ring[j] # g
  <2>1. ~Finished(i)
    BY <1>1 DEF StageInv
  <2>2. ~Finished(g)
    <3>1. SUFFICES ASSUME Finished(g) PROVE FALSE
      OBVIOUS
    <3>2. PICK p \in Proc : head[p] = g
      BY <1>4, <3>1, EntryHasOwner
    <3>3. head[p] # None
      BY <1>4, <3>2, Names
    <3>4. QED
      BY <1>3, <3>2, <3>3, HeadsApart
  <2>3. QED
    BY <2>1, <2>2 DEF Finished
<1> HIDE DEF ring, r, w, g
<1>9. g \in Desc /\ g # i
  BY <1>4 DEF g
<1>10. /\ w % NUM \in Desc /\ ring[w % NUM] = None /\ NextIdx(w) \in Index
       /\ Kept(Stored(ring, w % NUM, i), r, NextIdx(w))
  <2>1. w % NUM \in Desc /\ ring[w % NUM] = None
    BY <1>7, <1>8, <1>9, KeptPut
  <2>2. NextIdx(w) \in Index
    BY <1>7, <1>8, <1>9, KeptPut
  <2>3. Kept(Stored(ring, w % NUM, i), r, NextIdx(w))
    BY <1>7, <1>8, <1>9, KeptPut
  <2>4. QED
    BY <2>1, <2>2, <2>3
<1>11. Kept(used.ring, usedIdx, used.idx)'
  <2>1. Kept(used'.ring, usedIdx', used'.idx)
    BY <1>5, <1>6, <1>10
  <2>2. QED
    BY <2>1 DEF Kept
<1>12. \A j \in Desc : used'.ring[j] = IF j = w % NUM THEN i ELSE ring[j]
  BY <1>6, <1>7, <1>10 DEF Stored
<1>13. ASSUME NEW h \in Desc PROVE Finished(h)' <=> Finished(h) \/ h = i
  <2>1. h # None
    BY Names
  <2>2. (\E j \in Desc : used'.ring[j] = h) <=> (\E j \in Desc : ring[j] = h) \/ h = i
    BY <1>10, <1>12, <2>1
  <2>3. QED
    BY <2>2 DEF Finished, ring
<1>14. used' \in RingRec
  <2>1. Stored(ring, w % NUM, i) \in [Desc -> Desc \cup {None}]
    BY <1>7, <1>10 DEF Stored
  <2>2. QED
    BY <1>5, <1>10, <2>1 DEF RingRec
<1>15. QED
  BY <1>1, <1>2, <1>3, <1>5, <1>11, <1>13, <1>14

\* The users of a buffer can be counted.
LEMMA UsersFinite ==
    ASSUME NEW b
    PROVE  IsFiniteSet(OnBuf(b)) /\ Cardinality(OnBuf(b)) \in Nat
<1>1. OnBuf(b) \subseteq Proc
  BY DEF OnBuf
<1>2. QED
  BY <1>1, CacheAssumption, FS_Subset, FS_CardinalityType

\* A buffer with a count of zero is not used, and not pinned.
LEMMA Unreferenced ==
    ASSUME RefcntExact, NEW b \in Buf, refcnt[b] = 0
    PROVE  blockno[b] \notin pinned /\ \A q \in Proc : buf[q] # b
<1> DEFINE n == Cardinality(OnBuf(b))
<1>1. n \in Nat /\ 0 = n + (IF blockno[b] \in pinned THEN 1 ELSE 0)
  BY UsersFinite DEF RefcntExact
<1>2. n = 0 /\ blockno[b] \notin pinned
  BY <1>1
<1>3. OnBuf(b) = {}
  BY <1>2, UsersFinite, FS_EmptySet
<1>4. QED
  BY <1>2, <1>3 DEF OnBuf

\* A buffer that is recycled is not referenced, and the block is in no other one.
LEMMA RecycleIs ==
    ASSUME CacheTypes, NEW p \in Proc, NEW k \in Block, BgetRecycle(p, k)
    PROVE  \E b \in Buf :
              /\ refcnt[b] = 0 /\ pc[p] = "idle" /\ \A c \in Buf : blockno[c] # k
              /\ blockno' = [blockno EXCEPT ![b] = k] /\ valid' = [valid EXCEPT ![b] = FALSE]
              /\ refcnt' = [refcnt EXCEPT ![b] = 1] /\ buf' = [buf EXCEPT ![p] = b]
              /\ pc' = [pc EXCEPT ![p] = "lock"]
              /\ UNCHANGED <<list, holder, head, wr, pinned>>
<1>1. Lru \in Buf /\ refcnt[Lru] = 0
  BY LruIs DEF BgetRecycle, CacheTypes
<1>2. QED
  BY <1>1 DEF BgetRecycle, NotCached, Invalidated, Goto

\* bget() adds a process to the users of one buffer, and counts it.
LEMMA OneMoreUser ==
    ASSUME ProcTypes, CacheTypes, NEW p \in Proc, NEW b \in Buf, buf[p] = None,
           buf' = [buf EXCEPT ![p] = b],
           \A c \in Buf : refcnt'[c] = IF c = b THEN refcnt[b] + 1 ELSE refcnt[c]
    PROVE  \A c \in Buf :
              /\ Cardinality(OnBuf(c)') = Cardinality(OnBuf(c)) + (IF c = b THEN 1 ELSE 0)
              /\ refcnt'[c] = refcnt[c] + (IF c = b THEN 1 ELSE 0)
<1> SUFFICES ASSUME NEW c \in Buf
             PROVE  /\ Cardinality(OnBuf(c)') = Cardinality(OnBuf(c)) + (IF c = b THEN 1 ELSE 0)
                    /\ refcnt'[c] = refcnt[c] + (IF c = b THEN 1 ELSE 0)
  OBVIOUS
<1>1. refcnt[c] \in Int /\ Cardinality(OnBuf(c)) \in Nat /\ IsFiniteSet(OnBuf(c)) /\ None \notin Buf
  BY UsersFinite, Names DEF CacheTypes
<1>2. CASE c = b
  <2>1. p \notin OnBuf(b) /\ OnBuf(b)' = OnBuf(b) \cup {p}
    BY <1>1 DEF OnBuf, ProcTypes
  <2>2. Cardinality(OnBuf(b) \cup {p}) = Cardinality(OnBuf(b)) + 1
    BY <1>1, <1>2, <2>1, FS_AddElement
  <2>3. QED
    BY <1>1, <1>2, <2>1, <2>2
<1>3. CASE c # b
  <2>1. OnBuf(c)' = OnBuf(c)
    BY <1>1, <1>3 DEF OnBuf, ProcTypes
  <2>2. QED
    BY <1>1, <1>3, <2>1
<1>4. QED
  BY <1>2, <1>3

\* Then the count stays exact, if the pins are the same.
LEMMA CountKept ==
    ASSUME RefcntExact, NEW b \in Buf,
           \A c \in Buf :
              /\ Cardinality(OnBuf(c)') = Cardinality(OnBuf(c)) + (IF c = b THEN 1 ELSE 0)
              /\ refcnt'[c] = refcnt[c] + (IF c = b THEN 1 ELSE 0),
           \A c \in Buf : blockno'[c] \in pinned' <=> blockno[c] \in pinned
    PROVE  RefcntExact'
<1>1. \A c \in Buf : Cardinality(OnBuf(c)) \in Nat
  BY UsersFinite
<1>2. QED
  BY <1>1 DEF RefcntExact

-----------------------------------------------------------------------------
(* What is the same after a step.                                           *)

\* Requests of different processes are for different buffers.
LEMMA RequestsApart ==
    ASSUME CacheTypes, ProcTypes, PhaseInv, BlockInv, LockInv,
           NEW p \in Proc, NEW q \in Proc, pc[p] \in Inside, pc[q] \in Inside, p # q
    PROVE  buf[p] # buf[q] /\ Blk(p) # Blk(q) /\ buf[p] \in Buf /\ buf[q] \in Buf
<1>1. pc[p] # "idle" /\ pc[q] # "idle"
  BY DEF Inside
<1>2. buf[p] \in Buf /\ buf[q] \in Buf /\ Blk(p) \in Block
  BY <1>1, HasBlock
<1>3. buf[p] # buf[q]
  BY <1>2 DEF LockInv
<1>4. Blk(p) # Blk(q)
  <2>1. Blk(p) # None
    BY <1>2, Names
  <2>2. QED
    BY <1>2, <1>3, <2>1 DEF BlockInv, Blk
<1>5. QED
  BY <1>2, <1>3, <1>4

\* A request that no step touched.
LEMMA SameRequest ==
    ASSUME RequestInv, NEW q \in Proc, head[q] # None,
           head'[q] = head[q], buf'[q] = buf[q], wr'[q] = wr[q], Blk(q)' = Blk(q),
           \A i \in Links(q) : desc'[i] = desc[i],
           info'[head[q]] = info[head[q]], ops'[head[q]] = ops[head[q]]
    PROVE  WellFormed(q)' /\ Links(q)' = Links(q)
<1>1. /\ desc'[head[q]] = desc[head[q]] /\ desc'[Second(q)] = desc[Second(q)]
      /\ desc'[Third(q)] = desc[Third(q)]
  BY DEF Links
<1>2. Second(q)' = Second(q)
  BY <1>1 DEF Second
<1>3. Third(q)' = Third(q)
  BY <1>1, <1>2 DEF Third
<1>4. Links(q)' = Links(q)
  BY <1>2, <1>3 DEF Links
<1>5. WellFormed(q)
  BY DEF RequestInv
<1>6. WellFormed(q)'
  BY <1>1, <1>2, <1>3, <1>5 DEF WellFormed
<1>7. QED
  BY <1>4, <1>6

\* The processes that wait for the disk are the same.
LEMMA SameStages ==
    ASSUME StageInv, UNCHANGED <<avail, used, taken, status>>,
           \A h \in Desc : (\E q \in Proc : head'[q] = h /\ owned'[buf'[q]])
                              <=> (\E q \in Proc : head[q] = h /\ owned[buf[q]])
    PROVE  StageInv'
<1>1. \A h : (Queued(h)' <=> Queued(h)) /\ (Finished(h)' <=> Finished(h))
  BY DEF Queued, Finished
<1>2. QED
  BY <1>1 DEF StageInv

\* A step that touches no data, and after which nobody else has written.
LEMMA SameData ==
    ASSUME DataInv,
           UNCHANGED <<avail, data, platter, taken, blockno, valid, buf, head, wr, pinned>>,
           \A q \in Proc : pc'[q] = "wrote" => pc[q] = "wrote"
    PROVE  DataInv'
<1>1. \A b : Same(b)' <=> Same(b)
  BY DEF Same
<1>2. \A h : Queued(h)' <=> Queued(h)
  BY DEF Queued
<1>3. QED
  BY <1>1, <1>2 DEF DataInv

\* A request is of a process in virtio_disk_rw().
LEMMA RequestIsInside ==
    ASSUME PhaseInv, NEW q \in Proc, head[q] # None
    PROVE  pc[q] \in Request /\ pc[q] \in Inside
BY DEF PhaseInv, Request, Inside

-----------------------------------------------------------------------------
(* Each step keeps each part of the invariant.                              *)

\* Every step keeps the types of the driver's state and of the device's.
LEMMA DiskTypesStep ==
    ASSUME DiskTypes, CacheTypes, ProcTypes, PhaseInv, BlockInv, RequestInv, LinkInv,
        RingInv, StageInv, [Next]_vars
    PROVE  DiskTypes'
<1> USE DEF DiskTypes
<1>1. ASSUME NEW p \in Proc, DiskStart(p) PROVE DiskTypes'
  <2>1. PICK a \in free, b \in free, c \in free :
           /\ a # b /\ free' = free \ {a, b, c} /\ desc' \in [Desc -> DescRec]
           /\ ops' \in [Desc -> OpRec] /\ info' = [info EXCEPT ![a] = buf[p]]
           /\ status' = [status EXCEPT ![a] = FALSE]
           /\ owned' = [owned EXCEPT ![buf[p]] = TRUE]
           /\ avail'.ring = Stored(avail.ring, avail.idx % NUM, a)
           /\ avail'.idx = NextIdx(avail.idx)
           /\ avail' = [ring |-> avail'.ring, idx |-> avail'.idx]
    BY <1>1, SubmitIs
  <2>2. a \in Desc /\ b \in Desc /\ c \in Desc /\ buf[p] \in Buf
    BY <1>1, <2>1, HasBlock DEF DiskStart
  <2>3. UNCHANGED <<seen, usedIdx, used, taken, data, platter>>
    BY <1>1 DEF DiskStart, Submit, deviceVars
  <2>4. avail'.ring \in [Desc -> Desc \cup {None}] /\ avail'.idx \in Index
    <3> HIDE DEF DiskTypes
    <3>1. QED
      BY <2>1, <2>3, SubmitQueues
  <2>5. avail' \in RingRec
    BY <2>1, <2>4 DEF RingRec
  <2>6. status' \in [Desc -> BOOLEAN] /\ owned' \in [Buf -> BOOLEAN]
    BY <2>1, <2>2, Zenon
  <2>7. info' \in [Desc -> Buf \cup {None}]
    BY <2>1, <2>2
  <2>8. QED
    BY <2>1, <2>3, <2>5, <2>6, <2>7
<1>2. ASSUME NEW p \in Proc, DiskFinish(p) PROVE DiskTypes'
  <2>1. /\ head[p] \in Desc /\ Links(p) \subseteq Desc /\ free' = free \cup Links(p)
        /\ desc' \in [Desc -> DescRec] /\ ops' \in [Desc -> OpRec]
        /\ info' = [info EXCEPT ![head[p]] = None]
        /\ status' = [status EXCEPT ![head[p]] = FALSE]
    BY <1>2, FinishIs
  <2>2. UNCHANGED <<owned, avail, used, usedIdx, seen, taken, data, platter>>
    BY <1>2 DEF DiskFinish, FreeChain, deviceVars
  <2>3. status' \in [Desc -> BOOLEAN]
    BY <2>1, Zenon
  <2>4. info' \in [Desc -> Buf \cup {None}]
    BY <2>1
  <2>5. QED
    BY <2>1, <2>2, <2>3, <2>4
<1>3. ASSUME NEW p \in Proc, NEW v \in Val, LogWrite(p, v) PROVE DiskTypes'
  <2>1. data' \in [Buf -> Val]
    BY <1>3 DEF LogWrite
  <2>2. QED
    BY <1>3, <2>1 DEF LogWrite, driverVars, deviceVars
<1>4. ASSUME NEW p \in Proc, NEW v \in Val, Bwrite(p, v) PROVE DiskTypes'
  <2>1. data' \in [Buf -> Val]
    BY <1>4 DEF Bwrite
  <2>2. QED
    BY <1>4, <2>1 DEF Bwrite, driverVars, deviceVars
<1>5. CASE HandleEntry
  <2>1. PICK q \in Proc :
           /\ owned' = [owned EXCEPT ![buf[q]] = FALSE] /\ usedIdx' \in Index
           /\ used' \in RingRec
    BY <1>5, EntryIs
  <2>2. owned' \in [Buf -> BOOLEAN]
    BY <2>1, Zenon
  <2>3. QED
    BY <1>5, <2>1, <2>2 DEF HandleEntry, IntrEntry
<1>6. CASE DeviceTake /\ UNCHANGED Outside
  <2>1. PICK h \in Desc :
           /\ taken' = taken \cup {h} /\ seen' \in Index /\ avail' \in RingRec
    BY <1>6, TakeIs
  <2>2. QED
    BY <1>6, <2>1 DEF DeviceTake
<1>7. ASSUME NEW i \in Desc, DeviceServe(i) /\ UNCHANGED Outside PROVE DiskTypes'
  <2>1. PICK q \in Proc :
           /\ taken' = taken \ {i} /\ buf[q] \in Buf /\ Blk(q) \in Block
           /\ wr[q] => platter' = [platter EXCEPT ![Blk(q)] = data[buf[q]]] /\ data' = data
           /\ ~wr[q] => data' = [data EXCEPT ![buf[q]] = platter[Blk(q)]] /\ platter' = platter
           /\ status' = [status EXCEPT ![i] = TRUE] /\ used' \in RingRec
    BY <1>7, ServeIs
  <2>2. data' \in [Buf -> Val] /\ platter' \in [Block -> Val]
    <3>1. data[buf[q]] \in Val /\ platter[Blk(q)] \in Val
      BY <2>1
    <3>2. CASE wr[q]
      BY <2>1, <3>1, <3>2
    <3>3. CASE ~wr[q]
      BY <2>1, <3>1, <3>3
    <3>4. QED
      BY <3>2, <3>3
  <2>3. status' \in [Desc -> BOOLEAN]
    BY <2>1, Zenon
  <2>4. QED
    BY <1>7, <2>1, <2>2, <2>3 DEF DeviceServe, driverVars
<1>8. CASE UNCHANGED <<free, desc, ops, info, status, owned,
                         avail, used, usedIdx, data, platter, seen, taken>>
  BY <1>8
<1> HIDE DEF DiskTypes
<1>9. QED
  BY <1>1, <1>2, <1>3, <1>4, <1>5, <1>6, <1>7, <1>8 DEF vars, Next, Kernel, Use,
      DiskIntr, Device, cacheVars, procVars, diskVars, driverVars, deviceVars, Outside,
      BgetCached, BgetRecycle, BgetPanic, AcquireWaits, AcquireSleep, DiskWaits,
      DiskSleeps, Bunpin, ReleaseSleep, Brelse, IntrAck, IntrDone

\* No buffer is lost from the list, whatever brelse() moves.
LEMMA CacheTypesStep ==
    ASSUME CacheTypes, ProcTypes, PhaseInv, BlockInv, [Next]_vars
    PROVE  CacheTypes'
<1> USE DEF CacheTypes
<1>1. ASSUME NEW p \in Proc, NEW k \in Block, NEW b \in Buf, BgetCached(p, k, b)
      PROVE  CacheTypes'
  BY <1>1 DEF BgetCached, Goto, deviceVars, diskVars, driverVars
<1>2. ASSUME NEW p \in Proc, NEW k \in Block, BgetRecycle(p, k) PROVE CacheTypes'
  <2>1. PICK b \in Buf :
           /\ refcnt[b] = 0 /\ pc[p] = "idle" /\ \A c \in Buf : blockno[c] # k
           /\ blockno' = [blockno EXCEPT ![b] = k] /\ valid' = [valid EXCEPT ![b] = FALSE]
           /\ refcnt' = [refcnt EXCEPT ![b] = 1] /\ buf' = [buf EXCEPT ![p] = b]
           /\ pc' = [pc EXCEPT ![p] = "lock"]
           /\ UNCHANGED <<list, holder, head, wr, pinned>>
    BY <1>2, RecycleIs, ZenonT(40)
  <2>2. QED
    BY <2>1
<1>3. ASSUME NEW p \in Proc, AcquireSleep(p) PROVE CacheTypes'
  BY <1>3 DEF AcquireSleep, Goto, Locked, deviceVars, diskVars, driverVars
<1>4. ASSUME NEW p \in Proc, DiskFinish(p) PROVE CacheTypes'
  BY <1>4 DEF DiskFinish, Blank, Chain, Desc, DescWakeup, FreeChain, NoOp, PanicIf,
      Woken, deviceVars
<1>5. ASSUME NEW p \in Proc, NEW v \in Val, LogWrite(p, v) PROVE CacheTypes'
  <2>1. buf[p] \in Buf /\ Blk(p) \in Block
    BY <1>5, HasBlock DEF LogWrite
  <2>2. /\ pinned' = pinned \cup {Blk(p)} /\ UNCHANGED <<list, blockno, valid, holder>>
        /\ \/ refcnt' = refcnt
           \/ refcnt' = [refcnt EXCEPT ![buf[p]] = refcnt[buf[p]] + 1]
    BY <1>5 DEF LogWrite
  <2>3. refcnt' \in [Buf -> Int]
    BY <2>1, <2>2
  <2>4. QED
    BY <2>1, <2>2, <2>3
<1>6. ASSUME NEW p \in Proc, Bunpin(p) PROVE CacheTypes'
  <2>1. /\ refcnt' = [refcnt EXCEPT ![buf[p]] = refcnt[buf[p]] - 1] /\ pinned' \subseteq pinned
        /\ UNCHANGED <<list, blockno, valid, holder>>
    BY <1>6 DEF Bunpin
  <2>2. buf[p] \in Buf
    BY <1>6, HasBlock DEF Bunpin
  <2>3. QED
    BY <2>1, <2>2
<1>7. ASSUME NEW p \in Proc, ReleaseSleep(p) PROVE CacheTypes'
  BY <1>7 DEF ReleaseSleep, Blk, OnBuf, PanicIf, Woken, deviceVars, diskVars, driverVars
<1>8. ASSUME NEW p \in Proc, Brelse(p) PROVE CacheTypes'
  <2>1. buf[p] \in Buf
    BY <1>8, HasBlock DEF Brelse
  <2>2. /\ refcnt' = [refcnt EXCEPT ![buf[p]] = refcnt[buf[p]] - 1]
        /\ list' = MovedToFront(buf[p]) \/ list' = list
        /\ UNCHANGED <<blockno, valid, holder, pinned>>
    BY <1>8 DEF Brelse
  <2>3. list' \in [1..NBUF -> Buf] /\ \A b \in Buf : \E i \in 1..NBUF : list'[i] = b
    <3>1. list \in [1..NBUF -> Buf] /\ \A b \in Buf : \E i \in 1..NBUF : list[i] = b
      OBVIOUS
    <3>2. CASE list' = MovedToFront(buf[p])
      BY ONLY <2>1, <3>1, <3>2, MovedIs
    <3>3. QED
      BY <2>2, <3>1, <3>2
  <2>4. refcnt' \in [Buf -> Int]
    BY <2>1, <2>2
  <2>5. QED
    BY <2>2, <2>3, <2>4
<1>9. CASE UNCHANGED <<list, blockno, valid, refcnt, holder, pinned>>
  BY <1>9
<1> HIDE DEF CacheTypes
<1>10. QED
  BY <1>1, <1>2, <1>3, <1>4, <1>5, <1>6, <1>7, <1>8, <1>9 DEF vars, Next, Kernel, Use,
      DiskIntr, Device, cacheVars, procVars, diskVars, driverVars, deviceVars, Outside,
      BgetPanic, AcquireWaits, DiskStart, DiskWaits, DiskSleeps, Bwrite, HandleEntry,
      IntrAck, IntrDone, DeviceTake, DeviceServe, Submit, IntrEntry

\* Every step keeps the types of what a process knows.
LEMMA ProcTypesStep ==
    ASSUME DiskTypes, CacheTypes, ProcTypes, PhaseInv, BlockInv, RequestInv, LinkInv,
        RingInv, StageInv, [Next]_vars
    PROVE  ProcTypes'
<1> USE DEF Inside, ProcTypes
<1>1. ASSUME NEW p \in Proc, NEW k \in Block, NEW b \in Buf, BgetCached(p, k, b)
      PROVE  ProcTypes'
  BY <1>1 DEF BgetCached, Goto, deviceVars, diskVars, driverVars
<1>2. ASSUME NEW p \in Proc, NEW k \in Block, BgetRecycle(p, k) PROVE ProcTypes'
  <2>1. PICK b \in Buf :
           /\ refcnt[b] = 0 /\ pc[p] = "idle" /\ \A c \in Buf : blockno[c] # k
           /\ blockno' = [blockno EXCEPT ![b] = k] /\ valid' = [valid EXCEPT ![b] = FALSE]
           /\ refcnt' = [refcnt EXCEPT ![b] = 1] /\ buf' = [buf EXCEPT ![p] = b]
           /\ pc' = [pc EXCEPT ![p] = "lock"]
           /\ UNCHANGED <<list, holder, head, wr, pinned>>
    BY <1>2, RecycleIs
  <2>2. QED
    BY <2>1
<1>3. ASSUME NEW p \in Proc, AcquireWaits(p) PROVE ProcTypes'
  BY <1>3 DEF AcquireWaits, Goto, Locked, cacheVars, deviceVars, diskVars, driverVars
<1>4. ASSUME NEW p \in Proc, AcquireSleep(p) PROVE ProcTypes'
  BY <1>4 DEF AcquireSleep, Goto, Locked, deviceVars, diskVars, driverVars
<1>5. ASSUME NEW p \in Proc, DiskStart(p) PROVE ProcTypes'
  <2>1. PICK a \in free, b \in free, c \in free :
           /\ head' = [head EXCEPT ![p] = a]
    BY <1>5, SubmitIs
  <2>2. a \in Desc
    BY <2>1 DEF DiskTypes
  <2>3. QED
    BY <1>5, <2>1, <2>2 DEF DiskStart, Goto
<1>6. ASSUME NEW p \in Proc, DiskWaits(p) PROVE ProcTypes'
  BY <1>6 DEF DiskWaits, CanAlloc, DescWakeup, Woken, cacheVars, deviceVars, diskVars,
      driverVars
<1>7. ASSUME NEW p \in Proc, DiskSleeps(p) PROVE ProcTypes'
  BY <1>7 DEF DiskSleeps, Goto, cacheVars, deviceVars, diskVars, driverVars
<1>8. ASSUME NEW p \in Proc, DiskFinish(p) PROVE ProcTypes'
  BY <1>8 DEF DiskFinish, Blank, Chain, Desc, DescWakeup, FreeChain, NoOp, PanicIf,
      Woken, deviceVars
<1>9. ASSUME NEW p \in Proc, NEW v \in Val, Bwrite(p, v) PROVE ProcTypes'
  BY <1>9 DEF Bwrite, Blk, Goto, PanicIf, cacheVars, deviceVars, driverVars
<1>10. ASSUME NEW p \in Proc, ReleaseSleep(p) PROVE ProcTypes'
  BY <1>10 DEF ReleaseSleep, Blk, OnBuf, PanicIf, Woken, deviceVars, diskVars,
      driverVars
<1>11. ASSUME NEW p \in Proc, Brelse(p) PROVE ProcTypes'
  BY <1>11 DEF Brelse, Goto, MovedToFront, deviceVars, diskVars, driverVars
<1>12. CASE HandleEntry
  BY <1>12 DEF HandleEntry, IntrEntry, NextUsed, OnBuf, PanicIf, Woken, cacheVars
<1>13. CASE UNCHANGED <<pc, buf, head, wr>>
  BY <1>13
<1> HIDE DEF Inside, ProcTypes
<1>14. QED
  BY <1>1, <1>2, <1>3, <1>4, <1>5, <1>6, <1>7, <1>8, <1>9, <1>10, <1>11, <1>12, <1>13
      DEF vars, Next, Kernel, Use, DiskIntr, Device, cacheVars, procVars, diskVars,
      driverVars, deviceVars, Outside, BgetPanic, LogWrite, Bunpin, IntrAck, IntrDone,
      DeviceTake, DeviceServe

\* A process has a buffer between bget() and brelse(), and descriptors while a request is
\* under way; "write" is set only in virtio_disk_rw().
LEMMA PhaseStep ==
    ASSUME DiskTypes, CacheTypes, ProcTypes, PhaseInv, BlockInv, RequestInv, LinkInv,
        RingInv, StageInv, [Next]_vars
    PROVE  PhaseInv'
<1> USE DEF Disk, Inside, PhaseInv, ProcTypes, Request
<1>1. ASSUME NEW p \in Proc, NEW k \in Block, NEW b \in Buf, BgetCached(p, k, b)
      PROVE  PhaseInv'
  BY <1>1, Names DEF BgetCached, Goto
<1>2. ASSUME NEW p \in Proc, NEW k \in Block, BgetRecycle(p, k) PROVE PhaseInv'
  <2>1. PICK b \in Buf :
           /\ refcnt[b] = 0 /\ pc[p] = "idle" /\ \A c \in Buf : blockno[c] # k
           /\ blockno' = [blockno EXCEPT ![b] = k] /\ valid' = [valid EXCEPT ![b] = FALSE]
           /\ refcnt' = [refcnt EXCEPT ![b] = 1] /\ buf' = [buf EXCEPT ![p] = b]
           /\ pc' = [pc EXCEPT ![p] = "lock"]
           /\ UNCHANGED <<list, holder, head, wr, pinned>>
    BY <1>2, RecycleIs
  <2>2. QED
    BY <2>1, Names
<1>3. ASSUME NEW p \in Proc, AcquireWaits(p) PROVE PhaseInv'
  BY <1>3 DEF AcquireWaits, Goto, Locked, cacheVars, deviceVars, diskVars, driverVars
<1>4. ASSUME NEW p \in Proc, AcquireSleep(p) PROVE PhaseInv'
  BY <1>4 DEF AcquireSleep, Goto, Locked, deviceVars, diskVars, driverVars
<1>5. ASSUME NEW p \in Proc, DiskStart(p) PROVE PhaseInv'
  <2>1. PICK a \in free, b \in free, c \in free :
           /\ head' = [head EXCEPT ![p] = a]
    BY <1>5, SubmitIs
  <2>2. a # None
    BY <2>1, Names DEF DiskTypes
  <2>3. QED
    BY <1>5, <2>1, <2>2 DEF DiskStart, Goto
<1>6. ASSUME NEW p \in Proc, DiskWaits(p) PROVE PhaseInv'
  BY <1>6 DEF DiskWaits, CanAlloc, DescWakeup, Woken, cacheVars, deviceVars, diskVars,
      driverVars
<1>7. ASSUME NEW p \in Proc, DiskSleeps(p) PROVE PhaseInv'
  BY <1>7 DEF DiskSleeps, Goto, cacheVars, deviceVars, diskVars, driverVars
<1>8. ASSUME NEW p \in Proc, DiskFinish(p) PROVE PhaseInv'
  BY <1>8 DEF DiskFinish, Blank, Chain, Desc, DescWakeup, FreeChain, NoOp, PanicIf,
      Woken, deviceVars
<1>9. ASSUME NEW p \in Proc, NEW v \in Val, Bwrite(p, v) PROVE PhaseInv'
  BY <1>9 DEF Bwrite, Blk, Goto, PanicIf, cacheVars, deviceVars, driverVars
<1>10. ASSUME NEW p \in Proc, ReleaseSleep(p) PROVE PhaseInv'
  BY <1>10 DEF ReleaseSleep, Blk, OnBuf, PanicIf, Woken, deviceVars, diskVars,
      driverVars
<1>11. ASSUME NEW p \in Proc, Brelse(p) PROVE PhaseInv'
  BY <1>11 DEF Brelse, Goto, MovedToFront, deviceVars, diskVars, driverVars
<1>12. CASE HandleEntry
  BY <1>12 DEF HandleEntry, IntrEntry, NextUsed, OnBuf, PanicIf, Woken, cacheVars
<1>13. CASE UNCHANGED <<pc, buf, head, wr>>
  BY <1>13
<1> HIDE DEF Disk, Inside, PhaseInv, ProcTypes, Request
<1>14. QED
  BY <1>1, <1>2, <1>3, <1>4, <1>5, <1>6, <1>7, <1>8, <1>9, <1>10, <1>11, <1>12, <1>13
      DEF vars, Next, Kernel, Use, DiskIntr, Device, cacheVars, procVars, diskVars,
      driverVars, deviceVars, Outside, BgetPanic, LogWrite, Bunpin, IntrAck, IntrDone,
      DeviceTake, DeviceServe

\* acquiresleep() gives the lock of a buffer to nobody else, and wakeups give it to nobody.
LEMMA LockStep ==
    ASSUME DiskTypes, CacheTypes, ProcTypes, PhaseInv, BlockInv, LockInv, RequestInv,
        RingInv, StageInv, [Next]_vars
    PROVE  LockInv'
<1> USE DEF CacheTypes, Inside, LockInv, PhaseInv, ProcTypes
<1>1. ASSUME NEW p \in Proc, NEW k \in Block, NEW b \in Buf, BgetCached(p, k, b)
      PROVE  LockInv'
  BY <1>1 DEF BgetCached, Goto, deviceVars, diskVars, driverVars
<1>2. ASSUME NEW p \in Proc, NEW k \in Block, BgetRecycle(p, k) PROVE LockInv'
  <2>1. PICK b \in Buf :
           /\ refcnt[b] = 0 /\ pc[p] = "idle" /\ \A c \in Buf : blockno[c] # k
           /\ blockno' = [blockno EXCEPT ![b] = k] /\ valid' = [valid EXCEPT ![b] = FALSE]
           /\ refcnt' = [refcnt EXCEPT ![b] = 1] /\ buf' = [buf EXCEPT ![p] = b]
           /\ pc' = [pc EXCEPT ![p] = "lock"]
           /\ UNCHANGED <<list, holder, head, wr, pinned>>
    BY <1>2, RecycleIs
  <2>2. QED
    BY <2>1
<1>3. ASSUME NEW p \in Proc, AcquireWaits(p) PROVE LockInv'
  BY <1>3 DEF AcquireWaits, Goto, Locked, cacheVars, deviceVars, diskVars, driverVars
<1>4. ASSUME NEW p \in Proc, AcquireSleep(p) PROVE LockInv'
  <2>1. buf[p] \in Buf /\ holder[buf[p]] = None
    BY <1>4, HasBlock DEF AcquireSleep, Locked
  <2>2. /\ pc[p] = "lock" /\ holder' = [holder EXCEPT ![buf[p]] = p] /\ buf' = buf
        /\ \/ pc' = [pc EXCEPT ![p] = "have"]
           \/ pc' = [pc EXCEPT ![p] = "alloc"]
    BY <1>4 DEF AcquireSleep, Goto
  <2>3. QED
    BY <2>1, <2>2, Names
<1>5. ASSUME NEW p \in Proc, DiskStart(p) PROVE LockInv'
  BY <1>5 DEF DiskStart, Blk, CanAlloc, Goto, Least, Submit, cacheVars, deviceVars
<1>6. ASSUME NEW p \in Proc, DiskWaits(p) PROVE LockInv'
  BY <1>6 DEF DiskWaits, CanAlloc, DescWakeup, Woken, cacheVars, deviceVars, diskVars,
      driverVars
<1>7. ASSUME NEW p \in Proc, DiskSleeps(p) PROVE LockInv'
  BY <1>7 DEF DiskSleeps, Goto, cacheVars, deviceVars, diskVars, driverVars
<1>8. ASSUME NEW p \in Proc, DiskFinish(p) PROVE LockInv'
  BY <1>8 DEF DiskFinish, Blank, Chain, Desc, DescWakeup, FreeChain, NoOp, PanicIf,
      Woken, deviceVars
<1>9. ASSUME NEW p \in Proc, NEW v \in Val, Bwrite(p, v) PROVE LockInv'
  BY <1>9 DEF Bwrite, Blk, Goto, PanicIf, cacheVars, deviceVars, driverVars
<1>10. ASSUME NEW p \in Proc, ReleaseSleep(p) PROVE LockInv'
  <2>1. buf[p] \in Buf
    BY <1>10, HasBlock DEF ReleaseSleep
  <2>2. /\ pc[p] \in {"have", "wrote"} /\ holder' = [holder EXCEPT ![buf[p]] = None] /\ buf' = buf
        /\ \A q \in Proc : pc'[q] = IF q = p THEN "brelse" ELSE
               IF pc[q] = "locksleep" /\ buf[q] = buf[p] THEN "lock" ELSE pc[q]
    BY <1>10 DEF ReleaseSleep, Woken, OnBuf
  <2>3. holder[buf[p]] = p /\ p # None
    BY <2>1, <2>2, Names, ZenonT(40)
  <2>4. ASSUME NEW q \in Proc, NEW b \in Buf
        PROVE  holder'[b] = q <=> pc'[q] \in Inside /\ buf'[q] = b
    <3>1. holder[b] = q <=> pc[q] \in Inside /\ buf[q] = b
      OBVIOUS
    <3>2. q # None /\ (pc'[q] \in Inside <=> pc[q] \in Inside /\ q # p)
      BY <2>2, Names
    <3>3. holder'[b] = IF b = buf[p] THEN None ELSE holder[b]
      BY <2>1, <2>2
    <3> HIDE DEF Inside, LockInv, ProcTypes, PhaseInv
    <3>4. QED
      BY <2>2, <2>3, <3>1, <3>2, <3>3
  <2>5. QED
    BY <2>4
<1>11. ASSUME NEW p \in Proc, Brelse(p) PROVE LockInv'
  BY <1>11 DEF Brelse, Goto, MovedToFront, deviceVars, diskVars, driverVars
<1>12. CASE HandleEntry
  BY <1>12 DEF HandleEntry, IntrEntry, NextUsed, OnBuf, PanicIf, Woken, cacheVars
<1>13. CASE UNCHANGED <<holder, pc, buf>>
  BY <1>13
<1> HIDE DEF CacheTypes, Inside, LockInv, PhaseInv, ProcTypes
<1>14. QED
  BY <1>1, <1>2, <1>3, <1>4, <1>5, <1>6, <1>7, <1>8, <1>9, <1>10, <1>11, <1>12, <1>13
      DEF vars, Next, Kernel, Use, DiskIntr, Device, cacheVars, procVars, diskVars,
      driverVars, deviceVars, Outside, BgetPanic, LogWrite, Bunpin, IntrAck, IntrDone,
      DeviceTake, DeviceServe

\* bget() recycles a buffer that nobody uses or pins, for a block that no buffer has.
LEMMA BlockStep ==
    ASSUME DiskTypes, CacheTypes, ProcTypes, PhaseInv, BlockInv, RefcntExact,
        [Next]_vars
    PROVE  BlockInv'
<1> USE DEF BlockInv, CacheTypes, ProcTypes
<1>1. ASSUME NEW p \in Proc, NEW k \in Block, NEW b \in Buf, BgetCached(p, k, b)
      PROVE  BlockInv'
  <2>1. /\ k # None /\ blockno[b] = k /\ buf' = [buf EXCEPT ![p] = b]
        /\ UNCHANGED <<blockno, valid, pinned>>
    BY <1>1, Names DEF BgetCached
  <2>2. QED
    BY <2>1
<1>2. ASSUME NEW p \in Proc, NEW k \in Block, BgetRecycle(p, k) PROVE BlockInv'
  <2>1. PICK b \in Buf :
           /\ refcnt[b] = 0 /\ pc[p] = "idle" /\ \A c \in Buf : blockno[c] # k
           /\ blockno' = [blockno EXCEPT ![b] = k] /\ valid' = [valid EXCEPT ![b] = FALSE]
           /\ refcnt' = [refcnt EXCEPT ![b] = 1] /\ buf' = [buf EXCEPT ![p] = b]
           /\ pc' = [pc EXCEPT ![p] = "lock"]
           /\ UNCHANGED <<list, holder, head, wr, pinned>>
    BY <1>2, RecycleIs
  <2>2. k # None /\ blockno[b] \notin pinned /\ \A q \in Proc : buf[q] # b
    BY <2>1, Unreferenced, Names
  <2>3. \A c \in Buf : blockno'[c] = IF c = b THEN k ELSE blockno[c]
    BY <2>1
  <2>4. \A c, d \in Buf : blockno'[c] = blockno'[d] /\ blockno'[c] # None => c = d
    BY <2>1, <2>3
  <2>5. \A c \in Buf : valid'[c] => blockno'[c] # None
    BY <2>1, <2>2, <2>3
  <2>6. \A q \in Proc : buf'[q] # None => blockno'[buf'[q]] # None
    BY <2>1, <2>2, <2>3
  <2>7. \A n \in pinned' : \E c \in Buf : blockno'[c] = n
    BY <2>1, <2>2, <2>3
  <2>8. QED
    BY <2>4, <2>5, <2>6, <2>7
<1>3. ASSUME NEW p \in Proc, DiskFinish(p) PROVE BlockInv'
  <2>1. buf[p] \in Buf /\ Blk(p) \in Block
    BY <1>3, HasBlock DEF DiskFinish
  <2>2. valid' = [valid EXCEPT ![buf[p]] = TRUE] /\ UNCHANGED <<blockno, buf, pinned>>
    BY <1>3 DEF DiskFinish
  <2>3. QED
    BY <2>1, <2>2, Names DEF Blk
<1>4. ASSUME NEW p \in Proc, NEW v \in Val, LogWrite(p, v) PROVE BlockInv'
  <2>1. buf[p] \in Buf /\ Blk(p) \in Block
    BY <1>4, HasBlock DEF LogWrite
  <2>2. pinned' = pinned \cup {Blk(p)} /\ UNCHANGED <<blockno, buf, valid>>
    BY <1>4 DEF LogWrite, procVars
  <2>3. QED
    BY <2>1, <2>2 DEF Blk
<1>5. ASSUME NEW p \in Proc, Bunpin(p) PROVE BlockInv'
  BY <1>5 DEF Bunpin, Blk, deviceVars, diskVars, driverVars, procVars
<1>6. ASSUME NEW p \in Proc, Brelse(p) PROVE BlockInv'
  BY <1>6 DEF Brelse, Goto, MovedToFront, deviceVars, diskVars, driverVars
<1>7. CASE UNCHANGED <<blockno, valid, buf, pinned>>
  BY <1>7
<1> HIDE DEF BlockInv, CacheTypes, ProcTypes
<1>8. QED
  BY <1>1, <1>2, <1>3, <1>4, <1>5, <1>6, <1>7 DEF vars, Next, Kernel, Use, DiskIntr,
      Device, cacheVars, procVars, diskVars, driverVars, deviceVars, Outside, BgetPanic,
      AcquireWaits, AcquireSleep, DiskStart, DiskWaits, DiskSleeps, Bwrite,
      ReleaseSleep, HandleEntry, IntrAck, IntrDone, DeviceTake, DeviceServe, Submit,
      IntrEntry

\* A buffer becomes valid at the end of its request, and is recycled only unreferenced.
LEMMA ValidStep ==
    ASSUME DiskTypes, CacheTypes, ProcTypes, PhaseInv, BlockInv, LockInv, ValidInv,
        RefcntExact, RequestInv, RingInv, StageInv, [Next]_vars
    PROVE  ValidInv'
<1> USE DEF CacheTypes, Disk, Inside, PhaseInv, ProcTypes, Request, ValidInv
<1>1. ASSUME NEW p \in Proc, NEW k \in Block, NEW b \in Buf, BgetCached(p, k, b)
      PROVE  ValidInv'
  BY <1>1 DEF BgetCached, Goto, deviceVars, diskVars, driverVars
<1>2. ASSUME NEW p \in Proc, NEW k \in Block, BgetRecycle(p, k) PROVE ValidInv'
  <2>1. PICK b \in Buf :
           /\ refcnt[b] = 0 /\ pc[p] = "idle" /\ \A c \in Buf : blockno[c] # k
           /\ blockno' = [blockno EXCEPT ![b] = k] /\ valid' = [valid EXCEPT ![b] = FALSE]
           /\ refcnt' = [refcnt EXCEPT ![b] = 1] /\ buf' = [buf EXCEPT ![p] = b]
           /\ pc' = [pc EXCEPT ![p] = "lock"]
           /\ UNCHANGED <<list, holder, head, wr, pinned>>
    BY <1>2, RecycleIs
  <2>2. \A q \in Proc : buf[q] # b
    BY <2>1, Unreferenced
  <2>3. QED
    BY <2>1, <2>2
<1>3. ASSUME NEW p \in Proc, AcquireWaits(p) PROVE ValidInv'
  BY <1>3 DEF AcquireWaits, Goto, Locked, cacheVars, deviceVars, diskVars, driverVars
<1>4. ASSUME NEW p \in Proc, AcquireSleep(p) PROVE ValidInv'
  BY <1>4 DEF AcquireSleep, Goto, Locked, deviceVars, diskVars, driverVars
<1>5. ASSUME NEW p \in Proc, DiskStart(p) PROVE ValidInv'
  BY <1>5 DEF DiskStart, Blk, CanAlloc, Goto, Least, Submit, cacheVars, deviceVars
<1>6. ASSUME NEW p \in Proc, DiskWaits(p) PROVE ValidInv'
  BY <1>6 DEF DiskWaits, CanAlloc, DescWakeup, Woken, cacheVars, deviceVars, diskVars,
      driverVars
<1>7. ASSUME NEW p \in Proc, DiskSleeps(p) PROVE ValidInv'
  BY <1>7 DEF DiskSleeps, Goto, cacheVars, deviceVars, diskVars, driverVars
<1>8. ASSUME NEW p \in Proc, DiskFinish(p) PROVE ValidInv'
  <2>1. buf[p] \in Buf /\ pc[p] = "iowait"
    BY <1>8, HasBlock DEF DiskFinish
  <2>2. /\ valid' = [valid EXCEPT ![buf[p]] = TRUE] /\ wr' = [wr EXCEPT ![p] = FALSE] /\ buf' = buf
        /\ \A q \in Proc \ {p} : pc'[q] = IF pc[q] = "descsleep" THEN "alloc" ELSE pc[q]
        /\ pc'[p] \in {"have", "wrote"}
    BY <1>8 DEF DiskFinish, DescWakeup, Woken
  <2>3. \A q \in Proc \ {p} : pc[q] \in Inside => buf[q] # buf[p]
    BY <2>1 DEF LockInv
  <2>4. ASSUME NEW q \in Proc
        PROVE  /\ pc'[q] \in {"have", "wrote"} \/ wr'[q] => valid'[buf'[q]]
               /\ pc'[q] \in Disk /\ ~wr'[q] => ~valid'[buf'[q]]
    <3>1. CASE q = p
      BY <2>1, <2>2, <3>1
    <3>2. CASE q # p
      BY <2>1, <2>2, <2>3, <3>2
    <3>3. QED
      BY <3>1, <3>2
  <2>5. QED
    BY <2>4
<1>9. ASSUME NEW p \in Proc, NEW v \in Val, Bwrite(p, v) PROVE ValidInv'
  BY <1>9 DEF Bwrite, Blk, Goto, PanicIf, cacheVars, deviceVars, driverVars
<1>10. ASSUME NEW p \in Proc, ReleaseSleep(p) PROVE ValidInv'
  BY <1>10 DEF ReleaseSleep, Blk, OnBuf, PanicIf, Woken, deviceVars, diskVars,
      driverVars
<1>11. ASSUME NEW p \in Proc, Brelse(p) PROVE ValidInv'
  BY <1>11 DEF Brelse, Goto, MovedToFront, deviceVars, diskVars, driverVars
<1>12. CASE HandleEntry
  BY <1>12 DEF HandleEntry, IntrEntry, NextUsed, OnBuf, PanicIf, Woken, cacheVars
<1>13. CASE UNCHANGED <<valid, pc, buf, wr>>
  BY <1>13
<1> HIDE DEF CacheTypes, Disk, Inside, PhaseInv, ProcTypes, Request, ValidInv
<1>14. QED
  BY <1>1, <1>2, <1>3, <1>4, <1>5, <1>6, <1>7, <1>8, <1>9, <1>10, <1>11, <1>12, <1>13
      DEF vars, Next, Kernel, Use, DiskIntr, Device, cacheVars, procVars, diskVars,
      driverVars, deviceVars, Outside, BgetPanic, LogWrite, Bunpin, IntrAck, IntrDone,
      DeviceTake, DeviceServe

\* bget() and brelse() count users, log_write() and bunpin() the pin of the log.
LEMMA RefcntStep ==
    ASSUME DiskTypes, CacheTypes, ProcTypes, PhaseInv, BlockInv, RefcntExact, ValidInv,
        [Next]_vars
    PROVE  RefcntExact'
<1> USE DEF CacheTypes, ProcTypes
<1>1. ASSUME NEW p \in Proc, NEW k \in Block, NEW b \in Buf, BgetCached(p, k, b)
      PROVE  RefcntExact'
  <2>1. /\ pc[p] = "idle" /\ refcnt' = [refcnt EXCEPT ![b] = refcnt[b] + 1]
        /\ buf' = [buf EXCEPT ![p] = b] /\ UNCHANGED <<blockno, pinned>>
    BY <1>1 DEF BgetCached
  <2>2. buf[p] = None
    BY <2>1 DEF PhaseInv
  <2>3. \A c \in Buf : /\ Cardinality(OnBuf(c)') = Cardinality(OnBuf(c)) + (IF c = b THEN 1 ELSE 0)
                       /\ refcnt'[c] = refcnt[c] + (IF c = b THEN 1 ELSE 0)
    BY <2>1, <2>2, OneMoreUser
  <2>4. QED
    BY <2>1, <2>3, CountKept
<1>2. ASSUME NEW p \in Proc, NEW k \in Block, BgetRecycle(p, k) PROVE RefcntExact'
  <2>1. PICK b \in Buf :
           /\ refcnt[b] = 0 /\ pc[p] = "idle" /\ \A c \in Buf : blockno[c] # k
           /\ blockno' = [blockno EXCEPT ![b] = k] /\ valid' = [valid EXCEPT ![b] = FALSE]
           /\ refcnt' = [refcnt EXCEPT ![b] = 1] /\ buf' = [buf EXCEPT ![p] = b]
           /\ pc' = [pc EXCEPT ![p] = "lock"]
           /\ UNCHANGED <<list, holder, head, wr, pinned>>
    BY <1>2, RecycleIs
  <2>2. buf[p] = None /\ refcnt'[b] = 1
    BY <2>1 DEF PhaseInv
  <2>3. blockno[b] \notin pinned /\ k \notin pinned
    BY <2>1, Unreferenced DEF BlockInv
  <2>4. \A c \in Buf : /\ Cardinality(OnBuf(c)') = Cardinality(OnBuf(c)) + (IF c = b THEN 1 ELSE 0)
                       /\ refcnt'[c] = refcnt[c] + (IF c = b THEN 1 ELSE 0)
    <3>1. \A c \in Buf : refcnt'[c] = IF c = b THEN refcnt[b] + 1 ELSE refcnt[c]
      BY <2>1
    <3>2. buf' = [buf EXCEPT ![p] = b]
      BY <2>1
    <3> HIDE DEF CacheTypes, ProcTypes
    <3>3. QED
      BY <2>2, <3>1, <3>2, OneMoreUser
  <2>5. \A c \in Buf : blockno'[c] \in pinned' <=> blockno[c] \in pinned
    BY <2>1, <2>3
  <2>6. QED
    BY <2>4, <2>5, CountKept
<1>3. ASSUME NEW p \in Proc, NEW v \in Val, LogWrite(p, v) PROVE RefcntExact'
  <2>1. buf[p] \in Buf /\ Blk(p) \in Block /\ Blk(p) = blockno[buf[p]]
    BY <1>3, HasBlock DEF LogWrite, Blk
  <2>2. UNCHANGED <<blockno, buf>> /\ pinned' = pinned \cup {Blk(p)}
    BY <1>3 DEF LogWrite, procVars
  <2>3. \A c \in Buf :
           refcnt'[c] = refcnt[c] + (IF c = buf[p] /\ Blk(p) \notin pinned THEN 1 ELSE 0)
    BY <1>3, <2>1 DEF LogWrite
  <2>4. \A c \in Buf : blockno[c] = Blk(p) <=> c = buf[p]
    <3>1. Blk(p) # None
      BY <2>1, Names
    <3>2. \A b, c \in Buf : blockno[b] = blockno[c] /\ blockno[b] # None => b = c
      BY DEF BlockInv
    <3>3. QED
      BY ONLY <2>1, <3>1, <3>2
  <2>5. \A c \in Buf : OnBuf(c)' = OnBuf(c) /\ Cardinality(OnBuf(c)) \in Nat
    BY <2>2, UsersFinite DEF OnBuf
  <2>6. QED
    BY <2>1, <2>2, <2>3, <2>4, <2>5 DEF RefcntExact
<1>4. ASSUME NEW p \in Proc, Bunpin(p) PROVE RefcntExact'
  <2>1. buf[p] \in Buf /\ Blk(p) \in Block /\ Blk(p) = blockno[buf[p]]
    BY <1>4, HasBlock DEF Bunpin, Blk
  <2>2. UNCHANGED <<blockno, buf>> /\ pinned' = pinned \ {Blk(p)} /\ Blk(p) \in pinned
    BY <1>4 DEF Bunpin, procVars
  <2>3. \A c \in Buf : refcnt'[c] = refcnt[c] - (IF c = buf[p] THEN 1 ELSE 0)
    BY <1>4, <2>1 DEF Bunpin
  <2>4. \A c \in Buf : blockno[c] = Blk(p) <=> c = buf[p]
    <3>1. Blk(p) # None
      BY <2>1, Names
    <3>2. \A b, c \in Buf : blockno[b] = blockno[c] /\ blockno[b] # None => b = c
      BY DEF BlockInv
    <3>3. QED
      BY ONLY <2>1, <3>1, <3>2
  <2>5. \A c \in Buf : OnBuf(c)' = OnBuf(c) /\ Cardinality(OnBuf(c)) \in Nat
    BY <2>2, UsersFinite DEF OnBuf
  <2>6. QED
    BY <2>1, <2>2, <2>3, <2>4, <2>5 DEF RefcntExact
<1>5. ASSUME NEW p \in Proc, Brelse(p) PROVE RefcntExact'
  <2>1. buf[p] \in Buf /\ Blk(p) \in Block /\ Blk(p) = blockno[buf[p]]
    BY <1>5, HasBlock DEF Brelse, Blk
  <2>2. UNCHANGED <<blockno, pinned>> /\ buf' = [buf EXCEPT ![p] = None]
    BY <1>5 DEF Brelse
  <2>3. \A c \in Buf : refcnt'[c] = refcnt[c] - (IF c = buf[p] THEN 1 ELSE 0)
    BY <1>5, <2>1 DEF Brelse
  <2>4. \A c \in Buf : OnBuf(c)' = IF c = buf[p] THEN OnBuf(c) \ {p} ELSE OnBuf(c)
    BY <2>2, Names DEF OnBuf
  <2>5. \A c \in Buf :
           Cardinality(OnBuf(c)') = Cardinality(OnBuf(c)) - (IF c = buf[p] THEN 1 ELSE 0)
    <3>1. p \in OnBuf(buf[p])
      BY DEF OnBuf
    <3>2. Cardinality(OnBuf(buf[p]) \ {p}) = Cardinality(OnBuf(buf[p])) - 1
      BY ONLY <3>1, UsersFinite, FS_RemoveElement
    <3>3. \A c \in Buf : Cardinality(OnBuf(c)) \in Nat
      BY UsersFinite
    <3>4. ASSUME NEW c \in Buf
          PROVE  Cardinality(OnBuf(c)') = Cardinality(OnBuf(c)) - (IF c = buf[p] THEN 1 ELSE 0)
      <4>1. CASE c = buf[p]
        BY ONLY <2>4, <3>2, <4>1, <3>3, <2>1
      <4>2. CASE c # buf[p]
        BY ONLY <2>4, <3>3, <4>2, c \in Buf
      <4>3. QED
        BY <4>1, <4>2
    <3>5. QED
      BY <3>4
  <2>6. \A c \in Buf : Cardinality(OnBuf(c)) \in Nat
    BY UsersFinite
  <2>7. ASSUME NEW c \in Buf
        PROVE  refcnt'[c] = Cardinality(OnBuf(c)') + (IF blockno'[c] \in pinned' THEN 1 ELSE 0)
    <3>1. refcnt[c] = Cardinality(OnBuf(c)) + (IF blockno[c] \in pinned THEN 1 ELSE 0)
      BY DEF RefcntExact
    <3>2. blockno'[c] \in pinned' <=> blockno[c] \in pinned
      BY <2>2
    <3> HIDE DEF CacheTypes, ProcTypes
    <3>3. QED
      BY <2>3, <2>5, <2>6, <3>1, <3>2
  <2>8. QED
    BY <2>7 DEF RefcntExact
<1>6. CASE UNCHANGED <<blockno, refcnt, buf, pinned>>
  BY <1>6 DEF RefcntExact, OnBuf
<1> HIDE DEF CacheTypes, ProcTypes
<1>7. QED
  BY <1>1, <1>2, <1>3, <1>4, <1>5, <1>6, ZenonT(40) DEF vars, Next, Kernel, Use, DiskIntr, Device,
      cacheVars, procVars, diskVars, driverVars, deviceVars, Outside, BgetPanic,
      AcquireWaits, AcquireSleep, DiskStart, DiskWaits, DiskSleeps, DiskFinish, Bwrite,
      ReleaseSleep, HandleEntry, IntrAck, IntrDone, DeviceTake, DeviceServe, Submit,
      FreeChain, IntrEntry

\* What a request says stays as it is until free_chain().
LEMMA RequestStep ==
    ASSUME DiskTypes, CacheTypes, ProcTypes, PhaseInv, BlockInv, RefcntExact,
        RequestInv, LinkInv, [Next]_vars
    PROVE  RequestInv'
<1> USE DEF ProcTypes
<1>1. ASSUME NEW p \in Proc, NEW k \in Block, NEW b \in Buf, BgetCached(p, k, b)
      PROVE  RequestInv'
  <2>1. head[p] = None
    BY <1>1 DEF BgetCached, PhaseInv, Request
  <2>2. buf' = [buf EXCEPT ![p] = b] /\ UNCHANGED <<desc, info, ops, head, wr, blockno>>
    BY <1>1 DEF BgetCached, diskVars, driverVars
  <2>3. ASSUME NEW q \in Proc, head'[q] # None PROVE WellFormed(q)'
    <3>1. buf'[q] = buf[q] /\ head[q] # None
      BY <2>1, <2>2, <2>3
    <3>2. QED
      BY <2>2, <3>1, SameRequest DEF Blk
  <2>4. QED
    BY <2>3 DEF RequestInv
<1>2. ASSUME NEW p \in Proc, NEW k \in Block, BgetRecycle(p, k) PROVE RequestInv'
  <2>1. PICK b \in Buf :
           /\ refcnt[b] = 0 /\ pc[p] = "idle" /\ \A c \in Buf : blockno[c] # k
           /\ blockno' = [blockno EXCEPT ![b] = k] /\ valid' = [valid EXCEPT ![b] = FALSE]
           /\ refcnt' = [refcnt EXCEPT ![b] = 1] /\ buf' = [buf EXCEPT ![p] = b]
           /\ pc' = [pc EXCEPT ![p] = "lock"]
           /\ UNCHANGED <<list, holder, head, wr, pinned>>
    BY <1>2, RecycleIs
  <2>2. head[p] = None /\ \A q \in Proc : buf[q] # b
    BY <2>1, Unreferenced DEF PhaseInv, Request
  <2>3. UNCHANGED <<desc, info, ops>>
    BY <1>2 DEF BgetRecycle, diskVars, driverVars
  <2>4. ASSUME NEW q \in Proc, head'[q] # None PROVE WellFormed(q)'
    <3>1. buf'[q] = buf[q] /\ head[q] # None
      BY <2>1, <2>2, <2>4
    <3>2. blockno'[buf[q]] = blockno[buf[q]]
      BY <2>1, <2>2 DEF CacheTypes
    <3>3. QED
      BY <2>1, <2>3, <3>1, <3>2, SameRequest DEF Blk
  <2>5. QED
    BY <2>4 DEF RequestInv
<1>3. ASSUME NEW p \in Proc, DiskStart(p) PROVE RequestInv'
  <2>1. PICK a \in free, b \in free, c \in free :
           /\ a # b /\ a # c /\ b # c /\ head' = [head EXCEPT ![p] = a] /\ desc'[a].next = b
           /\ desc'[b].next = c /\ desc'[c].next = None /\ desc'[b].addr = buf[p]
           /\ desc'[c].addr = a
           /\ \A i \in Desc \ {a, b, c} : desc'[i] = desc[i]
           /\ ops'[a].write = wr[p] /\ ops'[a].sector = Blk(p)
           /\ \A i \in Desc \ {a} : ops'[i] = ops[i]
           /\ info' = [info EXCEPT ![a] = buf[p]]
    BY <1>3, SubmitIs
  <2>2. UNCHANGED <<wr, buf, blockno>> /\ pc[p] = "alloc"
    BY <1>3 DEF DiskStart, cacheVars
  <2>3. a \in Desc /\ b \in Desc /\ c \in Desc
    BY <2>1 DEF DiskTypes
  <2>4. ASSUME NEW q \in Proc, head'[q] # None PROVE WellFormed(q)'
    <3>1. CASE q = p
      <4>1. head'[p] = a /\ info'[a] = buf[p]
        BY <2>1, <2>3 DEF DiskTypes
      <4>2. Second(p)' = b
        BY <2>1, <4>1 DEF Second
      <4>3. Third(p)' = c
        BY <2>1, <4>2 DEF Third
      <4>4. Blk(p)' = Blk(p)
        BY <2>2 DEF Blk
      <4>5. QED
        BY <2>1, <2>2, <2>3, <3>1, <4>1, <4>2, <4>3, <4>4 DEF WellFormed
    <3>2. CASE q # p
      <4>1. head'[q] = head[q] /\ head[q] # None
        BY <2>1, <2>4, <3>2
      <4>2. WellFormed(q) /\ Links(q) \cap free = {}
        BY <4>1 DEF RequestInv, LinkInv
      <4>3. Links(q) \subseteq Desc /\ head[q] \in Links(q)
        BY <4>1, <4>2 DEF Links, WellFormed
      <4>4. \A i \in Links(q) : i \in Desc \ {a, b, c}
        BY <2>1, <4>2, <4>3
      <4>5. \A i \in Links(q) : desc'[i] = desc[i]
        BY <2>1, <4>4
      <4>6. info'[head[q]] = info[head[q]] /\ ops'[head[q]] = ops[head[q]]
        BY <2>1, <4>3, <4>4 DEF DiskTypes
      <4>7. Blk(q)' = Blk(q) /\ buf'[q] = buf[q] /\ wr'[q] = wr[q]
        BY <2>2 DEF Blk
      <4>8. QED
        BY <4>1, <4>5, <4>6, <4>7, SameRequest
    <3>3. QED
      BY <3>1, <3>2
  <2>5. QED
    BY <2>4 DEF RequestInv
<1>4. ASSUME NEW p \in Proc, DiskFinish(p) PROVE RequestInv'
  <2>1. /\ head[p] \in Desc
        /\ \A i \in Desc \ Links(p) : desc'[i] = desc[i]
        /\ \A i \in Desc \ {head[p]} : ops'[i] = ops[i]
        /\ info' = [info EXCEPT ![head[p]] = None]
    BY <1>4, FinishIs
  <2>2. /\ head' = [head EXCEPT ![p] = None] /\ wr' = [wr EXCEPT ![p] = FALSE]
        /\ UNCHANGED <<buf, blockno>>
    BY <1>4 DEF DiskFinish
  <2>3. ASSUME NEW q \in Proc, head'[q] # None PROVE WellFormed(q)'
    <3>1. head[q] # None /\ q # p /\ head'[q] = head[q] /\ wr'[q] = wr[q] /\ head[p] # None
      BY <2>1, <2>2, <2>3, Names
    <3>2. WellFormed(q) /\ Links(q) \cap Links(p) = {}
      BY <3>1 DEF RequestInv, LinkInv
    <3>3. /\ Links(q) \subseteq Desc /\ head[q] \in Links(q) /\ head[p] \in Links(p)
          /\ head[q] \in Desc
      BY <3>1, <3>2 DEF Links, WellFormed
    <3>4. \A i \in Links(q) : desc'[i] = desc[i]
      BY <2>1, <3>2, <3>3
    <3>5. head[q] # head[p]
      BY <3>2, <3>3
    <3>6. info'[head[q]] = info[head[q]] /\ ops'[head[q]] = ops[head[q]]
      <4>1. head[q] \in Desc \ {head[p]} /\ info \in [Desc -> Buf \cup {None}]
        BY <3>3, <3>5 DEF DiskTypes
      <4>2. info'[head[q]] = info[head[q]]
        BY ONLY <2>1, <4>1
      <4>3. ops'[head[q]] = ops[head[q]]
        BY ONLY <2>1, <4>1
      <4>4. QED
        BY <4>2, <4>3
    <3>7. Blk(q)' = Blk(q) /\ buf'[q] = buf[q]
      BY <2>2 DEF Blk
    <3>8. QED
      BY <3>1, <3>4, <3>6, <3>7, SameRequest
  <2>4. QED
    BY <2>3 DEF RequestInv
<1>5. ASSUME NEW p \in Proc, NEW v \in Val, Bwrite(p, v) PROVE RequestInv'
  <2>1. head[p] = None
    BY <1>5 DEF Bwrite, PhaseInv, Request
  <2>2. wr' = [wr EXCEPT ![p] = TRUE] /\ UNCHANGED <<desc, info, ops, head, buf, blockno>>
    BY <1>5 DEF Bwrite, driverVars, cacheVars
  <2>3. ASSUME NEW q \in Proc, head'[q] # None PROVE WellFormed(q)'
    <3>1. wr'[q] = wr[q] /\ head[q] # None
      BY <2>1, <2>2, <2>3
    <3>2. QED
      BY <2>2, <3>1, SameRequest DEF Blk
  <2>4. QED
    BY <2>3 DEF RequestInv
<1>6. ASSUME NEW p \in Proc, Brelse(p) PROVE RequestInv'
  <2>1. head[p] = None
    BY <1>6 DEF Brelse, PhaseInv, Request
  <2>2. buf' = [buf EXCEPT ![p] = None] /\ UNCHANGED <<desc, info, ops, head, wr, blockno>>
    BY <1>6 DEF Brelse, diskVars, driverVars
  <2>3. ASSUME NEW q \in Proc, head'[q] # None PROVE WellFormed(q)'
    <3>1. buf'[q] = buf[q] /\ head[q] # None
      BY <2>1, <2>2, <2>3
    <3>2. QED
      BY <2>2, <3>1, SameRequest DEF Blk
  <2>4. QED
    BY <2>3 DEF RequestInv
<1>7. CASE UNCHANGED <<desc, ops, info, blockno, buf, head, wr>>
  BY <1>7 DEF RequestInv, WellFormed, Second, Third, Blk
<1> HIDE DEF ProcTypes
<1>8. QED
  BY <1>1, <1>2, <1>3, <1>4, <1>5, <1>6, <1>7 DEF vars, Next, Kernel, Use, DiskIntr,
      Device, cacheVars, procVars, diskVars, driverVars, deviceVars, Outside, BgetPanic,
      AcquireWaits, AcquireSleep, DiskWaits, DiskSleeps, LogWrite, Bunpin, ReleaseSleep,
      HandleEntry, IntrAck, IntrDone, DeviceTake, DeviceServe, IntrEntry

\* alloc3_desc() takes free descriptors, free_chain() gives back those of one request.
LEMMA LinkStep ==
    ASSUME DiskTypes, CacheTypes, ProcTypes, PhaseInv, BlockInv, RequestInv, LinkInv,
        [Next]_vars
    PROVE  LinkInv'
<1> USE DEF ProcTypes
<1>1. ASSUME NEW p \in Proc, DiskStart(p) PROVE LinkInv'
  <2>1. PICK a \in free, b \in free, c \in free :
           /\ a # b /\ a # c /\ b # c /\ free' = free \ {a, b, c}
           /\ head' = [head EXCEPT ![p] = a] /\ desc'[a].next = b /\ desc'[b].next = c
           /\ desc'[c].next = None /\ desc'[b].addr = buf[p] /\ desc'[c].addr = a
           /\ \A i \in Desc \ {a, b, c} : desc'[i] = desc[i]
    BY <1>1, SubmitIs
  <2>2. a \in Desc /\ b \in Desc /\ c \in Desc /\ a # None /\ head[p] = None
    BY <1>1, <2>1, Names DEF DiskTypes, DiskStart, PhaseInv, Request
  <2>3. head'[p] = a /\ Links(p)' = {a, b, c}
    <3>1. head'[p] = a
      BY <2>1
    <3>2. Second(p)' = b
      BY <2>1, <3>1 DEF Second
    <3>3. Third(p)' = c
      BY <2>1, <3>2 DEF Third
    <3>4. QED
      BY <3>1, <3>2, <3>3 DEF Links
  <2>4. ASSUME NEW q \in Proc, head'[q] # None, q # p
        PROVE  head[q] # None /\ Links(q)' = Links(q) /\ Links(q) \cap free = {}
    <3>1. head[q] # None /\ head'[q] = head[q]
      BY <2>1, <2>4
    <3>2. WellFormed(q) /\ Links(q) \cap free = {}
      BY <3>1 DEF RequestInv, LinkInv
    <3>3. Links(q) \subseteq Desc
      BY <3>1, <3>2 DEF Links, WellFormed
    <3>4. \A i \in Links(q) : i \in Desc \ {a, b, c}
      BY <2>1, <3>2, <3>3
    <3>5. \A i \in Links(q) : desc'[i] = desc[i]
      BY <2>1, <3>4
    <3>6. Second(q)' = Second(q)
      BY <3>1, <3>5 DEF Second, Links
    <3>7. Third(q)' = Third(q)
      BY <3>5, <3>6 DEF Third, Links
    <3>8. QED
      BY <3>1, <3>2, <3>6, <3>7 DEF Links
  <2>5. \A q \in Proc : head'[q] # None => Links(q)' \cap free' = {}
    BY <2>1, <2>3, <2>4
  <2>6. \A q, r \in Proc : head'[q] # None
           /\ head'[r] # None /\ q # r => Links(q)' \cap Links(r)' = {}
    <3>1. ASSUME NEW q \in Proc, head'[q] # None, q # p PROVE Links(q)' \cap Links(p)' = {}
      BY <2>3, <2>4, <3>1
    <3>2. ASSUME NEW q \in Proc, NEW r \in Proc, head'[q] # None, head'[r] # None,
                 q # r, q # p, r # p
          PROVE  Links(q)' \cap Links(r)' = {}
      BY <2>4, <3>2 DEF LinkInv
    <3>3. QED
      BY <3>1, <3>2
  <2>7. ASSUME NEW i \in Desc
        PROVE  i \in free' \/ \E q \in Proc : head'[q] # None /\ i \in Links(q)'
    <3>1. CASE i \in free
      BY <2>1, <2>2, <2>3, <3>1
    <3>2. CASE i \notin free
      <4>1. PICK q \in Proc : head[q] # None /\ i \in Links(q)
        BY <3>2 DEF LinkInv
      <4>2. q # p /\ head'[q] = head[q]
        BY <2>1, <2>2, <4>1
      <4>3. QED
        BY <2>4, <4>1, <4>2
    <3>3. QED
      BY <3>1, <3>2
  <2>8. QED
    BY <2>5, <2>6, <2>7 DEF LinkInv
<1>2. ASSUME NEW p \in Proc, DiskFinish(p) PROVE LinkInv'
  <2>1. /\ head[p] \in Desc /\ Links(p) \subseteq Desc /\ free' = free \cup Links(p)
        /\ \A i \in Desc \ Links(p) : desc'[i] = desc[i]
    BY <1>2, FinishIs
  <2>2. head' = [head EXCEPT ![p] = None] /\ head[p] # None
    BY <1>2, <2>1, Names DEF DiskFinish
  <2>3. ASSUME NEW q \in Proc, head'[q] # None
        PROVE  /\ q # p /\ head[q] # None /\ Links(q)' = Links(q)
               /\ Links(q) \cap free = {} /\ Links(q) \cap Links(p) = {}
    <3>1. head[q] # None /\ q # p /\ head'[q] = head[q]
      BY <2>2, <2>3
    <3>2. WellFormed(q) /\ Links(q) \cap Links(p) = {} /\ Links(q) \cap free = {}
      BY <2>2, <3>1 DEF RequestInv, LinkInv
    <3>3. Links(q) \subseteq Desc
      BY <3>1, <3>2 DEF Links, WellFormed
    <3>4. \A i \in Links(q) : desc'[i] = desc[i]
      BY <2>1, <3>2, <3>3
    <3>5. Second(q)' = Second(q)
      BY <3>1, <3>4 DEF Second, Links
    <3>6. Third(q)' = Third(q)
      BY <3>4, <3>5 DEF Third, Links
    <3>7. QED
      BY <3>1, <3>2, <3>5, <3>6 DEF Links
  <2>4. \A q \in Proc : head'[q] # None => Links(q)' \cap free' = {}
    BY <2>1, <2>3
  <2>5. \A q, r \in Proc : head'[q] # None
           /\ head'[r] # None /\ q # r => Links(q)' \cap Links(r)' = {}
    BY <2>3 DEF LinkInv
  <2>6. ASSUME NEW i \in Desc
        PROVE  i \in free' \/ \E q \in Proc : head'[q] # None /\ i \in Links(q)'
    <3>1. CASE i \in free \/ i \in Links(p)
      BY <2>1, <3>1
    <3>2. CASE ~(i \in free \/ i \in Links(p))
      <4>1. PICK q \in Proc : head[q] # None /\ i \in Links(q)
        BY <3>2 DEF LinkInv
      <4>2. q # p /\ head'[q] = head[q]
        BY <2>2, <3>2, <4>1
      <4>3. QED
        BY <2>3, <4>1, <4>2
    <3>3. QED
      BY <3>1, <3>2
  <2>7. QED
    BY <2>4, <2>5, <2>6 DEF LinkInv
<1>3. CASE UNCHANGED <<free, desc, head>>
  BY <1>3 DEF LinkInv, Links, Second, Third
<1> HIDE DEF ProcTypes
<1>4. QED
  BY <1>1, <1>2, <1>3, ZenonT(40) DEF vars, Next, Kernel, Use, DiskIntr, Device, cacheVars,
      procVars, diskVars, driverVars, deviceVars, Outside, BgetCached, BgetRecycle,
      BgetPanic, AcquireWaits, AcquireSleep, DiskWaits, DiskSleeps, LogWrite, Bwrite,
      Bunpin, ReleaseSleep, Brelse, HandleEntry, IntrAck, IntrDone, DeviceTake,
      DeviceServe, IntrEntry

\* The rings are never overwritten: they have a place for each request.
LEMMA RingStep ==
    ASSUME DiskTypes, CacheTypes, ProcTypes, PhaseInv, BlockInv, RequestInv, LinkInv,
        RingInv, StageInv, [Next]_vars
    PROVE  RingInv'
<1> USE DEF RingInv
<1>1. ASSUME NEW p \in Proc, DiskStart(p) PROVE RingInv'
  <2> HIDE DEF RingInv
  <2>1. PICK a \in free, b \in free, c \in free :
           /\ a # b /\ avail'.ring = Stored(avail.ring, avail.idx % NUM, a)
           /\ avail'.idx = NextIdx(avail.idx)
           /\ avail' = [ring |-> avail'.ring, idx |-> avail'.idx]
    BY <1>1, SubmitIs
  <2>2. UNCHANGED <<seen, used, usedIdx>>
    BY <1>1 DEF DiskStart, Submit, deviceVars
  <2>3. Kept(avail.ring, seen, avail.idx)'
    BY <2>1, <2>2, SubmitQueues
  <2>4. QED
    BY <2>2, <2>3 DEF RingInv, Kept
<1>2. CASE HandleEntry
  <2> HIDE DEF RingInv
  <2>1. PICK q \in Proc :
           /\ Kept(used.ring, usedIdx, used.idx)'
    BY <1>2, EntryIs
  <2>2. UNCHANGED <<avail, seen>>
    BY <1>2 DEF HandleEntry, IntrEntry
  <2>3. QED
    BY <2>1, <2>2 DEF RingInv, Kept
<1>3. CASE DeviceTake /\ UNCHANGED Outside
  <2> HIDE DEF RingInv
  <2>1. PICK h \in Desc :
           /\ Kept(avail.ring, seen, avail.idx)'
    BY <1>3, TakeIs
  <2>2. UNCHANGED <<used, usedIdx>>
    BY <1>3 DEF DeviceTake
  <2>3. QED
    BY <2>1, <2>2 DEF RingInv, Kept
<1>4. ASSUME NEW i \in Desc, DeviceServe(i) /\ UNCHANGED Outside PROVE RingInv'
  <2> HIDE DEF RingInv
  <2>1. PICK q \in Proc :
           /\ Kept(used.ring, usedIdx, used.idx)'
    BY <1>4, ServeIs
  <2>2. UNCHANGED <<avail, seen>>
    BY <1>4 DEF DeviceServe, driverVars
  <2>3. QED
    BY <2>1, <2>2 DEF RingInv, Kept
<1>5. CASE UNCHANGED <<avail, used, usedIdx, seen>>
  BY <1>5 DEF Kept
<1> HIDE DEF RingInv
<1>6. QED
  BY <1>1, <1>2, <1>3, <1>4, <1>5 DEF vars, Next, Kernel, Use, DiskIntr, Device,
      cacheVars, procVars, diskVars, driverVars, deviceVars, Outside, BgetCached,
      BgetRecycle, BgetPanic, AcquireWaits, AcquireSleep, DiskWaits, DiskSleeps,
      DiskFinish, LogWrite, Bwrite, Bunpin, ReleaseSleep, Brelse, IntrAck, IntrDone,
      FreeChain

\* A request goes from the ring to the device, to the other ring and to the handler.
LEMMA StageStep ==
    ASSUME DiskTypes, CacheTypes, ProcTypes, PhaseInv, BlockInv, RequestInv, LinkInv,
        RingInv, StageInv, LockInv, [Next]_vars
    PROVE  StageInv'
<1> USE DEF ProcTypes
<1>1. ASSUME NEW p \in Proc, NEW k \in Block, NEW b \in Buf, BgetCached(p, k, b)
      PROVE  StageInv'
  <2>1. head[p] = None
    BY <1>1 DEF BgetCached, PhaseInv, Request
  <2>2. buf' = [buf EXCEPT ![p] = b] /\ UNCHANGED <<owned, head, avail, used, taken, status>>
    BY <1>1 DEF BgetCached, diskVars, driverVars, deviceVars
  <2>3. \A h \in Desc : (\E q \in Proc : head'[q] = h /\ owned'[buf'[q]])
                         <=> (\E q \in Proc : head[q] = h /\ owned[buf[q]])
    BY <2>1, <2>2, Names
  <2>4. QED
    BY <2>2, <2>3, SameStages
<1>2. ASSUME NEW p \in Proc, NEW k \in Block, BgetRecycle(p, k) PROVE StageInv'
  <2>1. head[p] = None
    BY <1>2 DEF BgetRecycle, PhaseInv, Request
  <2>2. buf' = [buf EXCEPT ![p] = Lru] /\ UNCHANGED <<owned, head, avail, used, taken, status>>
    BY <1>2 DEF BgetRecycle, diskVars, driverVars, deviceVars
  <2>3. \A h \in Desc : (\E q \in Proc : head'[q] = h /\ owned'[buf'[q]])
                         <=> (\E q \in Proc : head[q] = h /\ owned[buf[q]])
    BY <2>1, <2>2, Names
  <2>4. QED
    BY <2>2, <2>3, SameStages
<1>3. ASSUME NEW p \in Proc, DiskStart(p) PROVE StageInv'
  <2>1. PICK a \in free, b \in free, c \in free :
           /\ a # b /\ head' = [head EXCEPT ![p] = a]
           /\ status' = [status EXCEPT ![a] = FALSE]
           /\ owned' = [owned EXCEPT ![buf[p]] = TRUE]
           /\ avail'.ring = Stored(avail.ring, avail.idx % NUM, a)
           /\ avail'.idx = NextIdx(avail.idx)
           /\ avail' = [ring |-> avail'.ring, idx |-> avail'.idx]
    BY <1>3, SubmitIs
  <2>2. a \in Desc /\ a # None /\ head[p] = None /\ pc[p] \in Inside /\ buf[p] \in Buf
    BY <1>3, <2>1, Names, HasBlock DEF DiskTypes, DiskStart, PhaseInv, Request, Inside
  <2>3. UNCHANGED <<seen, used, taken, buf>>
    BY <1>3 DEF DiskStart, Submit, deviceVars
  <2>4. \A h \in Desc : Queued(h)' <=> Queued(h) \/ h = a
    BY <2>1, <2>3, SubmitQueues
  <2>5. \A h \in Desc : Finished(h)' <=> Finished(h)
    BY <2>3 DEF Finished
  <2>6. \A q \in Proc : head[q] # a
    BY <2>1, <2>2, HeadsApart
  <2>7. ~Queued(a) /\ a \notin taken /\ ~Finished(a)
    BY <2>2, <2>6, EntryHasOwner
  <2>8. ASSUME NEW h \in Desc
        PROVE  (\E q \in Proc : head'[q] = h /\ owned'[buf'[q]])
                  <=> h = a \/ \E q \in Proc : head[q] = h /\ owned[buf[q]]
    <3>1. h # None /\ owned \in [Buf -> BOOLEAN]
      BY Names DEF DiskTypes
    <3>2. head'[p] = a /\ owned'[buf'[p]]
      BY <2>1, <2>2, <2>3, <3>1
    <3>3. ASSUME NEW q \in Proc, q # p, head[q] # None
          PROVE  head'[q] = head[q] /\ owned'[buf'[q]] = owned[buf[q]]
      <4>1. buf[q] # buf[p]
        BY <2>2, <3>3, RequestsApart, RequestIsInside
      <4>2. QED
        BY <2>1, <2>3, <3>3, <4>1
    <3>4. CASE h = a
      BY <2>3, <3>2, <3>4
    <3>5. CASE h # a
      <4>1. \A q \in Proc : head'[q] = h <=> head[q] = h
        BY <2>1, <2>2, <3>1, <3>5
      <4>2. \A q \in Proc : head[q] = h => owned'[buf'[q]] = owned[buf[q]]
        BY <2>2, <3>1, <3>3
      <4>3. QED
        BY <3>5, <4>1, <4>2
    <3>6. QED
      BY <3>4, <3>5
  <2>9. \A h \in Desc : Queued(h)' \/ h \in taken' \/ Finished(h)'
                            <=> \E q \in Proc : head'[q] = h /\ owned'[buf'[q]]
    BY <2>3, <2>4, <2>5, <2>8 DEF StageInv
  <2>10. \A h \in Desc : Finished(h)' => status'[h]
    BY <2>1, <2>5, <2>7 DEF StageInv, DiskTypes
  <2>11. \A h \in Desc : /\ ~(Queued(h)' /\ h \in taken') /\ ~(Queued(h)' /\ Finished(h)')
                         /\ ~(h \in taken' /\ Finished(h)')
    BY <2>3, <2>4, <2>5, <2>7 DEF StageInv
  <2>12. QED
    BY <2>9, <2>10, <2>11 DEF StageInv
<1>4. ASSUME NEW p \in Proc, DiskFinish(p) PROVE StageInv'
  <2>1. /\ head[p] \in Desc /\ status' = [status EXCEPT ![head[p]] = FALSE]
    BY <1>4, FinishIs
  <2>2. /\ head' = [head EXCEPT ![p] = None] /\ ~owned[buf[p]] /\ head[p] # None
        /\ UNCHANGED <<owned, avail, used, taken, buf>>
    BY <1>4, <2>1, Names DEF DiskFinish, FreeChain, deviceVars
  <2>3. \A h \in Desc : (\E q \in Proc : head'[q] = h /\ owned'[buf'[q]])
                           <=> (\E q \in Proc : head[q] = h /\ owned[buf[q]])
    BY <2>2, Names
  <2>4. \A h : (Queued(h)' <=> Queued(h)) /\ (Finished(h)' <=> Finished(h))
    BY <2>2 DEF Queued, Finished
  <2>5. ~Finished(head[p])
    BY <2>1, <2>2, EntryHasOwner, HeadsApart
  <2>6. \A h \in Desc : Finished(h)' => status'[h]
    BY <2>1, <2>4, <2>5 DEF StageInv, DiskTypes
  <2>7. QED
    BY <2>2, <2>3, <2>4, <2>6 DEF StageInv
<1>5. ASSUME NEW p \in Proc, Brelse(p) PROVE StageInv'
  <2>1. head[p] = None
    BY <1>5 DEF Brelse, PhaseInv, Request
  <2>2. buf' = [buf EXCEPT ![p] = None] /\ UNCHANGED <<owned, head, avail, used, taken, status>>
    BY <1>5 DEF Brelse, diskVars, driverVars, deviceVars
  <2>3. \A h \in Desc : (\E q \in Proc : head'[q] = h /\ owned'[buf'[q]])
                         <=> (\E q \in Proc : head[q] = h /\ owned[buf[q]])
    BY <2>1, <2>2, Names
  <2>4. QED
    BY <2>2, <2>3, SameStages
<1>6. CASE HandleEntry
  <2>1. PICK q \in Proc :
           /\ head[q] \in Desc /\ buf[q] \in Buf /\ Finished(head[q])
           /\ owned' = [owned EXCEPT ![buf[q]] = FALSE]
           /\ \A h \in Desc : Finished(h)' <=> Finished(h) /\ h # head[q]
    BY <1>6, EntryIs
  <2>2. UNCHANGED <<head, buf, avail, taken, status>> /\ head[q] # None
    BY <1>6, <2>1, Names DEF HandleEntry, IntrEntry
  <2>3. \A h \in Desc : Queued(h)' <=> Queued(h)
    BY <2>2 DEF Queued
  <2>4. \A r \in Proc : head[r] = head[q] => r = q
    BY <2>2, HeadsApart
  <2>5. ASSUME NEW r \in Proc, head[r] # None, r # q PROVE owned'[buf'[r]] = owned[buf[r]]
    <3>1. buf[r] # buf[q] /\ buf[r] \in Buf
      BY <2>2, <2>5, RequestsApart, RequestIsInside
    <3>2. QED
      BY <2>1, <2>2, <3>1 DEF DiskTypes
  <2>6. ~owned'[buf'[q]]
    BY <2>1, <2>2 DEF DiskTypes
  <2>7. \A h \in Desc : (\E r \in Proc : head'[r] = h /\ owned'[buf'[r]])
                           <=> h # head[q] /\ \E r \in Proc : head[r] = h /\ owned[buf[r]]
    BY <2>2, <2>4, <2>5, <2>6, Names
  <2>8. ~Queued(head[q]) /\ head[q] \notin taken
    BY <2>1 DEF StageInv
  <2>9. QED
    BY <2>1, <2>2, <2>3, <2>7, <2>8 DEF StageInv
<1>7. CASE DeviceTake /\ UNCHANGED Outside
  <2>1. PICK h \in Desc :
           /\ Queued(h) /\ taken' = taken \cup {h}
           /\ \A g \in Desc : Queued(g)' <=> Queued(g) /\ g # h
    BY <1>7, TakeIs
  <2>2. UNCHANGED <<head, buf, owned, used, status>>
    BY <1>7 DEF DeviceTake, Outside, procVars
  <2>3. \A g \in Desc : Finished(g)' <=> Finished(g)
    BY <2>2 DEF Finished
  <2>4. QED
    BY <2>1, <2>2, <2>3 DEF StageInv
<1>8. ASSUME NEW i \in Desc, DeviceServe(i) /\ UNCHANGED Outside PROVE StageInv'
  <2>1. PICK q \in Proc :
           /\ i \in taken /\ taken' = taken \ {i} /\ status' = [status EXCEPT ![i] = TRUE]
           /\ \A h \in Desc : Finished(h)' <=> Finished(h) \/ h = i
    BY <1>8, ServeIs
  <2>2. UNCHANGED <<head, buf, owned, avail>>
    BY <1>8 DEF DeviceServe, driverVars, Outside, procVars
  <2>3. \A h \in Desc : Queued(h)' <=> Queued(h)
    BY <2>2 DEF Queued
  <2>4. \A h \in Desc : Finished(h)' => status'[h]
    BY <2>1 DEF StageInv, DiskTypes
  <2>5. QED
    BY <2>1, <2>2, <2>3, <2>4 DEF StageInv
<1>9. CASE UNCHANGED <<status, owned, avail, used, taken, buf, head>>
  BY <1>9 DEF StageInv, Queued, Finished
<1> HIDE DEF ProcTypes
<1>10. QED
  BY <1>1, <1>2, <1>3, <1>4, <1>5, <1>6, <1>7, <1>8, <1>9 DEF vars, Next, Kernel, Use,
      DiskIntr, Device, cacheVars, procVars, diskVars, driverVars, deviceVars, Outside,
      BgetPanic, AcquireWaits, AcquireSleep, DiskWaits, DiskSleeps, LogWrite, Bwrite,
      Bunpin, ReleaseSleep, IntrAck, IntrDone

\* Data that is not on the disk is pinned, or its writer is in virtio_disk_rw().
LEMMA DataStep ==
    ASSUME DiskTypes, CacheTypes, ProcTypes, PhaseInv, BlockInv, RequestInv, LinkInv,
        RingInv, StageInv, LockInv, ValidInv, RefcntExact, DataInv, [Next]_vars
    PROVE  DataInv'
<1> USE DEF Blk, CacheTypes, DataInv, ProcTypes, Same
<1>1. ASSUME NEW p \in Proc, NEW k \in Block, NEW b \in Buf, BgetCached(p, k, b)
      PROVE  DataInv'
  <2> HIDE DEF DataInv, Same, ProcTypes, CacheTypes, Blk
  <2>1. /\ UNCHANGED <<avail, data, platter, taken, blockno, valid, head, wr, pinned>>
        /\ pc[p] = "idle" /\ \A q \in Proc \ {p} : buf'[q] = buf[q] /\ pc'[q] = pc[q]
        /\ pc'[p] = "lock"
    BY <1>1 DEF BgetCached, Goto, diskVars, driverVars, deviceVars, ProcTypes
  <2>2. head[p] = None /\ ~wr[p]
    BY <2>1 DEF PhaseInv, Request, Disk
  <2>3. \A c : Same(c)' <=> Same(c)
    BY <2>1 DEF Same
  <2>4. \A h : Queued(h)' <=> Queued(h)
    BY <2>1 DEF Queued
  <2>5. ASSUME NEW q \in Proc, pc'[q] = "wrote" PROVE Same(buf[q])'
    BY <2>1, <2>3, <2>5 DEF DataInv
  <2>6. ASSUME NEW q \in Proc, head'[q] # None, ~Queued(head[q])', ~(head[q] \in taken)'
        PROVE  Same(buf[q])'
    BY <2>1, <2>2, <2>3, <2>4, <2>6 DEF DataInv
  <2>7. ASSUME NEW c \in Buf, valid'[c], ~(blockno[c] \in pinned)',
                ~(\E q \in Proc : buf'[q] = c /\ wr'[q])
        PROVE  Same(c)'
    BY <2>1, <2>2, <2>3, <2>7 DEF DataInv
  <2>8. QED
    BY <2>5, <2>6, <2>7 DEF DataInv
<1>2. ASSUME NEW p \in Proc, NEW k \in Block, BgetRecycle(p, k) PROVE DataInv'
  <2> HIDE DEF DataInv, Same, ProcTypes, CacheTypes, Blk
  <2>1. PICK b \in Buf :
           /\ refcnt[b] = 0 /\ pc[p] = "idle" /\ \A c \in Buf : blockno[c] # k
           /\ blockno' = [blockno EXCEPT ![b] = k] /\ valid' = [valid EXCEPT ![b] = FALSE]
           /\ refcnt' = [refcnt EXCEPT ![b] = 1] /\ buf' = [buf EXCEPT ![p] = b]
           /\ pc' = [pc EXCEPT ![p] = "lock"]
           /\ UNCHANGED <<list, holder, head, wr, pinned>>
    BY <1>2, RecycleIs
  <2>2. UNCHANGED <<avail, data, platter, taken>>
    BY <1>2 DEF BgetRecycle, diskVars, driverVars, deviceVars
  <2>3. head[p] = None /\ ~wr[p] /\ \A q \in Proc : buf[q] # b
    BY <2>1, Unreferenced DEF PhaseInv, Request, Disk
  <2>4. \A c : c # b => (Same(c)' <=> Same(c))
    BY <2>1, <2>2 DEF Same, CacheTypes
  <2>5. \A h : Queued(h)' <=> Queued(h)
    BY <2>2 DEF Queued
  <2>6. pc'[p] = "lock" /\ \A q \in Proc \ {p} : buf'[q] = buf[q] /\ pc'[q] = pc[q]
    BY <2>1 DEF ProcTypes
  <2>7. \A c \in Buf : c # b => valid'[c] = valid[c] /\ blockno'[c] = blockno[c]
    BY <2>1 DEF CacheTypes
  <2>8. ~valid'[b]
    BY <2>1 DEF CacheTypes
  <2>9. ASSUME NEW q \in Proc, pc'[q] = "wrote" PROVE Same(buf[q])'
    BY <2>3, <2>4, <2>6, <2>9 DEF DataInv
  <2>10. ASSUME NEW q \in Proc, head'[q] # None, ~Queued(head[q])', ~(head[q] \in taken)'
        PROVE  Same(buf[q])'
    BY <2>1, <2>2, <2>3, <2>4, <2>5, <2>6, <2>10 DEF DataInv
  <2>11. ASSUME NEW c \in Buf, valid'[c], ~(blockno[c] \in pinned)',
                ~(\E q \in Proc : buf'[q] = c /\ wr'[q])
        PROVE  Same(c)'
    <3>1. c # b /\ valid[c] /\ blockno[c] \notin pinned /\ (Same(c)' <=> Same(c))
      <4>1. c # b
        BY <2>8, <2>11
      <4>2. pinned' = pinned
        BY <2>1
      <4>3. QED
        BY <2>4, <2>7, <2>11, <4>1, <4>2
    <3>2. ~(\E q \in Proc : buf[q] = c /\ wr[q])
      BY <2>1, <2>3, <2>6, <2>11
    <3>3. QED
      BY <3>1, <3>2 DEF DataInv
  <2>12. QED
    BY <2>9, <2>10, <2>11 DEF DataInv
<1>3. ASSUME NEW p \in Proc, AcquireWaits(p) PROVE DataInv'
  <2>1. UNCHANGED <<avail, data, platter, taken, blockno, valid, buf, head, wr, pinned>>
    BY <1>3 DEF AcquireWaits, diskVars, driverVars, deviceVars, cacheVars
  <2>2. \A q \in Proc : pc'[q] = "wrote" => pc[q] = "wrote"
    BY <1>3 DEF ProcTypes, AcquireWaits, Goto
  <2> HIDE DEF DataInv, Same, ProcTypes, CacheTypes, Blk
  <2>3. QED
    BY <2>1, <2>2, SameData
<1>4. ASSUME NEW p \in Proc, AcquireSleep(p) PROVE DataInv'
  <2>1. UNCHANGED <<avail, data, platter, taken, blockno, valid, buf, head, wr, pinned>>
    BY <1>4 DEF AcquireSleep, diskVars, driverVars, deviceVars
  <2>2. \A q \in Proc : pc'[q] = "wrote" => pc[q] = "wrote"
    BY <1>4 DEF ProcTypes, AcquireSleep, Goto
  <2> HIDE DEF DataInv, Same, ProcTypes, CacheTypes, Blk
  <2>3. QED
    BY <2>1, <2>2, SameData
<1>5. ASSUME NEW p \in Proc, DiskStart(p) PROVE DataInv'
  <2> HIDE DEF DataInv, Same, ProcTypes, CacheTypes, Blk
  <2>1. PICK a \in free, b \in free, c \in free :
           /\ a # b /\ head' = [head EXCEPT ![p] = a]
           /\ avail'.ring = Stored(avail.ring, avail.idx % NUM, a)
           /\ avail'.idx = NextIdx(avail.idx)
           /\ avail' = [ring |-> avail'.ring, idx |-> avail'.idx]
    BY <1>5, SubmitIs
  <2>2. UNCHANGED <<seen, data, platter, taken, blockno, valid, buf, wr, pinned>>
    BY <1>5 DEF DiskStart, Submit, deviceVars, cacheVars
  <2>3. a \in Desc /\ \A q \in Proc : pc'[q] = "wrote" => pc[q] = "wrote"
    BY <1>5, <2>1 DEF DiskStart, Goto, ProcTypes, DiskTypes
  <2>4. \A d : Same(d)' <=> Same(d)
    BY <2>2 DEF Same
  <2>5. \A h \in Desc : Queued(h)' <=> Queued(h) \/ h = a
    BY <2>1, <2>2, SubmitQueues
  <2>6. head'[p] = a /\ \A q \in Proc \ {p} : head'[q] = head[q]
    BY <2>1 DEF ProcTypes
  <2>7. ASSUME NEW q \in Proc, pc'[q] = "wrote" PROVE Same(buf[q])'
    BY <2>2, <2>3, <2>4, <2>7 DEF DataInv
  <2>8. ASSUME NEW q \in Proc, head'[q] # None, ~Queued(head[q])', ~(head[q] \in taken)'
        PROVE  Same(buf[q])'
    <3>1. q # p
      BY <2>3, <2>5, <2>6, <2>8
    <3>2. head'[q] = head[q] /\ head[q] \in Desc
      BY <2>6, <2>8, <3>1 DEF ProcTypes
    <3>3. QED
      BY <2>2, <2>4, <2>5, <2>8, <3>2 DEF DataInv
  <2>9. ASSUME NEW d \in Buf, valid'[d], ~(blockno[d] \in pinned)',
                ~(\E q \in Proc : buf'[q] = d /\ wr'[q])
        PROVE  Same(d)'
    BY <2>2, <2>4, <2>9 DEF DataInv
  <2>10. QED
    BY <2>7, <2>8, <2>9 DEF DataInv
<1>6. ASSUME NEW p \in Proc, DiskWaits(p) PROVE DataInv'
  <2>1. UNCHANGED <<avail, data, platter, taken, blockno, valid, buf, head, wr, pinned>>
    BY <1>6 DEF DiskWaits, diskVars, driverVars, deviceVars, cacheVars
  <2>2. \A q \in Proc : pc'[q] = "wrote" => pc[q] = "wrote"
    BY <1>6 DEF ProcTypes, DiskWaits, DescWakeup, Woken
  <2> HIDE DEF DataInv, Same, ProcTypes, CacheTypes, Blk
  <2>3. QED
    BY <2>1, <2>2, SameData
<1>7. ASSUME NEW p \in Proc, DiskSleeps(p) PROVE DataInv'
  <2>1. UNCHANGED <<avail, data, platter, taken, blockno, valid, buf, head, wr, pinned>>
    BY <1>7 DEF DiskSleeps, diskVars, driverVars, deviceVars, cacheVars
  <2>2. \A q \in Proc : pc'[q] = "wrote" => pc[q] = "wrote"
    BY <1>7 DEF ProcTypes, DiskSleeps, Goto
  <2> HIDE DEF DataInv, Same, ProcTypes, CacheTypes, Blk
  <2>3. QED
    BY <2>1, <2>2, SameData
<1>8. ASSUME NEW p \in Proc, DiskFinish(p) PROVE DataInv'
  <2> HIDE DEF DataInv, Same, ProcTypes, CacheTypes, Blk
  <2>1. /\ head[p] \in Desc
    BY <1>8, FinishIs
  <2>2. /\ head' = [head EXCEPT ![p] = None] /\ ~owned[buf[p]] /\ head[p] # None
        /\ wr' = [wr EXCEPT ![p] = FALSE] /\ valid' = [valid EXCEPT ![buf[p]] = TRUE]
        /\ UNCHANGED <<avail, data, platter, taken, blockno, buf, pinned>>
    BY <1>8, <2>1, Names DEF DiskFinish, FreeChain, deviceVars
  <2>3. \A q \in Proc \ {p} : pc'[q] = "wrote" => pc[q] = "wrote"
    BY <1>8 DEF DiskFinish, DescWakeup, Woken, ProcTypes
  <2>4. \A c : Same(c)' <=> Same(c)
    BY <2>2 DEF Same
  <2>5. \A h : Queued(h)' <=> Queued(h)
    BY <2>2 DEF Queued
  <2>6. ~Queued(head[p]) /\ head[p] \notin taken
    BY <2>1, <2>2, EntryHasOwner, HeadsApart
  <2>7. Same(buf[p])
    BY <2>2, <2>6 DEF DataInv
  <2>8. head'[p] = None /\ \A q \in Proc \ {p} : head'[q] = head[q] /\ wr'[q] = wr[q]
    BY <2>2 DEF ProcTypes
  <2>9. \A c \in Buf : c # buf[p] => valid'[c] = valid[c]
    BY <2>2 DEF CacheTypes
  <2>10. ASSUME NEW q \in Proc, pc'[q] = "wrote" PROVE Same(buf[q])'
    BY <2>2, <2>3, <2>4, <2>7, <2>10 DEF DataInv
  <2>11. ASSUME NEW q \in Proc, head'[q] # None, ~Queued(head[q])', ~(head[q] \in taken)'
        PROVE  Same(buf[q])'
    BY <2>2, <2>4, <2>5, <2>8, <2>11 DEF DataInv
  <2>12. ASSUME NEW c \in Buf, valid'[c], ~(blockno[c] \in pinned)',
                ~(\E q \in Proc : buf'[q] = c /\ wr'[q])
        PROVE  Same(c)'
    BY <2>2, <2>4, <2>7, <2>8, <2>9, <2>12 DEF DataInv
  <2>13. QED
    BY <2>10, <2>11, <2>12 DEF DataInv
<1>9. ASSUME NEW p \in Proc, NEW v \in Val, LogWrite(p, v) PROVE DataInv'
  <2> HIDE DEF DataInv, Same, ProcTypes, CacheTypes, Blk
  <2>1. /\ pc[p] = "have" /\ UNCHANGED <<avail, platter, taken, blockno, valid, pc, buf, head, wr>>
        /\ data' = [data EXCEPT ![buf[p]] = v] /\ pinned' = pinned \cup {Blk(p)}
    BY <1>9 DEF LogWrite, driverVars, deviceVars, procVars
  <2>2. buf[p] \in Buf /\ Blk(p) \in Block /\ pc[p] \in Inside /\ head[p] = None
    BY <2>1, HasBlock DEF Inside, PhaseInv, Request
  <2>3. \A c \in Buf : c # buf[p] => (Same(c)' <=> Same(c))
    BY <2>1 DEF Same, DiskTypes
  <2>4. \A h : Queued(h)' <=> Queued(h)
    BY <2>1 DEF Queued
  <2>5. \A q \in Proc : q # p /\ pc[q] \in Inside => buf[q] \in Buf /\ buf[q] # buf[p]
    BY <2>2, RequestsApart
  <2>6. ASSUME NEW q \in Proc, pc'[q] = "wrote" PROVE Same(buf[q])'
    <3>1. q # p /\ pc[q] \in Inside
      BY <2>1, <2>6 DEF Inside
    <3>2. QED
      BY <2>1, <2>3, <2>5, <2>6, <3>1 DEF DataInv
  <2>7. ASSUME NEW q \in Proc, head'[q] # None, ~Queued(head[q])', ~(head[q] \in taken)'
        PROVE  Same(buf[q])'
    <3>1. q # p /\ pc[q] \in Inside
      BY <2>1, <2>2, <2>7, RequestIsInside
    <3>2. QED
      BY <2>1, <2>3, <2>4, <2>5, <2>7, <3>1 DEF DataInv
  <2>8. ASSUME NEW c \in Buf, valid'[c], ~(blockno[c] \in pinned)',
                ~(\E q \in Proc : buf'[q] = c /\ wr'[q])
        PROVE  Same(c)'
    <3>1. c # buf[p] /\ blockno[c] \notin pinned
      BY <2>1, <2>8 DEF Blk
    <3>2. QED
      BY <2>1, <2>3, <2>8, <3>1 DEF DataInv
  <2>9. QED
    BY <2>6, <2>7, <2>8 DEF DataInv
<1>10. ASSUME NEW p \in Proc, NEW v \in Val, Bwrite(p, v) PROVE DataInv'
  <2> HIDE DEF DataInv, Same, ProcTypes, CacheTypes, Blk
  <2>1. /\ pc[p] = "have" /\ UNCHANGED <<avail, platter, taken, blockno, valid, buf, head, pinned>>
        /\ data' = [data EXCEPT ![buf[p]] = v] /\ pc' = [pc EXCEPT ![p] = "alloc"]
        /\ wr' = [wr EXCEPT ![p] = TRUE]
    BY <1>10 DEF Bwrite, driverVars, deviceVars, cacheVars, Goto
  <2>2. buf[p] \in Buf /\ pc[p] \in Inside /\ head[p] = None
    BY <2>1, HasBlock DEF Inside, PhaseInv, Request
  <2>3. \A c \in Buf : c # buf[p] => (Same(c)' <=> Same(c))
    BY <2>1 DEF Same, DiskTypes
  <2>4. \A h : Queued(h)' <=> Queued(h)
    BY <2>1 DEF Queued
  <2>5. \A q \in Proc : q # p /\ pc[q] \in Inside => buf[q] \in Buf /\ buf[q] # buf[p]
    BY <2>2, RequestsApart
  <2>6. wr'[p] /\ pc'[p] = "alloc" /\ \A q \in Proc \ {p} : wr'[q] = wr[q] /\ pc'[q] = pc[q]
    BY <2>1 DEF ProcTypes
  <2>7. ASSUME NEW q \in Proc, pc'[q] = "wrote" PROVE Same(buf[q])'
    <3>1. q # p /\ pc[q] = "wrote" /\ pc[q] \in Inside
      BY <2>6, <2>7 DEF Inside
    <3>2. QED
      BY <2>1, <2>3, <2>5, <3>1 DEF DataInv
  <2>8. ASSUME NEW q \in Proc, head'[q] # None, ~Queued(head[q])', ~(head[q] \in taken)'
        PROVE  Same(buf[q])'
    <3>1. q # p /\ pc[q] \in Inside
      BY <2>1, <2>2, <2>8, RequestIsInside
    <3>2. QED
      BY <2>1, <2>3, <2>4, <2>5, <2>8, <3>1 DEF DataInv
  <2>9. ASSUME NEW c \in Buf, valid'[c], ~(blockno[c] \in pinned)',
                ~(\E q \in Proc : buf'[q] = c /\ wr'[q])
        PROVE  Same(c)'
    <3>1. c # buf[p] /\ ~(\E q \in Proc : buf[q] = c /\ wr[q])
      BY <2>1, <2>6, <2>9
    <3>2. QED
      BY <2>1, <2>3, <2>9, <3>1 DEF DataInv
  <2>10. QED
    BY <2>7, <2>8, <2>9 DEF DataInv
<1>11. ASSUME NEW p \in Proc, Bunpin(p) PROVE DataInv'
  <2> HIDE DEF DataInv, Same, ProcTypes, CacheTypes, Blk
  <2>1. /\ pc[p] = "wrote" /\ pinned' = pinned \ {Blk(p)}
        /\ UNCHANGED <<avail, data, platter, taken, blockno, valid, pc, buf, head, wr>>
    BY <1>11 DEF Bunpin, diskVars, driverVars, deviceVars, procVars
  <2>2. buf[p] \in Buf /\ Blk(p) \in Block /\ Blk(p) # None
    BY <2>1, HasBlock, Names
  <2>3. \A c : Same(c)' <=> Same(c)
    BY <2>1 DEF Same
  <2>4. \A h : Queued(h)' <=> Queued(h)
    BY <2>1 DEF Queued
  <2>5. Same(buf[p])
    BY <2>1 DEF DataInv
  <2>6. ASSUME NEW q \in Proc, pc'[q] = "wrote" PROVE Same(buf[q])'
    BY <2>1, <2>3, <2>6 DEF DataInv
  <2>7. ASSUME NEW q \in Proc, head'[q] # None, ~Queued(head[q])', ~(head[q] \in taken)'
        PROVE  Same(buf[q])'
    BY <2>1, <2>3, <2>4, <2>7 DEF DataInv
  <2>8. ASSUME NEW c \in Buf, valid'[c], ~(blockno[c] \in pinned)',
                ~(\E q \in Proc : buf'[q] = c /\ wr'[q])
        PROVE  Same(c)'
    <3>1. CASE c = buf[p]
      BY <2>3, <2>5, <3>1
    <3>2. CASE c # buf[p]
      <4>1. blockno[c] # Blk(p)
        BY <2>2, <3>2 DEF BlockInv, Blk
      <4>2. QED
        BY <2>1, <2>3, <2>8, <4>1 DEF DataInv
    <3>3. QED
      BY <3>1, <3>2
  <2>9. QED
    BY <2>6, <2>7, <2>8 DEF DataInv
<1>12. ASSUME NEW p \in Proc, ReleaseSleep(p) PROVE DataInv'
  <2>1. UNCHANGED <<avail, data, platter, taken, blockno, valid, buf, head, wr, pinned>>
    BY <1>12 DEF ReleaseSleep, diskVars, driverVars, deviceVars
  <2>2. \A q \in Proc : pc'[q] = "wrote" => pc[q] = "wrote"
    BY <1>12 DEF ProcTypes, ReleaseSleep, Woken
  <2> HIDE DEF DataInv, Same, ProcTypes, CacheTypes, Blk
  <2>3. QED
    BY <2>1, <2>2, SameData
<1>13. ASSUME NEW p \in Proc, Brelse(p) PROVE DataInv'
  <2> HIDE DEF DataInv, Same, ProcTypes, CacheTypes, Blk
  <2>1. /\ UNCHANGED <<avail, data, platter, taken, blockno, valid, head, wr, pinned>>
        /\ pc[p] = "brelse" /\ \A q \in Proc \ {p} : buf'[q] = buf[q] /\ pc'[q] = pc[q]
        /\ pc'[p] = "idle"
    BY <1>13 DEF Brelse, Goto, diskVars, driverVars, deviceVars, ProcTypes
  <2>2. head[p] = None /\ ~wr[p]
    BY <2>1 DEF PhaseInv, Request, Disk
  <2>3. \A c : Same(c)' <=> Same(c)
    BY <2>1 DEF Same
  <2>4. \A h : Queued(h)' <=> Queued(h)
    BY <2>1 DEF Queued
  <2>5. ASSUME NEW q \in Proc, pc'[q] = "wrote" PROVE Same(buf[q])'
    BY <2>1, <2>3, <2>5 DEF DataInv
  <2>6. ASSUME NEW q \in Proc, head'[q] # None, ~Queued(head[q])', ~(head[q] \in taken)'
        PROVE  Same(buf[q])'
    BY <2>1, <2>2, <2>3, <2>4, <2>6 DEF DataInv
  <2>7. ASSUME NEW c \in Buf, valid'[c], ~(blockno[c] \in pinned)',
                ~(\E q \in Proc : buf'[q] = c /\ wr'[q])
        PROVE  Same(c)'
    BY <2>1, <2>2, <2>3, <2>7 DEF DataInv
  <2>8. QED
    BY <2>5, <2>6, <2>7 DEF DataInv
<1>14. CASE HandleEntry
  <2>1. UNCHANGED <<avail, data, platter, taken, blockno, valid, buf, head, wr, pinned>>
    BY <1>14 DEF HandleEntry, IntrEntry, cacheVars
  <2>2. \A q \in Proc : pc'[q] = "wrote" => pc[q] = "wrote"
    BY <1>14 DEF ProcTypes, HandleEntry, Woken
  <2> HIDE DEF DataInv, Same, ProcTypes, CacheTypes, Blk
  <2>3. QED
    BY <2>1, <2>2, SameData
<1>15. CASE DeviceTake /\ UNCHANGED Outside
  <2> HIDE DEF DataInv, Same, ProcTypes, CacheTypes, Blk
  <2>1. PICK h \in Desc :
           /\ Queued(h) /\ taken' = taken \cup {h}
           /\ \A g \in Desc : Queued(g)' <=> Queued(g) /\ g # h
    BY <1>15, TakeIs
  <2>2. UNCHANGED <<data, platter, blockno, valid, pc, buf, head, wr, pinned>>
    BY <1>15 DEF DeviceTake, Outside, procVars, cacheVars
  <2>3. \A c : Same(c)' <=> Same(c)
    BY <2>2 DEF Same
  <2>4. ASSUME NEW q \in Proc, pc'[q] = "wrote" PROVE Same(buf[q])'
    BY <2>2, <2>3, <2>4 DEF DataInv
  <2>5. ASSUME NEW q \in Proc, head'[q] # None, ~Queued(head[q])', ~(head[q] \in taken)'
        PROVE  Same(buf[q])'
    <3>1. head[q] # None /\ head[q] \in Desc
      BY <2>2, <2>5 DEF ProcTypes
    <3>2. QED
      BY <2>1, <2>2, <2>3, <2>5, <3>1 DEF DataInv
  <2>6. ASSUME NEW c \in Buf, valid'[c], ~(blockno[c] \in pinned)',
                ~(\E q \in Proc : buf'[q] = c /\ wr'[q])
        PROVE  Same(c)'
    BY <2>2, <2>3, <2>6 DEF DataInv
  <2>7. QED
    BY <2>4, <2>5, <2>6 DEF DataInv
<1>16. ASSUME NEW i \in Desc, DeviceServe(i) /\ UNCHANGED Outside PROVE DataInv'
  <2> HIDE DEF DataInv, Same, ProcTypes, CacheTypes, Blk
  <2>1. PICK q \in Proc :
           /\ head[q] = i /\ taken' = taken \ {i} /\ buf[q] \in Buf /\ Blk(q) \in Block
           /\ wr[q] => platter' = [platter EXCEPT ![Blk(q)] = data[buf[q]]] /\ data' = data
           /\ ~wr[q] => data' = [data EXCEPT ![buf[q]] = platter[Blk(q)]] /\ platter' = platter
    BY <1>16, ServeIs
  <2>2. UNCHANGED <<avail, blockno, valid, pc, buf, head, wr, pinned>>
    BY <1>16 DEF DeviceServe, driverVars, Outside, procVars, cacheVars
  <2>3. data \in [Buf -> Val] /\ platter \in [Block -> Val]
    BY DEF DiskTypes
  <2>4. Same(buf[q])'
    <3>1. CASE wr[q]
      BY <2>1, <2>2, <2>3, <3>1 DEF Same, Blk
    <3>2. CASE ~wr[q]
      BY <2>1, <2>2, <2>3, <3>2 DEF Same, Blk
    <3>3. QED
      BY <3>1, <3>2
  <2>5. ASSUME NEW c \in Buf, blockno[c] # None, Same(c) PROVE Same(c)'
    <3>1. CASE c = buf[q]
      BY <2>2, <2>4, <3>1
    <3>2. CASE c # buf[q]
      <4>1. blockno[c] # Blk(q)
        BY <2>1, <2>5, <3>2 DEF BlockInv, Blk
      <4>2. data'[c] = data[c] /\ platter'[blockno[c]] = platter[blockno[c]]
        <5>1. blockno[c] \in Block
          BY <2>5 DEF CacheTypes
        <5>2. CASE wr[q]
          BY <2>1, <2>3, <3>2, <4>1, <5>1, <5>2
        <5>3. CASE ~wr[q]
          BY <2>1, <2>3, <3>2, <4>1, <5>1, <5>3
        <5>4. QED
          BY <5>2, <5>3
      <4>3. QED
        BY <2>2, <2>5, <4>2 DEF Same
    <3>3. QED
      BY <3>1, <3>2
  <2>6. \A h : Queued(h)' <=> Queued(h)
    BY <2>2 DEF Queued
  <2>7. ASSUME NEW r \in Proc, pc'[r] = "wrote" PROVE Same(buf[r])'
    <3>1. buf[r] \in Buf /\ blockno[buf[r]] # None
      BY <2>2, <2>7, HasBlock, Names DEF Blk
    <3>2. QED
      BY <2>2, <2>5, <2>7, <3>1 DEF DataInv
  <2>8. ASSUME NEW r \in Proc, head'[r] # None, ~Queued(head[r])', ~(head[r] \in taken)'
        PROVE  Same(buf[r])'
    <3>1. CASE r = q
      BY <2>2, <2>4, <3>1
    <3>2. CASE r # q
      <4>1. head[r] # None /\ buf[r] \in Buf /\ blockno[buf[r]] # None
        BY <2>2, <2>8, OwnerIs, Names DEF Blk
      <4>2. head[r] # i
        BY <2>1, <3>2, <4>1, HeadsApart
      <4>3. QED
        BY <2>1, <2>2, <2>5, <2>6, <2>8, <4>1, <4>2 DEF DataInv
    <3>3. QED
      BY <3>1, <3>2
  <2>9. ASSUME NEW c \in Buf, valid'[c], ~(blockno[c] \in pinned)',
                ~(\E r \in Proc : buf'[r] = c /\ wr'[r])
        PROVE  Same(c)'
    <3>1. blockno[c] # None
      BY <2>2, <2>9 DEF BlockInv
    <3>2. QED
      BY <2>2, <2>5, <2>9, <3>1 DEF DataInv
  <2>10. QED
    BY <2>7, <2>8, <2>9 DEF DataInv
<1>17. CASE UNCHANGED <<avail, data, platter, taken, blockno, valid, pc, buf, head, wr, pinned>>
  BY <1>17 DEF Queued
<1> HIDE DEF Blk, CacheTypes, DataInv, ProcTypes, Same
<1>18. QED
  BY <1>1, <1>2, <1>3, <1>4, <1>5, <1>6, <1>7, <1>8, <1>9, <1>10, <1>11, <1>12, <1>13,
      <1>14, <1>15, <1>16, <1>17 DEF vars, Next, Kernel, Use, DiskIntr, Device,
      cacheVars, procVars, diskVars, driverVars, deviceVars, Outside, BgetPanic,
      IntrAck, IntrDone

\* Who calls bwrite() or brelse() has the lock; the handler meets finished requests only.
LEMMA PanicStep ==
    ASSUME DiskTypes, CacheTypes, ProcTypes, PhaseInv, BlockInv, RequestInv, LinkInv,
        RingInv, StageInv, LockInv, NoPanic, [Next]_vars
    PROVE  NoPanic'
<1> USE DEF NoPanic
<1>1. ASSUME NEW p \in Proc, NEW k \in Block, BgetPanic(p, k) PROVE NoPanic'
  BY <1>1 DEF BgetPanic, Buf, NotCached, Unused, cacheVars, deviceVars, diskVars,
      driverVars, procVars
<1>2. ASSUME NEW p \in Proc, DiskFinish(p) PROVE NoPanic'
  <2>1. panicked' = None
    BY <1>2, FinishIs
  <2>2. QED
    BY <2>1
<1>3. ASSUME NEW p \in Proc, NEW v \in Val, Bwrite(p, v) PROVE NoPanic'
  <2>1. holder[buf[p]] = p
    BY <1>3, HasBlock DEF Bwrite, LockInv, Inside
  <2>2. QED
    BY <1>3, <2>1 DEF Bwrite, PanicIf
<1>4. ASSUME NEW p \in Proc, ReleaseSleep(p) PROVE NoPanic'
  <2>1. holder[buf[p]] = p
    BY <1>4, HasBlock DEF ReleaseSleep, LockInv, Inside
  <2>2. QED
    BY <1>4, <2>1 DEF ReleaseSleep, PanicIf
<1>5. CASE HandleEntry
  <2>1. panicked' = None
    BY <1>5, EntryIs
  <2>2. QED
    BY <2>1
<1>6. CASE UNCHANGED <<panicked>>
  BY <1>6
<1> HIDE DEF NoPanic
<1>7. QED
  BY <1>1, <1>2, <1>3, <1>4, <1>5, <1>6, ZenonT(40) DEF vars, Next, Kernel, Use, DiskIntr, Device,
      cacheVars, procVars, diskVars, driverVars, deviceVars, Outside, BgetCached,
      BgetRecycle, AcquireWaits, AcquireSleep, DiskStart, DiskWaits, DiskSleeps,
      LogWrite, Bunpin, Brelse, IntrAck, IntrDone, DeviceTake, DeviceServe, Submit

-----------------------------------------------------------------------------
(* The invariant.                                                           *)

\* Empty rings.
LEMMA RingsStartEmpty == ASSUME Init PROVE RingInv
<1> DEFINE ring == [i \in Desc |-> None]
<1>1. /\ avail.ring = ring /\ avail.idx = 0 /\ used.ring = ring /\ used.idx = 0
      /\ seen = 0 /\ usedIdx = 0
  BY DEF Init, DiskInit
<1>2. 0 \in Index /\ Dist(0, 0, IdxMod) = 0 /\ NUM \in Nat \ {0}
  BY Sizes DEF Index, Dist
<1>3. 0 % NUM \in Desc
  BY <1>2, PlaceIs
<1> DEFINE x == 0 % NUM
<1>4. x \in 0..(NUM - 1)
  BY <1>3 DEF Desc
<1> HIDE DEF x
<1>5. \A j \in Desc : Dist(x, j, NUM) >= 0
  BY <1>2, <1>4 DEF Dist, Desc
<1>6. \A j \in Desc : ring[j] = None
  OBVIOUS
<1> HIDE DEF ring
<1>7. \A j \in Desc : ~(Dist(x, j, NUM) < 0)
  BY <1>2, <1>4, <1>5 DEF Dist, Desc
<1>8. Kept(ring, 0, 0)
  BY <1>2, <1>6, <1>7 DEF Kept, x
<1>9. QED
  BY <1>1, <1>8 DEF RingInv

\* At boot nothing is cached and no request is under way.
LEMMA CacheStarts == ASSUME Init PROVE CacheInv
<1> USE DEF Init, DiskInit
<1>1. 0 \in Index
  BY Sizes DEF Index
<1>2. [i \in Desc |-> None] \in [Desc -> Desc \cup {None}]
  OBVIOUS
<1>3. DiskTypes
  <2>1. avail \in RingRec /\ used \in RingRec
    BY <1>1, <1>2 DEF RingRec
  <2>2. desc \in [Desc -> DescRec] /\ ops \in [Desc -> OpRec]
    BY DEF DescRec, OpRec, Blank, NoOp
  <2>3. status \in [Desc -> BOOLEAN] /\ owned \in [Buf -> BOOLEAN]
    BY Zenon
  <2>4. data \in [Buf -> Val] /\ platter \in [Block -> Val]
    BY DiskAssumption
  <2>5. QED
    BY <1>1, <2>1, <2>2, <2>3, <2>4 DEF DiskTypes
<1>4. CacheTypes
  <2>1. list \in [1..NBUF -> Buf]
    BY Names DEF Buf
  <2>2. ASSUME NEW b \in Buf PROVE \E i \in 1..NBUF : list[i] = b
    <3>1. (NBUF + 1) - b \in 1..NBUF /\ (NBUF + 1) - ((NBUF + 1) - b) = b
      BY Names DEF Buf
    <3>2. list[(NBUF + 1) - b] = b
      <4> DEFINE i == (NBUF + 1) - b
      <4>1. i \in 1..NBUF /\ (NBUF + 1) - i = b
        BY <3>1
      <4>2. list = [j \in 1..NBUF |-> NBUF + 1 - j]
        OBVIOUS
      <4> HIDE DEF i
      <4>3. list[i] = NBUF + 1 - i
        BY <4>1, <4>2
      <4>4. QED
        BY <4>1, <4>3, Names DEF i
    <3>3. QED
      BY <3>1, <3>2
  <2>3. valid \in [Buf -> BOOLEAN]
    BY Zenon
  <2>4. QED
    BY <2>1, <2>2, <2>3 DEF CacheTypes
<1>5. ProcTypes
  <2>1. wr \in [Proc -> BOOLEAN]
    BY Zenon
  <2>2. QED
    BY <2>1 DEF ProcTypes
<1>6. PhaseInv /\ LockInv /\ BlockInv /\ ValidInv
  BY Names DEF PhaseInv, LockInv, BlockInv, ValidInv, Inside, Request, Disk
<1>7. RequestInv /\ LinkInv
  BY DEF RequestInv, LinkInv
<1>8. StageInv
  <2>1. \A h \in Desc : h # None
    BY Names
  <2>2. \A h \in Desc : ~Queued(h) /\ ~Finished(h) /\ h \notin taken
    BY <2>1 DEF Queued, Finished
  <2>3. QED
    BY <2>1, <2>2 DEF StageInv
<1>9. DataInv
  BY DEF DataInv
<1>10. RefcntExact
  <2>1. ASSUME NEW b \in Buf PROVE OnBuf(b) = {}
    BY Names DEF OnBuf
  <2>2. Cardinality({}) = 0
    BY FS_EmptySet
  <2>3. ASSUME NEW b \in Buf
        PROVE  refcnt[b] = Cardinality(OnBuf(b)) + (IF blockno[b] \in pinned THEN 1 ELSE 0)
    <3>1. refcnt[b] = 0 /\ blockno[b] \notin pinned /\ OnBuf(b) = {}
      BY <2>1
    <3>2. QED
      BY ONLY <2>2, <3>1
  <2>4. QED
    BY <2>3 DEF RefcntExact
<1>11. NoPanic
  BY DEF NoPanic
<1>12. QED
  BY <1>3, <1>4, <1>5, <1>6, <1>7, <1>8, <1>9, <1>10, <1>11, RingsStartEmpty DEF CacheInv

\* The invariant holds in every reachable state.
THEOREM CacheInvariant == Spec => []CacheInv
<1>1. CacheInv /\ [Next]_vars => CacheInv'
  <2> SUFFICES ASSUME CacheInv, [Next]_vars PROVE CacheInv'
    OBVIOUS
  <2>1. /\ DiskTypes /\ CacheTypes /\ ProcTypes /\ PhaseInv /\ LockInv /\ BlockInv /\ ValidInv
        /\ RefcntExact /\ RequestInv /\ LinkInv /\ RingInv /\ StageInv /\ DataInv /\ NoPanic
    BY DEF CacheInv
  <2>2. DiskTypes' /\ CacheTypes' /\ ProcTypes'
    BY <2>1, DiskTypesStep, CacheTypesStep, ProcTypesStep
  <2>3. PhaseInv' /\ LockInv' /\ BlockInv' /\ ValidInv'
    BY <2>1, PhaseStep, LockStep, BlockStep, ValidStep
  <2>4. RefcntExact' /\ NoPanic'
    BY <2>1, RefcntStep, PanicStep
  <2>5. RequestInv' /\ LinkInv' /\ RingInv' /\ StageInv'
    BY <2>1, RequestStep, LinkStep, RingStep, StageStep
  <2>6. DataInv'
    BY <2>1, DataStep
  <2>7. QED
    BY <2>2, <2>3, <2>4, <2>5, <2>6 DEF CacheInv
<1>2. QED
  BY <1>1, CacheStarts, PTL DEF Spec

\* No buffer that a process or the log uses is recycled, and none is lost: bget(), brelse(),
\* bpin() and bunpin() keep the count.
THEOREM CountsAreExact == Spec => []RefcntExact
<1>1. CacheInv => RefcntExact
  BY DEF CacheInv
<1>2. QED
  BY <1>1, CacheInvariant, PTL

\* brelse(), bwrite(), free_desc() and virtio_disk_intr() do not panic.
THEOREM NothingElsePanics == Spec => []NoPanic
<1>1. CacheInv => NoPanic
  BY DEF CacheInv
<1>2. QED
  BY <1>1, CacheInvariant, PTL

\* The chains that free_chain() walks are apart, and with the free descriptors they are all:
\* virtio_disk_rw() loses none and frees none twice.
THEOREM ChainsAreApart == Spec => []DescriptorsAccounted
<1>1. CacheInv => DescriptorsAccounted
  <2> SUFFICES ASSUME CacheInv PROVE DescriptorsAccounted
    OBVIOUS
  <2>1. DiskTypes /\ ProcTypes /\ RequestInv /\ LinkInv
    BY DEF CacheInv
  <2> DEFINE Busy == {p \in Proc : head[p] # None}
  <2>2. ASSUME NEW p \in Busy
        PROVE  Chain(head[p]) = Links(p) /\ Links(p) \subseteq Desc /\ Links(p) \cap free = {}
    <3>1. WellFormed(p) /\ head[p] \in Desc /\ Links(p) \cap free = {}
      BY <2>1, <2>2 DEF RequestInv, LinkInv, ProcTypes
    <3>2. Second(p) # None /\ Third(p) # None /\ Links(p) \subseteq Desc
      BY <3>1, Names DEF WellFormed, Links
    <3>3. Chain(head[p]) = Links(p)
      BY <3>2 DEF Chain, Links, Second, Third
    <3>4. QED
      BY <3>1, <3>2, <3>3
  <2>3. free \subseteq Desc /\ \A i \in Desc : i \in free \/ \E p \in Busy : i \in Links(p)
    BY <2>1 DEF DiskTypes, LinkInv
  <2>4. free = Desc \ UNION {Chain(head[p]) : p \in Busy}
    BY <2>2, <2>3
  <2>5. \A p, q \in Busy : p # q => Chain(head[p]) \cap Chain(head[q]) = {}
    BY <2>1, <2>2 DEF LinkInv
  <2>6. QED
    BY <2>4, <2>5 DEF DescriptorsAccounted
<1>2. QED
  BY <1>1, CacheInvariant, PTL

-----------------------------------------------------------------------------
(* The cache implements the block store.                                    *)

Distinct(n) == \A b, c \in Buf : n[b] = n[c] /\ n[b] # None => b = c

Shown(d, s, n, v, k) == IF \E b \in Buf : n[b] = k /\ v[b]
                        THEN d[CHOOSE b \in Buf : n[b] = k /\ v[b]] ELSE s[k]

\* What bread() shows: the valid buffer of the block,
LEMMA ShownBuf ==
    ASSUME NEW d, NEW s, NEW n, NEW v, Distinct(n), NEW k \in Block,
           NEW b \in Buf, n[b] = k, v[b]
    PROVE  Shown(d, s, n, v, k) = d[b]
<1> DEFINE c == CHOOSE c \in Buf : n[c] = k /\ v[c]
<1>1. c \in Buf /\ n[c] = k /\ v[c]
  OBVIOUS
<1>2. Shown(d, s, n, v, k) = d[c]
  BY DEF Shown
<1> HIDE DEF c
<1>3. c = b
  BY <1>1, Names DEF Distinct
<1>4. QED
  BY <1>2, <1>3

\* or the disk.
LEMMA ShownDisk ==
    ASSUME NEW d, NEW s, NEW n, NEW v, NEW k, ~(\E b \in Buf : n[b] = k /\ v[b])
    PROVE  Shown(d, s, n, v, k) = s[k]
BY DEF Shown

\* The abstract content, before and after a step.
LEMMA ContentIs ==
    /\ Content = [k \in Block |-> Shown(data, platter, blockno, valid, k)]
    /\ Content' = [k \in Block |-> Shown(data', platter', blockno', valid', k)]
BY DEF Content, Holds, Shown

\* Only bget(), the device and the users of a buffer touch what bread() shows.
LEMMA ContentSame ==
    ASSUME UNCHANGED <<data, platter, blockno, valid>> PROVE Content' = Content
BY DEF Content, Holds

\* A process that has the lock of a buffer is the only user of the block.
LEMMA AloneWithBlock ==
    ASSUME CacheTypes, ProcTypes, PhaseInv, BlockInv, LockInv, NEW p \in Proc, pc[p] \in Inside
    PROVE  Blk(p) \in Block /\ buf[p] \in Buf /\ Users[Blk(p)] = {p}
<1>1. pc[p] # "idle"
  BY DEF Inside
<1>2. Blk(p) \in Block /\ buf[p] \in Buf
  BY <1>1, HasBlock
<1>3. \A q \in Proc : pc[q] \in Inside /\ Blk(q) = Blk(p) => q = p
  BY RequestsApart
<1>4. QED
  BY <1>2, <1>3 DEF Users

\* A step that lets nobody in or out.
LEMMA UsersSame ==
    ASSUME \A q \in Proc : /\ pc'[q] \in Inside <=> pc[q] \in Inside
                           /\ pc[q] \in Inside => Blk(q)' = Blk(q)
    PROVE  Users' = Users
<1>1. \A q \in Proc, k \in Block :
         pc'[q] \in Inside /\ Blk(q)' = k <=> pc[q] \in Inside /\ Blk(q) = k
  OBVIOUS
<1>2. \A k \in Block : {q \in Proc : pc'[q] \in Inside /\ Blk(q)' = k}
                         = {q \in Proc : pc[q] \in Inside /\ Blk(q) = k}
  BY <1>1
<1>3. QED
  BY <1>2 DEF Users

\* bread() returns to the only user of its block.
LEMMA AcquireSimulates ==
    ASSUME CacheInv, NEW p \in Proc, AcquireSleep(p)
    PROVE  Abstract!SGet(p, Blk(p)) /\ Blk(p) \in Block
<1>1. CacheTypes /\ ProcTypes /\ PhaseInv /\ BlockInv /\ LockInv
  BY DEF CacheInv
<1>2. pc[p] = "lock" /\ holder[buf[p]] = None
  BY DEF AcquireSleep, Locked
<1>3. buf[p] \in Buf /\ Blk(p) \in Block /\ Blk(p) # None
  BY <1>1, <1>2, HasBlock, Names
<1>4. /\ buf' = buf /\ blockno' = blockno /\ pc'[p] \in {"have", "alloc"}
      /\ \A q \in Proc \ {p} : pc'[q] = pc[q]
  BY <1>1 DEF AcquireSleep, Goto, ProcTypes
<1>5. ASSUME NEW q \in Proc, pc[q] \in Inside PROVE Blk(q) # Blk(p)
  <2>1. pc[q] # "idle" /\ q # None
    BY <1>5, Names DEF Inside
  <2>2. buf[q] \in Buf
    BY <1>1, <2>1, HasBlock
  <2>3. holder[buf[q]] = q
    BY <1>1, <1>5, <2>2 DEF LockInv
  <2>4. buf[q] # buf[p]
    BY <1>2, <2>1, <2>3
  <2>5. QED
    BY <1>1, <1>3, <2>2, <2>4 DEF BlockInv, Blk
<1>6. Users[Blk(p)] = {}
  BY <1>3, <1>5 DEF Users
<1>7. \A q \in Proc : Blk(q)' = Blk(q)
  BY <1>4 DEF Blk
<1>8. pc[p] \notin Inside /\ pc'[p] \in Inside
  BY <1>2, <1>4 DEF Inside
<1>9. Users' = [Users EXCEPT ![Blk(p)] = {p}]
  <2>1. ASSUME NEW k \in Block
        PROVE  {q \in Proc : pc'[q] \in Inside /\ Blk(q)' = k}
                 = IF k = Blk(p) THEN {p} ELSE {q \in Proc : pc[q] \in Inside /\ Blk(q) = k}
    BY <1>4, <1>5, <1>7, <1>8
  <2>2. QED
    BY <2>1 DEF Users
<1>10. Content' = Content
  BY ContentSame DEF AcquireSleep, diskVars, deviceVars
<1>11. QED
  BY <1>3, <1>6, <1>9, <1>10 DEF Abstract!SGet

\* brelse() begins with the end of the use.
LEMMA ReleaseSimulates ==
    ASSUME CacheInv, NEW p \in Proc, ReleaseSleep(p)
    PROVE  Abstract!SPut(p, Blk(p)) /\ Blk(p) \in Block
<1>1. CacheTypes /\ ProcTypes /\ PhaseInv /\ BlockInv /\ LockInv
  BY DEF CacheInv
<1>2. pc[p] \in Inside
  BY DEF ReleaseSleep, Inside
<1>3. Blk(p) \in Block /\ Users[Blk(p)] = {p}
  BY <1>1, <1>2, AloneWithBlock
<1>4. \A q \in Proc : pc'[q] = IF q = p THEN "brelse" ELSE
                IF pc[q] = "locksleep" /\ buf[q] = buf[p] THEN "lock" ELSE pc[q]
  BY DEF ReleaseSleep, Woken, OnBuf
<1>5. \A q \in Proc : (pc'[q] \in Inside <=> pc[q] \in Inside /\ q # p) /\ Blk(q)' = Blk(q)
  BY <1>4 DEF Inside, Blk, ReleaseSleep
<1>6. \A q \in Proc : pc[q] \in Inside /\ Blk(q) = Blk(p) => q = p
  BY <1>1, <1>2, RequestsApart
<1>7. Users' = [Users EXCEPT ![Blk(p)] = {}]
  <2>1. ASSUME NEW k \in Block
        PROVE  {q \in Proc : pc'[q] \in Inside /\ Blk(q)' = k}
                 = IF k = Blk(p) THEN {} ELSE {q \in Proc : pc[q] \in Inside /\ Blk(q) = k}
    BY <1>2, <1>5, <1>6
  <2>2. QED
    BY <2>1 DEF Users
<1>8. Content' = Content
  BY ContentSame DEF ReleaseSleep, diskVars, deviceVars
<1>9. QED
  BY <1>3, <1>7, <1>8 DEF Abstract!SPut

\* A user changes the content of its block, and of no other.
LEMMA WriteSimulates ==
    ASSUME CacheInv, NEW p \in Proc, NEW v \in Val, LogWrite(p, v) \/ Bwrite(p, v)
    PROVE  Abstract!SWrite(p, Blk(p), v) /\ Blk(p) \in Block
<1>1. /\ CacheTypes /\ ProcTypes /\ PhaseInv /\ BlockInv /\ LockInv /\ ValidInv
      /\ data \in [Buf -> Val]
  BY DEF CacheInv, DiskTypes
<1>2. /\ pc[p] = "have" /\ data' = [data EXCEPT ![buf[p]] = v]
      /\ UNCHANGED <<platter, blockno, valid, buf>>
  BY DEF LogWrite, Bwrite, deviceVars, cacheVars, procVars
<1>3. pc'[p] \in {"have", "alloc"} /\ \A q \in Proc \ {p} : pc'[q] = pc[q]
  BY <1>1, <1>2 DEF LogWrite, Bwrite, Goto, procVars, ProcTypes
<1>4. pc[p] \in Inside /\ pc'[p] \in Inside
  BY <1>2, <1>3 DEF Inside
<1>5. Blk(p) \in Block /\ buf[p] \in Buf /\ Users[Blk(p)] = {p}
  BY <1>1, <1>4, AloneWithBlock
<1>6. Users' = Users
  <2>1. \A q \in Proc : Blk(q)' = Blk(q)
    BY <1>2 DEF Blk
  <2>2. QED
    BY <1>3, <1>4, <2>1, UsersSame
<1>7. valid[buf[p]]
  BY <1>1, <1>2 DEF ValidInv
<1>8. Distinct(blockno)
  BY <1>1 DEF BlockInv, Distinct
<1>9. ASSUME NEW k \in Block
      PROVE  Shown(data', platter', blockno', valid', k)
               = IF k = Blk(p) THEN v ELSE Shown(data, platter, blockno, valid, k)
  <2>1. CASE \E b \in Buf : blockno[b] = k /\ valid[b]
    <3>1. PICK b \in Buf : blockno[b] = k /\ valid[b]
      BY <2>1
    <3>2. Shown(data', platter, blockno, valid, k) = data'[b]
      BY <1>8, <3>1, ShownBuf
    <3>3. Shown(data, platter, blockno, valid, k) = data[b]
      BY <1>8, <3>1, ShownBuf
    <3>4. k = Blk(p) <=> b = buf[p]
      BY <1>5, <1>8, <3>1, Names DEF Distinct, Blk
    <3>5. QED
      BY <1>1, <1>2, <1>5, <3>2, <3>3, <3>4
  <2>2. CASE ~(\E b \in Buf : blockno[b] = k /\ valid[b])
    <3>1. k # Blk(p)
      BY <1>5, <1>7, <2>2 DEF Blk
    <3>2. Shown(data', platter, blockno, valid, k) = platter[k]
      BY <1>8, <2>2, ShownDisk
    <3>3. Shown(data, platter, blockno, valid, k) = platter[k]
      BY <1>8, <2>2, ShownDisk
    <3>4. QED
      BY <1>2, <3>1, <3>2, <3>3
  <2>3. QED
    BY <2>1, <2>2
<1>10. Content' = [Content EXCEPT ![Blk(p)] = v]
  BY <1>5, <1>9, ContentIs
<1>11. QED
  BY <1>5, <1>6, <1>10 DEF Abstract!SWrite

\* A buffer is recycled when the disk has its block, and the new block is not cached.
LEMMA RecycleStutters ==
    ASSUME CacheInv, BlockInv', NEW p \in Proc, NEW k \in Block, BgetRecycle(p, k)
    PROVE  Content' = Content /\ Users' = Users
<1>1. /\ CacheTypes /\ ProcTypes /\ PhaseInv /\ BlockInv /\ RefcntExact /\ DataInv
  BY DEF CacheInv
<1>2. PICK b \in Buf :
         /\ refcnt[b] = 0 /\ pc[p] = "idle" /\ \A c \in Buf : blockno[c] # k
         /\ blockno' = [blockno EXCEPT ![b] = k] /\ valid' = [valid EXCEPT ![b] = FALSE]
         /\ buf' = [buf EXCEPT ![p] = b] /\ pc' = [pc EXCEPT ![p] = "lock"]
  BY <1>1, RecycleIs
<1>3. blockno[b] \notin pinned /\ \A q \in Proc : buf[q] # b
  BY <1>1, <1>2, Unreferenced
<1>4. valid[b] => data[b] = platter[blockno[b]]
  BY <1>1, <1>3 DEF DataInv, Same
<1>5. data' = data /\ platter' = platter
  BY DEF BgetRecycle, diskVars, deviceVars
<1>6. Distinct(blockno) /\ Distinct(blockno')
  BY <1>1 DEF BlockInv, Distinct
<1>7. \A c \in Buf : /\ c # b => blockno'[c] = blockno[c] /\ valid'[c] = valid[c]
                     /\ ~valid'[b]
  BY <1>1, <1>2 DEF CacheTypes
<1>8. ASSUME NEW m \in Block
      PROVE  Shown(data, platter, blockno', valid', m) = Shown(data, platter, blockno, valid, m)
  <2>1. CASE \E c \in Buf : blockno'[c] = m /\ valid'[c]
    <3>1. PICK c \in Buf : blockno'[c] = m /\ valid'[c]
      BY <2>1
    <3>2. c # b /\ blockno[c] = m /\ valid[c]
      BY <1>7, <3>1
    <3>3. Shown(data, platter, blockno', valid', m) = data[c]
      BY <1>6, <3>1, ShownBuf
    <3>4. Shown(data, platter, blockno, valid, m) = data[c]
      BY <1>6, <3>2, ShownBuf
    <3>5. QED
      BY <3>3, <3>4
  <2>2. CASE ~(\E c \in Buf : blockno'[c] = m /\ valid'[c])
    <3>1. Shown(data, platter, blockno', valid', m) = platter[m]
      BY <1>6, <2>2, ShownDisk
    <3>2. CASE blockno[b] = m /\ valid[b]
      <4>1. Shown(data, platter, blockno, valid, m) = data[b]
        BY <1>6, <3>2, ShownBuf
      <4>2. QED
        BY <1>4, <3>1, <3>2, <4>1
    <3>3. CASE ~(blockno[b] = m /\ valid[b])
      <4>1. ~(\E c \in Buf : blockno[c] = m /\ valid[c])
        BY <1>7, <2>2, <3>3
      <4>2. Shown(data, platter, blockno, valid, m) = platter[m]
        BY <1>6, <4>1, ShownDisk
      <4>3. QED
        BY <3>1, <4>2
    <3>4. QED
      BY <3>2, <3>3
  <2>3. QED
    BY <2>1, <2>2
<1>9. Content' = Content
  BY <1>5, <1>8, ContentIs
<1>10. Users' = Users
  <2>1. /\ pc[p] \notin Inside /\ pc'[p] \notin Inside
        /\ \A q \in Proc \ {p} : pc'[q] = pc[q] /\ buf'[q] = buf[q]
    BY <1>1, <1>2 DEF Inside, ProcTypes
  <2>2. ASSUME NEW q \in Proc \ {p} PROVE Blk(q)' = Blk(q)
    BY <1>1, <1>2, <1>3, <2>1 DEF Blk, CacheTypes
  <2>3. QED
    BY <2>1, <2>2, UsersSame
<1>11. QED
  BY <1>9, <1>10

\* A buffer becomes valid when it is the same as its block.
LEMMA FinishStutters ==
    ASSUME CacheInv, NEW p \in Proc, DiskFinish(p)
    PROVE  Content' = Content /\ Users' = Users
<1>1. /\ DiskTypes /\ CacheTypes /\ ProcTypes /\ PhaseInv /\ BlockInv /\ RequestInv /\ LinkInv
      /\ StageInv /\ DataInv
  BY DEF CacheInv
<1>2. /\ pc[p] = "iowait" /\ ~owned[buf[p]] /\ valid' = [valid EXCEPT ![buf[p]] = TRUE]
      /\ UNCHANGED <<data, platter, blockno, buf>>
  BY DEF DiskFinish, FreeChain, deviceVars
<1>3. buf[p] \in Buf /\ Blk(p) \in Block /\ head[p] # None /\ head[p] \in Desc
  BY <1>1, <1>2, HasBlock DEF PhaseInv, Request
<1>4. Same(buf[p])
  <2>1. ~Queued(head[p]) /\ head[p] \notin taken
    BY <1>1, <1>2, <1>3, EntryHasOwner, HeadsApart
  <2>2. QED
    BY <1>1, <1>3, <2>1 DEF DataInv
<1>5. Distinct(blockno)
  BY <1>1 DEF BlockInv, Distinct
<1>6. valid'[buf[p]] /\ \A c \in Buf : c # buf[p] => valid'[c] = valid[c]
  BY <1>1, <1>2, <1>3 DEF CacheTypes
<1>7. ASSUME NEW m \in Block
      PROVE  Shown(data, platter, blockno, valid', m) = Shown(data, platter, blockno, valid, m)
  <2>1. CASE m = Blk(p)
    <3>1. Shown(data, platter, blockno, valid', m) = data[buf[p]]
      BY <1>3, <1>5, <1>6, <2>1, ShownBuf DEF Blk
    <3>2. CASE valid[buf[p]]
      BY <1>3, <1>5, <2>1, <3>1, <3>2, ShownBuf DEF Blk
    <3>3. CASE ~valid[buf[p]]
      <4>1. ~(\E c \in Buf : blockno[c] = m /\ valid[c])
        BY <1>3, <1>5, <2>1, <3>3, Names DEF Distinct, Blk
      <4>2. Shown(data, platter, blockno, valid, m) = platter[m]
        BY <1>5, <4>1, ShownDisk
      <4>3. QED
        BY <1>4, <2>1, <3>1, <4>2 DEF Same, Blk
    <3>4. QED
      BY <3>2, <3>3
  <2>2. CASE m # Blk(p)
    <3>1. \A c \in Buf : blockno[c] = m /\ valid'[c] <=> blockno[c] = m /\ valid[c]
      BY <1>6, <2>2 DEF Blk
    <3>2. QED
      BY <3>1 DEF Shown
  <2>3. QED
    BY <2>1, <2>2
<1>8. Content' = Content
  BY <1>2, <1>7, ContentIs
<1>9. Users' = Users
  <2>1. \A q \in Proc : Blk(q)' = Blk(q)
    BY <1>2 DEF Blk
  <2>2. \A q \in Proc : pc'[q] \in Inside <=> pc[q] \in Inside
    BY <1>1, <1>2 DEF DiskFinish, DescWakeup, Woken, Inside, ProcTypes
  <2>3. QED
    BY <2>1, <2>2, UsersSame
<1>10. QED
  BY <1>8, <1>9

\* The device writes what is cached, or reads into a buffer that is not valid yet.
LEMMA ServeStutters ==
    ASSUME CacheInv, NEW i \in Desc, DeviceServe(i), UNCHANGED Outside
    PROVE  Content' = Content /\ Users' = Users
<1>1. /\ DiskTypes /\ CacheTypes /\ ProcTypes /\ PhaseInv /\ BlockInv /\ ValidInv /\ RequestInv
      /\ LinkInv /\ RingInv /\ StageInv
  BY DEF CacheInv
<1>2. PICK q \in Proc :
         /\ head[q] = i /\ buf[q] \in Buf /\ Blk(q) \in Block
         /\ wr[q] => platter' = [platter EXCEPT ![Blk(q)] = data[buf[q]]] /\ data' = data
         /\ ~wr[q] => data' = [data EXCEPT ![buf[q]] = platter[Blk(q)]] /\ platter' = platter
  BY <1>1, ServeIs
<1>3. UNCHANGED <<blockno, valid, pc, buf>>
  BY DEF Outside, cacheVars, procVars
<1>4. valid[buf[q]] <=> wr[q]
  <2>1. pc[q] \in Request
    BY <1>1, <1>2, OwnerIs, Names
  <2>2. QED
    BY <1>1, <2>1 DEF ValidInv, Disk
<1>5. Distinct(blockno) /\ data \in [Buf -> Val] /\ platter \in [Block -> Val]
  BY <1>1 DEF BlockInv, Distinct, DiskTypes
<1>6. ASSUME NEW m \in Block
      PROVE  Shown(data', platter', blockno, valid, m) = Shown(data, platter, blockno, valid, m)
  <2>1. CASE \E b \in Buf : blockno[b] = m /\ valid[b]
    <3>1. PICK b \in Buf : blockno[b] = m /\ valid[b]
      BY <2>1
    <3>2. Shown(data', platter', blockno, valid, m) = data'[b]
      BY <1>5, <3>1, ShownBuf
    <3>3. Shown(data, platter, blockno, valid, m) = data[b]
      BY <1>5, <3>1, ShownBuf
    <3>4. data'[b] = data[b]
      BY <1>2, <1>4, <1>5, <3>1
    <3>5. QED
      BY <3>2, <3>3, <3>4
  <2>2. CASE ~(\E b \in Buf : blockno[b] = m /\ valid[b])
    <3>1. Shown(data', platter', blockno, valid, m) = platter'[m]
      BY <1>5, <2>2, ShownDisk
    <3>2. Shown(data, platter, blockno, valid, m) = platter[m]
      BY <1>5, <2>2, ShownDisk
    <3>3. platter'[m] = platter[m]
      BY <1>2, <1>4, <1>5, <2>2 DEF Blk
    <3>4. QED
      BY <3>1, <3>2, <3>3
  <2>3. QED
    BY <2>1, <2>2
<1>7. Content' = Content
  BY <1>3, <1>6, ContentIs
<1>8. Users' = Users
  BY <1>3, UsersSame DEF Blk
<1>9. QED
  BY <1>7, <1>8

\* The other steps of a process touch no data, and let nobody in or out.
LEMMA OthersStutter ==
    ASSUME CacheInv, NEW p \in Proc,
           \/ AcquireWaits(p) \/ DiskStart(p) \/ DiskWaits(p) \/ DiskSleeps(p)
           \/ Brelse(p) \/ Bunpin(p)
           \/ \E k \in Block : BgetPanic(p, k)
           \/ \E k \in Block, b \in Buf : BgetCached(p, k, b)
    PROVE  Content' = Content /\ Users' = Users
<1>1. ProcTypes
  BY DEF CacheInv
<1>2. UNCHANGED <<data, platter, blockno, valid>>
  BY DEF AcquireWaits, DiskStart, Submit, DiskWaits, DiskSleeps, Brelse, Bunpin,
         BgetPanic, BgetCached, diskVars, deviceVars, cacheVars
<1>3. /\ \A q \in Proc : pc'[q] \in Inside <=> pc[q] \in Inside
      /\ \A q \in Proc : pc[q] \in Inside => buf'[q] = buf[q]
  <2> USE <1>1 DEF ProcTypes, Inside
  <2>1. CASE AcquireWaits(p)
    BY <2>1 DEF AcquireWaits, Goto
  <2>2. CASE DiskStart(p)
    BY <2>2 DEF DiskStart, Goto
  <2>3. CASE DiskWaits(p)
    BY <2>3 DEF DiskWaits, DescWakeup, Woken
  <2>4. CASE DiskSleeps(p)
    BY <2>4 DEF DiskSleeps, Goto
  <2>5. CASE Brelse(p)
    BY <2>5 DEF Brelse, Goto
  <2>6. CASE Bunpin(p)
    BY <2>6 DEF Bunpin, procVars
  <2>7. ASSUME NEW k \in Block, BgetPanic(p, k)
        PROVE  UNCHANGED <<pc, buf>>
    BY <2>7 DEF BgetPanic, procVars
  <2>8. ASSUME NEW k \in Block, NEW b \in Buf, BgetCached(p, k, b)
        PROVE  /\ \A q \in Proc : pc'[q] \in Inside <=> pc[q] \in Inside
               /\ \A q \in Proc : pc[q] \in Inside => buf'[q] = buf[q]
    BY <2>8 DEF BgetCached, Goto
  <2> HIDE DEF ProcTypes, Inside
  <2>9. QED
    BY <2>1, <2>2, <2>3, <2>4, <2>5, <2>6, <2>7, <2>8
<1>4. \A q \in Proc : pc[q] \in Inside => Blk(q)' = Blk(q)
  BY <1>2, <1>3 DEF Blk
<1>5. QED
  BY <1>2, <1>3, <1>4, ContentSame, UsersSame

\* Nor do the interrupt handler, and the device when it takes a request.
LEMMA HandlerStutters ==
    ASSUME CacheInv,
           HandleEntry \/ ((IntrAck \/ IntrDone \/ DeviceTake) /\ UNCHANGED Outside)
    PROVE  Content' = Content /\ Users' = Users
<1>1. ProcTypes
  BY DEF CacheInv
<1>2. UNCHANGED <<data, platter, blockno, valid, buf>>
  BY DEF HandleEntry, IntrEntry, IntrAck, IntrDone, DeviceTake, Outside, deviceVars,
         cacheVars, procVars
<1>3. \A q \in Proc : pc'[q] \in Inside <=> pc[q] \in Inside
  <2>1. CASE HandleEntry
    BY <1>1, <2>1 DEF HandleEntry, Woken, Inside, ProcTypes
  <2>2. CASE UNCHANGED Outside
    BY <2>2 DEF Outside, procVars
  <2>3. QED
    BY <2>1, <2>2
<1>4. \A q \in Proc : Blk(q)' = Blk(q)
  BY <1>2 DEF Blk
<1>5. QED
  BY <1>2, <1>3, <1>4, ContentSame, UsersSame

\* Whatever is recycled, read and written meanwhile, bread() gives a block to one process at
\* a time, as its last user left it.
THEOREM CacheImplementsBlockStore == Spec => ImplementsBlockStore
<1>1. Init => Abstract!SInit
  <2> SUFFICES ASSUME Init PROVE Abstract!SInit
    OBVIOUS
  <2>1. Content = [k \in Block |-> InitVal]
    BY DEF Init, DiskInit, Content, Holds
  <2>2. Users = [k \in Block |-> {}]
    BY DEF Init, Users, Inside
  <2>3. QED
    BY <2>1, <2>2 DEF Abstract!SInit
<1>2. CacheInv /\ CacheInv' /\ [Next]_vars => [Abstract!SNext]_(Abstract!svars)
  <2> SUFFICES ASSUME CacheInv, CacheInv', [Next]_vars
               PROVE  Abstract!SNext \/ UNCHANGED <<Content, Users>>
    BY DEF Abstract!svars
  <2>1. BlockInv'
    BY DEF CacheInv
  <2>2. ASSUME NEW p \in Proc, Kernel(p) PROVE Abstract!SNext \/ UNCHANGED <<Content, Users>>
    <3>1. CASE AcquireSleep(p)
      BY <3>1, AcquireSimulates DEF Abstract!SNext
    <3>2. CASE ReleaseSleep(p)
      BY <3>2, ReleaseSimulates DEF Abstract!SNext
    <3>3. CASE DiskFinish(p)
      BY <3>3, FinishStutters
    <3>4. QED
      BY <2>2, <3>1, <3>2, <3>3, OthersStutter DEF Kernel
  <2>3. ASSUME NEW p \in Proc, Use(p) PROVE Abstract!SNext \/ UNCHANGED <<Content, Users>>
    <3>1. ASSUME NEW v \in Val, LogWrite(p, v) \/ Bwrite(p, v) PROVE Abstract!SNext
      BY <3>1, WriteSimulates DEF Abstract!SNext
    <3>2. ASSUME NEW k \in Block, BgetRecycle(p, k) PROVE UNCHANGED <<Content, Users>>
      BY <2>1, <3>2, RecycleStutters
    <3>3. QED
      BY <2>3, <3>1, <3>2, OthersStutter DEF Use
  <2>4. CASE DiskIntr
    BY <2>4, HandlerStutters DEF DiskIntr, Outside
  <2>5. CASE Device /\ UNCHANGED Outside
    BY <2>5, HandlerStutters, ServeStutters DEF Device
  <2>6. CASE UNCHANGED vars
    <3>1. UNCHANGED <<data, platter, blockno, valid, pc, buf>>
      BY <2>6 DEF vars, diskVars, deviceVars, cacheVars, procVars
    <3>2. QED
      BY <3>1, ContentSame, UsersSame DEF Blk
  <2>7. QED
    BY <2>2, <2>3, <2>4, <2>5, <2>6 DEF Next, Outside
<1>3. QED
  BY <1>1, <1>2, CacheInvariant, PTL DEF Spec, ImplementsBlockStore, Abstract!SSpec
=============================================================================
