------------------------------ MODULE FsProofs ------------------------------
(***************************************************************************)
(* Proofs about the file system (modules Inode and Fs).                    *)
(***************************************************************************)
EXTENDS Fs, FiniteSetTheorems, SequenceTheorems, WellFoundedInduction, TLAPS

\* A set of numbers has a least element.
LEMMA HasLeast ==
    ASSUME NEW T, T \subseteq Nat, T # {}
    PROVE  \E i \in T : \A j \in T : i <= j
  <1>1. PICK i \in T : \A j \in T : <<j, i>> \notin OpToRel(<, Nat)
    BY NatLessThanWellFounded, WFMin, Zenon
  <1>2. \A j \in T : ~(j < i)  BY <1>1, Zenon DEF OpToRel
  <1>3. QED  BY <1>2

\* Least() returns it.
LEMMA LeastIs ==
    ASSUME NEW S, S \subseteq Nat, S # {}
    PROVE  Least(S) \in S /\ \A y \in S : Least(S) <= y
  <1>1. \E x \in S : \A y \in S : x <= y  BY HasLeast
  <1>2. QED  BY <1>1, Zenon DEF Least

-----------------------------------------------------------------------------
(* The invariant, first part: where a call is and which pointers it has.    *)

Task  == [do : {"put", "unlock"}, slot : Slot]
Todos == {t \in Seq(Task) : Len(t) <= 3}

Ops    == {"open", "trunc", "chdir", "link", "unlink", "create", "mkdir", "mknod"}
Makes  == {"create", "mkdir", "mknod"}
Finds  == {"open", "trunc", "chdir", "link"}
Labels == {"user", "namei", "parent", "open", "chdir", "link1", "link", "link2", "linkbad",
           "unlink1", "unlink2", "unlink3", "create1", "exists", "create2", "created"}

Calls  == {None} \cup UNION {Call[p] : p \in Proc}

ProcTypes ==
    /\ holder \in [Slot -> Proc \cup {None}]
    /\ pc \in [Proc -> Labels]
    /\ call \in [Proc -> Calls]
    /\ rest \in [Proc -> Seq(STRING)]
    /\ cur \in [Proc -> 0..NINODE] /\ ip \in [Proc -> 0..NINODE]
    /\ cwd \in [Proc -> Slot] /\ fd \in [Proc -> 0..NINODE]
    /\ todo \in [Proc -> Todos]
    /\ putting \in [Proc -> {"no", "free", "drop"}]

\* Which of cur and ip a call has at each place.
Place(p) ==
    /\ cur[p] = 0 <=> pc[p] \in {"user", "link", "linkbad", "unlink3", "exists", "created"}
    /\ pc[p] \in {"link", "link2", "linkbad", "unlink2", "unlink3", "exists", "create2", "created"}
          => ip[p] # 0
    /\ ip[p] # 0 => pc[p] \in {"parent", "link", "link2", "linkbad", "unlink2", "unlink3",
                               "exists", "create2", "created"}
    /\ putting[p] # "no" => todo[p] # <<>> /\ Head(todo[p]).do = "put"

\* Which call is at each place.
Made(p) ==
    /\ pc[p] # "user" => call[p] \in Call[p]
    /\ pc[p] = "namei" => call[p].op \in Finds
    /\ pc[p] = "parent" => IF ip[p] # 0 THEN call[p].op = "link"
                           ELSE call[p].op \in Makes \cup {"unlink"}
    /\ pc[p] \in {"link1", "link", "link2", "linkbad"} => call[p].op = "link"
    /\ pc[p] \in {"create1", "create2"} => call[p].op \in Makes
    /\ pc[p] \in {"link2", "unlink1", "unlink2", "create1", "create2"} => Len(rest[p]) = 1

\* An entry of itable, field by field.
Ent(a, b, c, d) == [inum |-> a, ref |-> b, valid |-> c, ino |-> d]

IsEntry(e) == e = Ent(e.inum, e.ref, e.valid, e.ino)

IsTable(T) == /\ T = [s \in Slot |-> T[s]]
              /\ \A s \in Slot : IsEntry(T[s]) /\ T[s].ref \in Nat

\* Everything is well formed and itable's reference counts are exact.
RefInv ==
    /\ ProcTypes /\ IsTable(itable)
    /\ \A p \in Proc : Place(p) /\ Made(p)
    /\ RefsExact

-----------------------------------------------------------------------------
(* Counting pointers.                                                       *)

Is(x, s) == IF x = s THEN 1 ELSE 0

\* The processes whose pointer f is the slot s are finitely many.
LEMMA HoldsType ==
    ASSUME NEW f, NEW s
    PROVE  IsFiniteSet({p \in Proc : f[p] = s}) /\ Holds(f, s) \in Nat
  <1>1. IsFiniteSet({p \in Proc : f[p] = s})
    BY FsAssumption, FS_Subset DEF FsAssumption
  <1>2. QED  BY <1>1, FS_CardinalityType DEF Holds

\* What the others hold does not depend on p.
LEMMA HoldsOthers ==
    ASSUME NEW f, NEW s, NEW p \in Proc
    PROVE  Holds(f, s) = Cardinality({q \in Proc : q # p /\ f[q] = s}) + Is(f[p], s)
  <1> DEFINE S == {q \in Proc : f[q] = s}
             R == {q \in Proc : q # p /\ f[q] = s}
  <1>1. IsFiniteSet(S) /\ Cardinality(S) \in Nat  BY HoldsType DEF Holds
  <1>2. CASE f[p] = s
    <2>1. R = S \ {p} /\ p \in S  BY <1>2
    <2>2. Cardinality(R) = Cardinality(S) - 1  BY <1>1, <2>1, FS_RemoveElement
    <2>3. QED  BY <1>1, <1>2, <2>2 DEF Holds, Is
  <1>3. CASE f[p] # s
    <2>1. R = S  BY <1>3
    <2>2. QED  BY <1>1, <1>3, <2>1 DEF Holds, Is
  <1>4. QED  BY <1>2, <1>3

\* A process that changes its pointer changes the count by that.
LEMMA HoldsMove ==
    ASSUME NEW f, NEW g, NEW s, NEW p \in Proc,
           \A q \in Proc : q # p => g[q] = f[q]
    PROVE  Holds(g, s) = Holds(f, s) - Is(f[p], s) + Is(g[p], s)
  <1> DEFINE R == {q \in Proc : q # p /\ f[q] = s}
  <1>1. {q \in Proc : q # p /\ g[q] = s} = R  OBVIOUS
  <1>2. Holds(f, s) = Cardinality(R) + Is(f[p], s)  BY HoldsOthers
  <1>3. Holds(g, s) = Cardinality(R) + Is(g[p], s)  BY <1>1, HoldsOthers
  <1>4. Holds(f, s) \in Nat /\ Holds(g, s) \in Nat  BY HoldsType
  <1>5. Is(f[p], s) \in Nat /\ Is(g[p], s) \in Nat  BY DEF Is
  <1>6. IsFiniteSet(R)
    BY FsAssumption, FS_Subset DEF FsAssumption
  <1>7. Cardinality(R) \in Nat  BY <1>6, FS_CardinalityType
  <1>8. QED  BY <1>2, <1>3, <1>4, <1>5, <1>7

\* Two processes' pointers to a slot are two references.
LEMMA HoldsTwo ==
    ASSUME NEW f, NEW s, NEW p \in Proc, NEW q \in Proc, p # q
    PROVE  Holds(f, s) >= Is(f[p], s) + Is(f[q], s) /\ Holds(f, s) >= Is(f[p], s)
  <1> DEFINE R == {r \in Proc : r # p /\ f[r] = s}
  <1>1. Holds(f, s) = Cardinality(R) + Is(f[p], s)  BY HoldsOthers
  <1>2. IsFiniteSet(R)  BY FsAssumption, FS_Subset DEF FsAssumption
  <1>3. Cardinality(R) \in Nat  BY <1>2, FS_CardinalityType
  <1>4. f[q] = s => Cardinality(R) >= 1
    <2> SUFFICES ASSUME f[q] = s PROVE Cardinality(R) # 0  BY <1>3
    <2>1. q \in R  OBVIOUS
    <2>2. QED  BY <1>2, <2>1, FS_EmptySet
  <1>5. QED  BY <1>1, <1>3, <1>4 DEF Is

\* The k-th task, if it is an iput().
PutOf(t, k) == IF k \in DOMAIN t /\ t[k].do = "put" THEN t[k].slot ELSE 0

\* How often a list of tasks puts a slot.
PutsOf(t, s) == Is(PutOf(t, 1), s) + Is(PutOf(t, 2), s) + Is(PutOf(t, 3), s)

\* The lists of tasks that the calls leave to themselves.
LEMMA PutsOfLists ==
    ASSUME NEW a \in Slot, NEW b \in Slot, NEW s \in Slot
    PROVE  /\ PutsOf(<<>>, s) = 0 /\ <<>> \in Todos
           /\ PutsOf(<<Put(a)>>, s) = Is(a, s) /\ <<Put(a)>> \in Todos
           /\ PutsOf(<<Put(a), Put(b)>>, s) = Is(a, s) + Is(b, s)
           /\ <<Put(a), Put(b)>> \in Todos
           /\ PutsOf(<<Put(a), Unlock(b), Put(b)>>, s) = Is(a, s) + Is(b, s)
           /\ <<Put(a), Unlock(b), Put(b)>> \in Todos
  <1>1. s # 0 /\ Is(0, s) = 0 /\ Is(a, s) \in Nat /\ Is(b, s) \in Nat
    BY InodeAssumption DEF Is, Slot, InodeAssumption
  <1>2. /\ Put(a) \in Task /\ Unlock(b) \in Task /\ Put(b) \in Task
        /\ Put(a).do = "put" /\ Put(a).slot = a /\ Put(b).do = "put" /\ Put(b).slot = b
        /\ Unlock(b).do = "unlock"
    BY DEF Put, Unlock, Task
  <1>3. /\ <<>> \in Todos /\ <<Put(a)>> \in Todos /\ <<Put(a), Put(b)>> \in Todos
        /\ <<Put(a), Unlock(b), Put(b)>> \in Todos
    BY <1>2 DEF Todos
  <1>4. \A k \in 1..3 : PutOf(<<>>, k) = 0
    BY DEF PutOf
  <1>5. PutOf(<<Put(a)>>, 1) = a /\ PutOf(<<Put(a)>>, 2) = 0 /\ PutOf(<<Put(a)>>, 3) = 0
    BY <1>2 DEF PutOf
  <1>6. /\ PutOf(<<Put(a), Put(b)>>, 1) = a /\ PutOf(<<Put(a), Put(b)>>, 2) = b
        /\ PutOf(<<Put(a), Put(b)>>, 3) = 0
    BY <1>2 DEF PutOf
  <1>7. /\ PutOf(<<Put(a), Unlock(b), Put(b)>>, 1) = a
        /\ PutOf(<<Put(a), Unlock(b), Put(b)>>, 2) = 0
        /\ PutOf(<<Put(a), Unlock(b), Put(b)>>, 3) = b
    BY <1>2 DEF PutOf
  <1>8. QED  BY <1>1, <1>3, <1>4, <1>5, <1>6, <1>7 DEF PutsOf

\* Doing the first task of a list.
LEMMA PutsOfTail ==
    ASSUME NEW t \in Todos, t # <<>>, NEW s \in Slot
    PROVE  /\ Tail(t) \in Todos /\ Head(t) \in Task /\ t[1] = Head(t)
           /\ PutsOf(t, s) = PutsOf(Tail(t), s) + Is(PutOf(t, 1), s)
           /\ PutOf(t, 1) = IF Head(t).do = "put" THEN Head(t).slot ELSE 0
           /\ PutOf(Tail(t), 1) = PutOf(t, 2) /\ PutOf(Tail(t), 2) = PutOf(t, 3)
  <1>1. t \in Seq(Task) /\ Len(t) \in Nat /\ Len(t) # 0 /\ Len(t) <= 3
    BY EmptySeq DEF Todos
  <1>2. /\ Tail(t) \in Seq(Task) /\ Len(Tail(t)) = Len(t) - 1 /\ Head(t) = t[1]
        /\ Head(t) \in Task /\ DOMAIN Tail(t) = 1..(Len(t) - 1) /\ DOMAIN t = 1..Len(t)
        /\ \A k \in 1..(Len(t) - 1) : Tail(t)[k] = t[k + 1]
    BY <1>1
  <1>3. Tail(t) \in Todos  BY <1>1, <1>2 DEF Todos
  <1>4. /\ PutOf(Tail(t), 1) = PutOf(t, 2) /\ PutOf(Tail(t), 2) = PutOf(t, 3)
        /\ PutOf(Tail(t), 3) = 0
    BY <1>1, <1>2 DEF PutOf
  <1>5. s # 0 /\ Is(0, s) = 0  BY InodeAssumption DEF Is, Slot, InodeAssumption
  <1>6. PutOf(t, 1) = IF Head(t).do = "put" THEN Head(t).slot ELSE 0
    BY <1>1, <1>2 DEF PutOf
  <1>7. \A k \in {1, 2, 3} : Is(PutOf(t, k), s) \in Nat  BY DEF Is
  <1>8. QED  BY <1>2, <1>3, <1>4, <1>5, <1>6, <1>7 DEF PutsOf

-----------------------------------------------------------------------------
(* The inode table: what iget() and ilock() do to its entries.              *)

\* Assignments to the fields of an entry.
LEMMA EntSet ==
    ASSUME NEW a, NEW b, NEW c, NEW d, NEW x
    PROVE  /\ [Ent(a, b, c, d) EXCEPT !.inum = x] = Ent(x, b, c, d)
           /\ [Ent(a, b, c, d) EXCEPT !.ref = x] = Ent(a, x, c, d)
           /\ [Ent(a, b, c, d) EXCEPT !.valid = x] = Ent(a, b, x, d)
           /\ [Ent(a, b, c, d) EXCEPT !.ino = x] = Ent(a, b, c, x)
           /\ Ent(a, b, c, d).inum = a /\ Ent(a, b, c, d).ref = b
           /\ Ent(a, b, c, d).valid = c /\ Ent(a, b, c, d).ino = d
  BY DEF Ent

\* Assignments to an entry of a table.
Replaced(L, T, s, e)  == L = [T EXCEPT ![s] = e]
Copied(L, T, s, v, n) == L = [T EXCEPT ![s].valid = v, ![s].ino = n]
Given(L, T, s, i, v)  == L = [T EXCEPT ![s].inum = i, ![s].ref = 1, ![s].valid = v]
Counted(L, T, s, n)   == L = [T EXCEPT ![s].ref = n]

\* A table in which one entry is replaced.
LEMMA TableSet ==
    ASSUME NEW T, IsTable(T), NEW s \in Slot, NEW L, NEW e, Replaced(L, T, s, e),
           NEW a, NEW b, NEW c, NEW d, e = Ent(a, b, c, d)
    PROVE  /\ b \in Nat => IsTable(L)
           /\ \A t \in Slot : t # s => L[t] = T[t]
           /\ L[s].inum = a /\ L[s].ref = b /\ L[s].valid = c /\ L[s].ino = d
  <1>1. L = [t \in Slot |-> IF t = s THEN e ELSE T[t]]  BY DEF IsTable, Replaced
  <1>2. \A t \in Slot : L[t] = IF t = s THEN e ELSE T[t]  BY <1>1
  <1>3. e.inum = a /\ e.ref = b /\ e.valid = c /\ e.ino = d  BY EntSet
  <1>4. IsEntry(e)  BY <1>3 DEF IsEntry
  <1>5. b \in Nat => \A t \in Slot : IsEntry(L[t]) /\ L[t].ref \in Nat
    BY <1>2, <1>3, <1>4 DEF IsTable
  <1>6. L = [t \in Slot |-> L[t]]  BY <1>1
  <1>7. QED  BY <1>2, <1>3, <1>5, <1>6 DEF IsTable

\* Two assignments to an entry, valid and the copy.
LEMMA SetCopy ==
    ASSUME NEW T, IsTable(T), NEW s \in Slot, NEW v, NEW n,
           NEW L, Copied(L, T, s, v, n)
    PROVE  /\ IsTable(L)
           /\ \A t \in Slot : /\ L[t].inum = T[t].inum /\ L[t].ref = T[t].ref
                              /\ t # s => L[t].valid = T[t].valid /\ L[t].ino = T[t].ino
           /\ L[s].valid = v /\ L[s].ino = n
  <1> DEFINE e1 == [T[s] EXCEPT !.valid = v]
             e == [e1 EXCEPT !.ino = n]
  <1>1. T[s] = Ent(T[s].inum, T[s].ref, T[s].valid, T[s].ino) /\ T[s].ref \in Nat
    BY DEF IsTable, IsEntry
  <1>2. e1 = Ent(T[s].inum, T[s].ref, v, T[s].ino)  BY <1>1, EntSet
  <1>3. Replaced(L, T, s, e)
    <2>1. [T EXCEPT ![s] = e1][s] = e1  BY DEF IsTable
    <2>2. QED  BY <2>1 DEF IsTable, Copied, Replaced
  <1> HIDE DEF e1
  <1>4. e = Ent(T[s].inum, T[s].ref, v, n)  BY <1>2, EntSet
  <1> HIDE DEF e
  <1>5. /\ IsTable(L) /\ \A t \in Slot : t # s => L[t] = T[t]
        /\ L[s].inum = T[s].inum /\ L[s].ref = T[s].ref /\ L[s].valid = v /\ L[s].ino = n
    BY <1>1, <1>3, <1>4, TableSet
  <1>6. QED  BY <1>5

\* ilock() changes valid and the copy of one entry.
LEMMA LoadIs ==
    ASSUME NEW T, IsTable(T), NEW s \in Slot, NEW n
    PROVE  /\ IsTable(Load(T, s, n))
           /\ \A t \in Slot : /\ Load(T, s, n)[t].inum = T[t].inum
                              /\ Load(T, s, n)[t].ref = T[t].ref
                              /\ t # s => /\ Load(T, s, n)[t].valid = T[t].valid
                                          /\ Load(T, s, n)[t].ino = T[t].ino
           /\ Load(T, s, n)[s].valid /\ Load(T, s, n)[s].ino = n
  <1> DEFINE L == Load(T, s, n)
  <1>1. L = [T EXCEPT ![s].valid = TRUE, ![s].ino = n]  BY DEF Load
  <1> HIDE DEF L
  <1>2. PICK v : v = TRUE  OBVIOUS
  <1>3. Copied(L, T, s, v, n)  BY <1>1, <1>2, Zenon DEF Copied
  <1>4. /\ IsTable(L)
        /\ \A t \in Slot : /\ L[t].inum = T[t].inum /\ L[t].ref = T[t].ref
                           /\ t # s => L[t].valid = T[t].valid /\ L[t].ino = T[t].ino
        /\ L[s].valid = v /\ L[s].ino = n
    BY <1>3, SetCopy
  <1>5. L[s].valid  BY <1>2, <1>4, Zenon
  <1>6. QED  BY <1>4, <1>5 DEF L

\* A table in which an entry is given to an i-number.
LEMMA SetNew ==
    ASSUME NEW T, IsTable(T), NEW s \in Slot, NEW i, NEW v,
           NEW L, Given(L, T, s, i, v)
    PROVE  /\ IsTable(L)
           /\ \A t \in Slot : /\ L[t].ino = T[t].ino
                              /\ t # s => /\ L[t].inum = T[t].inum /\ L[t].ref = T[t].ref
                                          /\ L[t].valid = T[t].valid
           /\ L[s].inum = i /\ L[s].ref = 1 /\ L[s].valid = v
  <1> DEFINE e1 == [T[s] EXCEPT !.inum = i]
             e2 == [e1 EXCEPT !.ref = 1]
             e == [e2 EXCEPT !.valid = v]
  <1>1. T[s] = Ent(T[s].inum, T[s].ref, T[s].valid, T[s].ino)
    BY DEF IsTable, IsEntry
  <1>2. e1 = Ent(i, T[s].ref, T[s].valid, T[s].ino)  BY <1>1, EntSet
  <1>3. Replaced(L, T, s, e)
    <2>1. [T EXCEPT ![s] = e1][s] = e1  BY DEF IsTable
    <2>2. [[T EXCEPT ![s] = e1] EXCEPT ![s] = e2][s] = e2  BY DEF IsTable
    <2>3. QED  BY <2>1, <2>2 DEF IsTable, Given, Replaced
  <1> HIDE DEF e1
  <1>4. e2 = Ent(i, 1, T[s].valid, T[s].ino)  BY <1>2, EntSet
  <1> HIDE DEF e2
  <1>5. e = Ent(i, 1, v, T[s].ino)  BY <1>4, EntSet
  <1> HIDE DEF e
  <1>6. /\ IsTable(L) /\ \A t \in Slot : t # s => L[t] = T[t]
        /\ L[s].inum = i /\ L[s].ref = 1 /\ L[s].valid = v /\ L[s].ino = T[s].ino
    <2>1. 1 \in Nat  OBVIOUS
    <2>2. QED  BY <1>3, <1>5, <2>1, TableSet
  <1>7. QED  BY <1>6

\* An entry with another number of references.
LEMMA SetRef ==
    ASSUME NEW T, IsTable(T), NEW s \in Slot, NEW n,
           NEW L, Counted(L, T, s, n)
    PROVE  /\ n \in Nat => IsTable(L)
           /\ \A t \in Slot : /\ L[t].inum = T[t].inum /\ L[t].valid = T[t].valid
                              /\ L[t].ino = T[t].ino /\ (t # s => L[t].ref = T[t].ref)
           /\ L[s].ref = n
  <1> DEFINE e == [T[s] EXCEPT !.ref = n]
  <1>1. T[s] = Ent(T[s].inum, T[s].ref, T[s].valid, T[s].ino)
    BY DEF IsTable, IsEntry
  <1>2. e = Ent(T[s].inum, n, T[s].valid, T[s].ino)  BY <1>1, EntSet
  <1>3. Replaced(L, T, s, e)  BY DEF Counted, Replaced
  <1> HIDE DEF e
  <1>4. /\ n \in Nat => IsTable(L)
        /\ \A t \in Slot : t # s => L[t] = T[t]
        /\ L[s].inum = T[s].inum /\ L[s].ref = n /\ L[s].valid = T[s].valid
        /\ L[s].ino = T[s].ino
    BY <1>2, <1>3, TableSet
  <1>5. QED  BY <1>4

\* iget() returns an entry for the i-number, with one reference more.
LEMMA IgetIs ==
    ASSUME IsTable(itable), NEW T, IsTable(T), NEW i, ~NoSlot(i),
           \A t \in Slot : T[t].ref = itable[t].ref /\ T[t].inum = itable[t].inum
    PROVE  /\ IsTable(Iget(T, i)) /\ IgetSlot(i) \in Slot
           /\ IF Entries(i) = {} THEN itable[IgetSlot(i)].ref = 0 /\ ~Iget(T, i)[IgetSlot(i)].valid
              ELSE /\ IgetSlot(i) \in Entries(i)
                   /\ Iget(T, i)[IgetSlot(i)].valid = T[IgetSlot(i)].valid
           /\ Iget(T, i)[IgetSlot(i)].inum = i
           /\ \A t \in Slot : /\ Iget(T, i)[t].ref = itable[t].ref + Is(IgetSlot(i), t)
                              /\ Iget(T, i)[t].ino = T[t].ino
                              /\ t # IgetSlot(i) => /\ Iget(T, i)[t].inum = itable[t].inum
                                                    /\ Iget(T, i)[t].valid = T[t].valid
  <1> DEFINE r == IgetSlot(i)
             I == Iget(T, i)
  <1>1. Entries(i) \subseteq Nat /\ EmptySlots \subseteq Nat
    BY DEF Entries, EmptySlots, Slot
  <1>2. /\ r \in Slot
        /\ Entries(i) # {} => r \in Entries(i)
        /\ Entries(i) = {} => itable[r].ref = 0
    <2>1. CASE Entries(i) # {}
      BY <1>1, <2>1, LeastIs DEF IgetSlot, Entries
    <2>2. CASE Entries(i) = {}
      <3>1. EmptySlots # {} /\ r = Least(EmptySlots)  BY <2>2 DEF NoSlot, IgetSlot
      <3>2. r \in EmptySlots  BY <1>1, <3>1, LeastIs
      <3>3. QED  BY <2>2, <3>2 DEF EmptySlots
    <2>3. QED  BY <2>1, <2>2
  <1>3. \A t \in Slot : itable[t].ref \in Nat /\ T[t].ref \in Nat  BY DEF IsTable
  <1>4. CASE Entries(i) # {}
    <2>1. Counted(I, T, r, T[r].ref + 1)  BY <1>4 DEF Iget, Counted
    <2>2. T[r].ref + 1 \in Nat  BY <1>2, <1>3
    <2>3. /\ IsTable(I)
          /\ \A t \in Slot : /\ I[t].inum = T[t].inum /\ I[t].valid = T[t].valid
                             /\ I[t].ino = T[t].ino /\ (t # r => I[t].ref = T[t].ref)
          /\ I[r].ref = T[r].ref + 1
      BY <1>2, <2>1, <2>2, SetRef
    <2>4. itable[r].inum = i  BY <1>2, <1>4 DEF Entries
    <2> HIDE DEF r, I
    <2>5. QED  BY <1>2, <1>3, <1>4, <2>3, <2>4 DEF Is, r, I
  <1>5. CASE Entries(i) = {}
    <2>1. I = [T EXCEPT ![r].inum = i, ![r].ref = 1, ![r].valid = FALSE]  BY <1>5 DEF Iget
    <2> HIDE DEF r, I
    <2>2. PICK v : v = FALSE  OBVIOUS
    <2>3. Given(I, T, r, i, v)  BY <2>1, <2>2, Zenon DEF Given
    <2>4. /\ IsTable(I)
          /\ \A t \in Slot : /\ I[t].ino = T[t].ino
                             /\ t # r => /\ I[t].inum = T[t].inum /\ I[t].ref = T[t].ref
                                         /\ I[t].valid = T[t].valid
          /\ I[r].inum = i /\ I[r].ref = 1 /\ I[r].valid = v
      BY <1>2, <2>3, SetNew
    <2>5. ~I[r].valid  BY <2>2, <2>4, Zenon
    <2>6. QED  BY <1>2, <1>3, <1>5, <2>4, <2>5 DEF Is, r, I
  <1>6. QED  BY <1>4, <1>5

-----------------------------------------------------------------------------
(* References: a step of p changes what p points to and the counts alike.   *)

Weight(p, s) ==
    Is(cur[p], s) + Is(ip[p], s) + Is(cwd[p], s) + Is(fd[p], s) + PutsOf(todo[p], s)

\* The variables of the other processes stay as they are.
Only(p) ==
    \A q \in Proc : q # p =>
        /\ pc'[q] = pc[q] /\ call'[q] = call[q] /\ rest'[q] = rest[q]
        /\ cur'[q] = cur[q] /\ ip'[q] = ip[q] /\ cwd'[q] = cwd[q] /\ fd'[q] = fd[q]
        /\ todo'[q] = todo[q] /\ putting'[q] = putting[q]

\* A step of p that moves its references as it changes the counts.
LEMMA StepRefs ==
    ASSUME RefInv, NEW p \in Proc, ProcTypes', Only(p), Place(p)', Made(p)',
           IsTable(itable'),
           \A s \in Slot : itable'[s].ref + Weight(p, s) = itable[s].ref + Weight(p, s)'
    PROVE  RefInv'
  <1>1. ASSUME NEW q \in Proc PROVE Place(q)' /\ Made(q)'
    <2>1. CASE q = p  BY <2>1
    <2>2. CASE q # p
      BY <2>2 DEF Only, RefInv, Place, Made
    <2>3. QED  BY <2>1, <2>2
  <1>2. ASSUME NEW s \in Slot
        PROVE  itable'[s].ref = Holds(cur', s) + Holds(ip', s) + Holds(cwd', s) + Holds(fd', s)
                 + Holds(PutAt(1)', s) + Holds(PutAt(2)', s) + Holds(PutAt(3)', s)
    <2>1. /\ Holds(cur', s) = Holds(cur, s) - Is(cur[p], s) + Is(cur'[p], s)
          /\ Holds(ip', s) = Holds(ip, s) - Is(ip[p], s) + Is(ip'[p], s)
          /\ Holds(cwd', s) = Holds(cwd, s) - Is(cwd[p], s) + Is(cwd'[p], s)
          /\ Holds(fd', s) = Holds(fd, s) - Is(fd[p], s) + Is(fd'[p], s)
      <3>1. \A q \in Proc : q # p => /\ cur'[q] = cur[q] /\ ip'[q] = ip[q]
                                      /\ cwd'[q] = cwd[q] /\ fd'[q] = fd[q]
        BY DEF Only
      <3>2. Holds(cur', s) = Holds(cur, s) - Is(cur[p], s) + Is(cur'[p], s)
        BY <3>1, HoldsMove
      <3>3. Holds(ip', s) = Holds(ip, s) - Is(ip[p], s) + Is(ip'[p], s)
        BY <3>1, HoldsMove
      <3>4. Holds(cwd', s) = Holds(cwd, s) - Is(cwd[p], s) + Is(cwd'[p], s)
        BY <3>1, HoldsMove
      <3>5. Holds(fd', s) = Holds(fd, s) - Is(fd[p], s) + Is(fd'[p], s)
        BY <3>1, HoldsMove
      <3>6. QED  BY <3>2, <3>3, <3>4, <3>5
    <2>2. ASSUME NEW k
          PROVE  /\ \A q \in Proc : /\ PutAt(k)[q] = PutOf(todo[q], k)
                                    /\ PutAt(k)'[q] = PutOf(todo'[q], k)
                 /\ Holds(PutAt(k)', s) = Holds(PutAt(k), s) - Is(PutOf(todo[p], k), s)
                                            + Is(PutOf(todo'[p], k), s)
      <3>1. \A q \in Proc : /\ PutAt(k)[q] = PutOf(todo[q], k)
                            /\ PutAt(k)'[q] = PutOf(todo'[q], k)
        BY DEF PutAt, PutOf
      <3>2. \A q \in Proc : q # p => PutAt(k)'[q] = PutAt(k)[q]
        BY <3>1 DEF Only
      <3>3. Holds(PutAt(k)', s) = Holds(PutAt(k), s) - Is(PutAt(k)[p], s) + Is(PutAt(k)'[p], s)
        BY <3>2, HoldsMove
      <3>4. QED  BY <3>1, <3>3
    <2>3. itable[s].ref = Holds(cur, s) + Holds(ip, s) + Holds(cwd, s) + Holds(fd, s)
                 + Holds(PutAt(1), s) + Holds(PutAt(2), s) + Holds(PutAt(3), s)
      BY DEF RefInv, RefsExact
    <2>4. itable'[s].ref + Weight(p, s) = itable[s].ref + Weight(p, s)'  OBVIOUS
    <2>5. ASSUME NEW f PROVE Holds(f, s) \in Int
      <3>1. Holds(f, s) \in Nat  BY HoldsType
      <3>2. QED  BY <3>1
    <2>6. \A x : Is(x, s) \in Int  BY DEF Is
    <2>7. itable'[s].ref \in Int  BY DEF IsTable
    <2>8. QED  BY <2>1, <2>2, <2>3, <2>4, <2>5, <2>6, <2>7 DEF Weight, PutsOf
  <1>3. RefsExact'  BY <1>2 DEF RefsExact, Holds
  <1>4. QED  BY <1>1, <1>3 DEF RefInv

\* What the variables of p hold.
LEMMA PlaceFacts ==
    ASSUME RefInv, NEW p \in Proc
    PROVE  /\ cur[p] # 0 => cur[p] \in Slot
           /\ ip[p] # 0 => ip[p] \in Slot
           /\ fd[p] # 0 => fd[p] \in Slot
           /\ cwd[p] \in Slot /\ todo[p] \in Todos /\ rest[p] \in Seq(STRING)
           /\ 0 \in 0..NINODE /\ Slot \subseteq 0..NINODE /\ 0 \notin Slot
           /\ Place(p) /\ Made(p) /\ ProcTypes /\ IsTable(itable)
  <1>1. NINODE \in Nat  BY InodeAssumption DEF InodeAssumption
  <1>2. 0 \in 0..NINODE /\ Slot \subseteq 0..NINODE /\ 0 \notin Slot
        /\ \A x \in 0..NINODE : x # 0 => x \in Slot
    BY <1>1 DEF Slot
  <1>3. ProcTypes  BY DEF RefInv
  <1>4. /\ cur[p] \in 0..NINODE /\ ip[p] \in 0..NINODE /\ fd[p] \in 0..NINODE
        /\ cwd[p] \in Slot /\ todo[p] \in Todos /\ rest[p] \in Seq(STRING)
    BY <1>3 DEF ProcTypes
  <1>5. QED  BY <1>2, <1>3, <1>4 DEF RefInv

\* The variables of the call after a step of p: types, the values of p, the others.
CallVars(p, l, c, i, t) ==
    /\ pc' \in [Proc -> Labels] /\ todo' \in [Proc -> Todos]
    /\ call' \in [Proc -> Calls]
    /\ rest' \in [Proc -> Seq(STRING)]
    /\ cur' \in [Proc -> 0..NINODE] /\ ip' \in [Proc -> 0..NINODE]
    /\ pc'[p] = l /\ cur'[p] = c /\ ip'[p] = i /\ todo'[p] = t
    /\ \A q \in Proc : q # p => /\ pc'[q] = pc[q] /\ call'[q] = call[q] /\ rest'[q] = rest[q]
                                /\ cur'[q] = cur[q] /\ ip'[q] = ip[q] /\ todo'[q] = todo[q]

\* The call returns.
LEMMA ReturnIs ==
    ASSUME RefInv, NEW p \in Proc, NEW t \in Todos, Return(p, t)
    PROVE  CallVars(p, "user", 0, 0, t)
  <1>1. ProcTypes /\ 0 \in 0..NINODE  BY PlaceFacts
  <1>2. "user" \in Labels  BY DEF Labels
  <1>3. <<>> \in Seq(STRING)  OBVIOUS
  <1>4. /\ pc' \in [Proc -> Labels] /\ pc'[p] = "user"
        /\ \A q \in Proc : q # p => pc'[q] = pc[q]
    BY <1>1, <1>2 DEF ProcTypes, Return, Then
  <1>5. /\ todo' \in [Proc -> Todos] /\ todo'[p] = t
        /\ \A q \in Proc : q # p => todo'[q] = todo[q]
    BY <1>1 DEF ProcTypes, Return, Then
  <1>6. /\ call' \in [Proc -> Calls]
        /\ \A q \in Proc : q # p => call'[q] = call[q]
    <2>1. None \in Calls  BY DEF Calls
    <2>2. QED  BY <1>1, <2>1 DEF ProcTypes, Return
  <1>7. rest' \in [Proc -> Seq(STRING)] /\ \A q \in Proc : q # p => rest'[q] = rest[q]
    BY <1>1, <1>3 DEF ProcTypes, Return
  <1>8. /\ cur' \in [Proc -> 0..NINODE] /\ cur'[p] = 0
        /\ \A q \in Proc : q # p => cur'[q] = cur[q]
    BY <1>1 DEF ProcTypes, Return, Forget
  <1>9. /\ ip' \in [Proc -> 0..NINODE] /\ ip'[p] = 0
        /\ \A q \in Proc : q # p => ip'[q] = ip[q]
    BY <1>1 DEF ProcTypes, Return, Forget
  <1>10. QED  BY <1>4, <1>5, <1>6, <1>7, <1>8, <1>9 DEF CallVars

\* The call goes on elsewhere.
LEMMA ThenIs ==
    ASSUME RefInv, NEW p \in Proc, NEW l \in Labels, NEW t \in Todos, Then(p, l, t),
           UNCHANGED <<call, rest, cur, ip>>
    PROVE  CallVars(p, l, cur[p], ip[p], t) /\ call'[p] = call[p] /\ rest'[p] = rest[p]
  <1>1. ProcTypes  BY PlaceFacts
  <1>2. QED  BY <1>1 DEF ProcTypes, Then, CallVars

\* namex() finds nothing: the call returns, or link() undoes its count.
LEMMA FailedIs ==
    ASSUME RefInv, NEW p \in Proc, NEW t \in Todos, Failed(p, t)
    PROVE  /\ ip[p] # 0 => /\ CallVars(p, "linkbad", 0, ip[p], t)
                           /\ call'[p] = call[p] /\ rest'[p] = rest[p]
           /\ ip[p] = 0 => CallVars(p, "user", 0, 0, t)
  <1>1. ProcTypes /\ 0 \in 0..NINODE  BY PlaceFacts
  <1>2. "linkbad" \in Labels  BY DEF Labels
  <1>3. CASE ip[p] # 0
    <2>1. /\ Then(p, "linkbad", t) /\ cur' = [cur EXCEPT ![p] = 0]
          /\ UNCHANGED <<call, rest, ip>>
      BY <1>3 DEF Failed, Forget
    <2>2. /\ pc' \in [Proc -> Labels] /\ todo' \in [Proc -> Todos]
          /\ pc'[p] = "linkbad" /\ todo'[p] = t
          /\ \A q \in Proc : q # p => pc'[q] = pc[q] /\ todo'[q] = todo[q]
      BY <1>1, <1>2, <2>1 DEF ProcTypes, Then
    <2>3. /\ cur' \in [Proc -> 0..NINODE] /\ cur'[p] = 0
          /\ \A q \in Proc : q # p => cur'[q] = cur[q]
      BY <1>1, <2>1 DEF ProcTypes
    <2>4. QED  BY <1>1, <1>3, <2>1, <2>2, <2>3 DEF ProcTypes, CallVars
  <1>4. CASE ip[p] = 0
    BY <1>4, ReturnIs DEF Failed
  <1>5. QED  BY <1>3, <1>4

\* namex() succeeds: the call goes on.
LEMMA FoundIs ==
    ASSUME RefInv, NEW p \in Proc, Found(p), pc[p] \in {"namei", "parent"}
    PROVE  /\ CallVars(p, pc'[p], cur[p], ip[p], <<>>)
           /\ call'[p] = call[p] /\ rest'[p] = rest[p]
           /\ pc[p] = "namei" => pc'[p] \in {"open", "chdir", "link1"}
           /\ pc'[p] = "link1" => call[p].op = "link" /\ pc[p] = "namei"
           /\ pc'[p] = "link2" <=> pc[p] = "parent" /\ ip[p] # 0
           /\ pc[p] = "parent" => pc'[p] \in {"link2", "unlink1", "create1"}
           /\ pc'[p] = "create1" => call[p].op \in Makes
  <1>1. Place(p) /\ Made(p)  BY PlaceFacts
  <1>2. call[p].op \in Ops
    <2>1. call[p] \in Call[p]  BY <1>1 DEF Made
    <2>2. QED  BY <2>1, FsAssumption DEF FsAssumption, Ops
  <1>3. PICK l : /\ Then(p, l, <<>>)
                 /\ l = CASE call[p].op = "link" -> IF ip[p] = 0 THEN "link1" ELSE "link2"
                          [] call[p].op = "chdir" -> "chdir"
                          [] call[p].op \in {"open", "trunc"} -> "open"
                          [] call[p].op = "unlink" -> "unlink1"
                          [] OTHER -> "create1"
    BY Zenon DEF Found
  <1>4. l \in Labels  BY <1>2, <1>3 DEF Ops, Labels
  <1>5. <<>> \in Todos  BY DEF Todos
  <1>6. CallVars(p, l, cur[p], ip[p], <<>>) /\ call'[p] = call[p] /\ rest'[p] = rest[p]
    BY <1>3, <1>4, <1>5, ThenIs DEF Found
  <1>7. pc'[p] = l  BY <1>6 DEF CallVars
  <1>8. CASE pc[p] = "namei"
    <2>1. call[p].op \in Finds /\ ip[p] = 0  BY <1>1, <1>8 DEF Place, Made
    <2>2. QED  BY <1>3, <1>6, <1>7, <1>8, <2>1 DEF Finds
  <1>9. CASE pc[p] = "parent"
    <2>1. IF ip[p] # 0 THEN call[p].op = "link" ELSE call[p].op \in Makes \cup {"unlink"}
      BY <1>1, <1>9 DEF Made
    <2>2. QED  BY <1>3, <1>6, <1>7, <1>9, <2>1 DEF Makes
  <1>10. QED  BY <1>8, <1>9

\* The rest of the state of a process after a step of p: types, and the others.
Kept(p) ==
    /\ holder' \in [Slot -> Proc \cup {None}]
    /\ cwd' \in [Proc -> Slot] /\ fd' \in [Proc -> 0..NINODE]
    /\ putting' \in [Proc -> {"no", "free", "drop"}]
    /\ \A q \in Proc : q # p => /\ cwd'[q] = cwd[q] /\ fd'[q] = fd[q]
                                /\ putting'[q] = putting[q]

\* A step of a call: the references it has before, the ones it has after.
LEMMA CallStep ==
    ASSUME RefInv, NEW p \in Proc, NEW l, NEW c, NEW i, NEW t, CallVars(p, l, c, i, t),
           Kept(p), Place(p)', Made(p)', IsTable(itable'),
           \A s \in Slot : itable'[s].ref + Weight(p, s)
                             = itable[s].ref + Is(c, s) + Is(i, s) + Is(cwd'[p], s)
                                 + Is(fd'[p], s) + PutsOf(t, s)
    PROVE  RefInv'
  <1>1. ProcTypes'  BY DEF CallVars, Kept, ProcTypes
  <1>2. Only(p)  BY DEF CallVars, Kept, Only
  <1>3. ASSUME NEW s \in Slot
        PROVE  itable'[s].ref + Weight(p, s) = itable[s].ref + Weight(p, s)'
    <2>1. Weight(p, s)' = Is(c, s) + Is(i, s) + Is(cwd'[p], s) + Is(fd'[p], s) + PutsOf(t, s)
      BY DEF CallVars, Weight
    <2>2. \A x : Is(x, s) \in Int  BY DEF Is
    <2>3. PutsOf(t, s) \in Int  BY <2>2 DEF PutsOf
    <2>4. itable[s].ref \in Int  BY DEF RefInv, IsTable
    <2>5. QED  BY <2>1, <2>2, <2>3, <2>4
  <1>4. QED  BY <1>1, <1>2, <1>3, StepRefs

\* The call of p has nothing left to do before its next step.
LEMMA NoTasks ==
    ASSUME RefInv, NEW p \in Proc, todo[p] = <<>>
    PROVE  /\ putting[p] = "no"
           /\ \A s \in Slot : /\ Weight(p, s) = Is(cur[p], s) + Is(ip[p], s) + Is(cwd[p], s)
                                                  + Is(fd[p], s)
                              /\ Is(0, s) = 0 /\ Is(cur[p], s) \in Int /\ Is(ip[p], s) \in Int
                              /\ Is(cwd[p], s) \in Int /\ Is(fd[p], s) \in Int
                              /\ itable[s].ref \in Int
  <1>1. putting[p] = "no"  BY PlaceFacts DEF Place
  <1>2. ASSUME NEW s \in Slot
        PROVE  /\ PutsOf(<<>>, s) = 0 /\ itable[s].ref \in Int /\ Is(0, s) = 0
               /\ \A x : Is(x, s) \in Int
    <2>1. PutsOf(<<>>, s) = 0  BY PutsOfLists
    <2>2. 0 # s  BY PlaceFacts
    <2>3. QED  BY <2>1, <2>2 DEF Is, RefInv, IsTable
  <1>3. QED  BY <1>1, <1>2 DEF Weight

\* The call returns, with its references handed to the tasks, to cwd or to fd.
LEMMA ReturnStep ==
    ASSUME RefInv, NEW p \in Proc, todo[p] = <<>>, NEW t \in Todos, Return(p, t),
           Kept(p), putting'[p] = putting[p], IsTable(itable'),
           \A s \in Slot : itable'[s].ref + Is(cur[p], s) + Is(ip[p], s) + Is(cwd[p], s)
                             + Is(fd[p], s)
                             = itable[s].ref + Is(cwd'[p], s) + Is(fd'[p], s) + PutsOf(t, s)
    PROVE  RefInv'
  <1>1. CallVars(p, "user", 0, 0, t)  BY ReturnIs
  <1>2. putting'[p] = "no"  BY NoTasks
  <1>3. Place(p)' /\ Made(p)'
    BY <1>1, <1>2 DEF CallVars, Place, Made
  <1>4. ASSUME NEW s \in Slot
        PROVE  itable'[s].ref + Weight(p, s)
                 = itable[s].ref + Is(0, s) + Is(0, s) + Is(cwd'[p], s)
                     + Is(fd'[p], s) + PutsOf(t, s)
    <2>1. itable'[s].ref \in Int  BY DEF IsTable
    <2>2. \A x : Is(x, s) \in Int  BY DEF Is
    <2>3. PutsOf(t, s) \in Int  BY <2>2 DEF PutsOf
    <2>4. /\ Weight(p, s) = Is(cur[p], s) + Is(ip[p], s) + Is(cwd[p], s) + Is(fd[p], s)
          /\ Is(0, s) = 0 /\ itable[s].ref \in Int
      BY NoTasks
    <2>5. itable'[s].ref + Is(cur[p], s) + Is(ip[p], s) + Is(cwd[p], s) + Is(fd[p], s)
            = itable[s].ref + Is(cwd'[p], s) + Is(fd'[p], s) + PutsOf(t, s)
      OBVIOUS
    <2>6. QED  BY ONLY <2>1, <2>2, <2>3, <2>4, <2>5
  <1>5. QED  BY <1>1, <1>3, <1>4, CallStep

\* Nothing but the call changes.
LEMMA KeptIs ==
    ASSUME RefInv, NEW p \in Proc, UNCHANGED <<cwd, fd, putting>>,
           holder' \in [Slot -> Proc \cup {None}]
    PROVE  Kept(p)
  BY DEF RefInv, ProcTypes, Kept

\* The call of p goes on with the references it has, cur excepted.
LEMMA ThenStep ==
    ASSUME RefInv, NEW p \in Proc, todo[p] = <<>>, NEW l, NEW c, NEW i, NEW t,
           CallVars(p, l, c, i, t), Kept(p), UNCHANGED <<cwd, fd, putting>>,
           Place(p)', Made(p)', IsTable(itable'),
           \A s \in Slot : itable'[s].ref + Is(cur[p], s) + Is(ip[p], s)
                             = itable[s].ref + Is(c, s) + Is(i, s) + PutsOf(t, s)
    PROVE  RefInv'
  <1>1. ASSUME NEW s \in Slot
        PROVE  itable'[s].ref + Weight(p, s)
                 = itable[s].ref + Is(c, s) + Is(i, s) + Is(cwd'[p], s)
                     + Is(fd'[p], s) + PutsOf(t, s)
    <2>1. itable'[s].ref \in Int  BY DEF IsTable
    <2>2. \A x : Is(x, s) \in Int  BY DEF Is
    <2>3. PutsOf(t, s) \in Int  BY <2>2 DEF PutsOf
    <2>4. /\ Weight(p, s) = Is(cur[p], s) + Is(ip[p], s) + Is(cwd[p], s) + Is(fd[p], s)
          /\ Is(0, s) = 0 /\ itable[s].ref \in Int
      BY NoTasks
    <2>5. cwd'[p] = cwd[p] /\ fd'[p] = fd[p]  OBVIOUS
    <2>6. itable'[s].ref + Is(cur[p], s) + Is(ip[p], s)
            = itable[s].ref + Is(c, s) + Is(i, s) + PutsOf(t, s)
      OBVIOUS
    <2>7. /\ Is(c, s) \in Int /\ Is(i, s) \in Int /\ Is(cwd[p], s) \in Int
          /\ Is(fd[p], s) \in Int /\ Is(cur[p], s) \in Int /\ Is(ip[p], s) \in Int
          /\ Is(cwd'[p], s) = Is(cwd[p], s) /\ Is(fd'[p], s) = Is(fd[p], s)
      BY <2>2, <2>5
    <2>8. QED  BY ONLY <2>1, <2>3, <2>4, <2>6, <2>7
  <1>2. QED  BY <1>1, CallStep

-----------------------------------------------------------------------------
(* Every action keeps the counts exact.                                     *)

\* A call that returns and puts what cur pointed to.
LEMMA PutCur ==
    ASSUME RefInv, NEW p \in Proc, todo[p] = <<>>, cur[p] # 0, ip[p] = 0,
           Return(p, <<Put(cur[p])>>), UNCHANGED <<cwd, fd, putting>>,
           holder' \in [Slot -> Proc \cup {None}],
           IsTable(itable'), \A s \in Slot : itable'[s].ref = itable[s].ref
    PROVE  RefInv'
  <1>1. cur[p] \in Slot  BY PlaceFacts
  <1>2. Kept(p)  BY KeptIs
  <1>3. ASSUME NEW s \in Slot
        PROVE  itable'[s].ref + Is(cur[p], s) + Is(ip[p], s) + Is(cwd[p], s) + Is(fd[p], s)
                 = itable[s].ref + Is(cwd'[p], s) + Is(fd'[p], s) + PutsOf(<<Put(cur[p])>>, s)
    <2>1. PutsOf(<<Put(cur[p])>>, s) = Is(cur[p], s)  BY <1>1, PutsOfLists
    <2>2. itable[s].ref \in Int /\ Is(0, s) = 0  BY NoTasks
    <2>3. \A x : Is(x, s) \in Int  BY DEF Is
    <2>4. QED  BY <2>1, <2>2, <2>3
  <1>4. <<Put(cur[p])>> \in Todos  BY <1>1, PutsOfLists
  <1>5. putting'[p] = putting[p]  OBVIOUS
  <1>6. QED  BY <1>2, <1>3, <1>4, <1>5, ReturnStep

\* The same for ip.
LEMMA PutIp ==
    ASSUME RefInv, NEW p \in Proc, todo[p] = <<>>, ip[p] # 0, cur[p] = 0,
           Return(p, <<Put(ip[p])>>), UNCHANGED <<cwd, fd, putting>>,
           holder' \in [Slot -> Proc \cup {None}],
           IsTable(itable'), \A s \in Slot : itable'[s].ref = itable[s].ref
    PROVE  RefInv'
  <1>1. ip[p] \in Slot  BY PlaceFacts
  <1>2. Kept(p)  BY KeptIs
  <1>3. ASSUME NEW s \in Slot
        PROVE  itable'[s].ref + Is(cur[p], s) + Is(ip[p], s) + Is(cwd[p], s) + Is(fd[p], s)
                 = itable[s].ref + Is(cwd'[p], s) + Is(fd'[p], s) + PutsOf(<<Put(ip[p])>>, s)
    <2>1. PutsOf(<<Put(ip[p])>>, s) = Is(ip[p], s)  BY <1>1, PutsOfLists
    <2>2. itable[s].ref \in Int /\ Is(0, s) = 0  BY NoTasks
    <2>3. \A x : Is(x, s) \in Int  BY DEF Is
    <2>4. QED  BY <2>1, <2>2, <2>3
  <1>4. <<Put(ip[p])>> \in Todos  BY <1>1, PutsOfLists
  <1>5. putting'[p] = putting[p]  OBVIOUS
  <1>6. QED  BY <1>2, <1>3, <1>4, <1>5, ReturnStep

\* Both, and the lock of cur before it: unlink() and create() give up.
LEMMA PutBoth ==
    ASSUME RefInv, NEW p \in Proc, todo[p] = <<>>, ip[p] # 0, cur[p] # 0, NEW t,
           t \in {<<Put(ip[p]), Unlock(cur[p]), Put(cur[p])>>, <<Put(cur[p]), Put(ip[p])>>},
           Return(p, t), UNCHANGED <<cwd, fd, putting>>,
           holder' \in [Slot -> Proc \cup {None}],
           IsTable(itable'), \A s \in Slot : itable'[s].ref = itable[s].ref
    PROVE  RefInv'
  <1>1. ip[p] \in Slot /\ cur[p] \in Slot  BY PlaceFacts
  <1>2. Kept(p)  BY KeptIs
  <1>3. ASSUME NEW s \in Slot
        PROVE  itable'[s].ref + Is(cur[p], s) + Is(ip[p], s) + Is(cwd[p], s) + Is(fd[p], s)
                 = itable[s].ref + Is(cwd'[p], s) + Is(fd'[p], s) + PutsOf(t, s)
    <2>1. PutsOf(t, s) = Is(ip[p], s) + Is(cur[p], s)
      <3>1. \A x : Is(x, s) \in Int  BY DEF Is
      <3>2. PutsOf(<<Put(ip[p]), Unlock(cur[p]), Put(cur[p])>>, s) = Is(ip[p], s) + Is(cur[p], s)
        BY <1>1, PutsOfLists
      <3>3. PutsOf(<<Put(cur[p]), Put(ip[p])>>, s) = Is(cur[p], s) + Is(ip[p], s)
        BY <1>1, PutsOfLists
      <3>4. QED  BY <3>1, <3>2, <3>3
    <2>2. itable[s].ref \in Int /\ Is(0, s) = 0  BY NoTasks
    <2>3. \A x : Is(x, s) \in Int  BY DEF Is
    <2>4. QED  BY <2>1, <2>2, <2>3
  <1>4. t \in Todos
    <2>1. /\ <<Put(ip[p]), Unlock(cur[p]), Put(cur[p])>> \in Todos
          /\ <<Put(cur[p]), Put(ip[p])>> \in Todos
      BY <1>1, PutsOfLists
    <2>2. QED  BY <2>1
  <1>5. putting'[p] = putting[p]  OBVIOUS
  <1>6. QED  BY <1>2, <1>3, <1>4, <1>5, ReturnStep

\* A failed namex() puts cur.
LEMMA PutFailed ==
    ASSUME RefInv, NEW p \in Proc, todo[p] = <<>>, cur[p] # 0,
           ip[p] # 0 => pc[p] \in {"parent", "link2"},
           Failed(p, <<Put(cur[p])>>), UNCHANGED <<cwd, fd, putting>>,
           holder' \in [Slot -> Proc \cup {None}],
           IsTable(itable'), \A s \in Slot : itable'[s].ref = itable[s].ref
    PROVE  RefInv'
  <1>1. cur[p] \in Slot /\ Place(p) /\ Made(p)  BY PlaceFacts
  <1>2. CASE ip[p] = 0
    <2>1. Return(p, <<Put(cur[p])>>)  BY <1>2 DEF Failed
    <2>2. QED  BY <1>2, <2>1, PutCur
  <1>3. CASE ip[p] # 0
    <2>1. <<Put(cur[p])>> \in Todos  BY <1>1, PutsOfLists
    <2>2. /\ CallVars(p, "linkbad", 0, ip[p], <<Put(cur[p])>>)
          /\ call'[p] = call[p] /\ rest'[p] = rest[p]
      <3>1. PICK t : t = <<Put(cur[p])>>  OBVIOUS
      <3>2. t \in Todos /\ Failed(p, t)  BY <2>1, <3>1 DEF Failed, Return, Then, Forget
      <3>3. CallVars(p, "linkbad", 0, ip[p], t) /\ call'[p] = call[p] /\ rest'[p] = rest[p]
        BY <1>3, <3>2, FailedIs
      <3>4. QED  BY <3>1, <3>3
    <2>3. putting'[p] = "no"  BY NoTasks
    <2>4. call[p].op = "link" /\ call[p] \in Call[p]  BY <1>1, <1>3 DEF Made
    <2>5. Place(p)' /\ Made(p)'
      BY <1>3, <2>2, <2>3, <2>4 DEF CallVars, Place, Made
    <2>6. Kept(p)  BY KeptIs
    <2>7. ASSUME NEW s \in Slot
          PROVE  itable'[s].ref + Is(cur[p], s) + Is(ip[p], s)
                   = itable[s].ref + Is(0, s) + Is(ip[p], s) + PutsOf(<<Put(cur[p])>>, s)
      <3>1. PutsOf(<<Put(cur[p])>>, s) = Is(cur[p], s)  BY <1>1, PutsOfLists
      <3>2. itable[s].ref \in Int /\ Is(0, s) = 0  BY NoTasks
      <3>3. \A x : Is(x, s) \in Int  BY DEF Is
      <3>4. QED  BY <3>1, <3>2, <3>3
    <2>8. QED  BY <2>2, <2>5, <2>6, <2>7, ThenStep
  <1>4. QED  BY <1>2, <1>3

\* A call that goes on with the pointers it has.
LEMMA GoOn ==
    ASSUME RefInv, NEW p \in Proc, todo[p] = <<>>, NEW l, CallVars(p, l, cur[p], ip[p], <<>>),
           UNCHANGED <<cwd, fd, putting>>, holder' \in [Slot -> Proc \cup {None}],
           Place(p)', Made(p)',
           IsTable(itable'), \A s \in Slot : itable'[s].ref = itable[s].ref
    PROVE  RefInv'
  <1>1. ASSUME NEW s \in Slot
        PROVE  itable'[s].ref + Is(cur[p], s) + Is(ip[p], s)
                 = itable[s].ref + Is(cur[p], s) + Is(ip[p], s) + PutsOf(<<>>, s)
    <2>1. PutsOf(<<>>, s) = 0  BY PutsOfLists
    <2>2. itable[s].ref \in Int  BY NoTasks
    <2>3. \A x : Is(x, s) \in Int  BY DEF Is
    <2>4. QED  BY <2>1, <2>2, <2>3
  <1>2. Kept(p)  BY KeptIs
  <1>3. QED  BY <1>1, <1>2, ThenStep

\* namex() succeeds.
LEMMA GoOnFound ==
    ASSUME RefInv, NEW p \in Proc, todo[p] = <<>>, Found(p), UNCHANGED <<cwd, fd, putting>>,
           pc[p] \in {"namei", "parent"}, pc[p] = "parent" => Len(rest[p]) = 1,
           holder' \in [Slot -> Proc \cup {None}],
           IsTable(itable'), \A s \in Slot : itable'[s].ref = itable[s].ref
    PROVE  RefInv'
  <1>1. /\ CallVars(p, pc'[p], cur[p], ip[p], <<>>)
        /\ call'[p] = call[p] /\ rest'[p] = rest[p]
        /\ pc[p] = "namei" => pc'[p] \in {"open", "chdir", "link1"}
        /\ pc'[p] = "link1" => call[p].op = "link" /\ pc[p] = "namei"
        /\ pc'[p] = "link2" <=> pc[p] = "parent" /\ ip[p] # 0
        /\ pc[p] = "parent" => pc'[p] \in {"link2", "unlink1", "create1"}
        /\ pc'[p] = "create1" => call[p].op \in Makes
    BY FoundIs
  <1>2. Place(p) /\ Made(p) /\ putting'[p] = "no"  BY PlaceFacts, NoTasks
  <1>3. Place(p)'
    BY <1>1, <1>2 DEF CallVars, Place
  <1>4. Made(p)'
    BY <1>1, <1>2 DEF CallVars, Made
  <1>5. QED  BY <1>1, <1>3, <1>4, GoOn

\* ilock() changes no reference.
LEMMA LoadKeeps ==
    ASSUME RefInv, NEW s \in Slot, NEW n
    PROVE  /\ IsTable(Load(itable, s, n))
           /\ \A t \in Slot : Load(itable, s, n)[t].ref = itable[t].ref
  BY LoadIs DEF RefInv

\* Two inodes loaded in one step.
LEMMA LoadTwiceKeeps ==
    ASSUME RefInv, NEW s \in Slot, NEW n, NEW d \in Slot, NEW m
    PROVE  /\ IsTable(Load(Load(itable, s, n), d, m))
           /\ \A t \in Slot : Load(Load(itable, s, n), d, m)[t].ref = itable[t].ref
  <1>1. IsTable(itable)  BY DEF RefInv
  <1> DEFINE L == Load(itable, s, n)
  <1>2. IsTable(L) /\ \A t \in Slot : L[t].ref = itable[t].ref  BY LoadKeeps
  <1> HIDE DEF L
  <1>3. IsTable(Load(L, d, m)) /\ \A t \in Slot : Load(L, d, m)[t].ref = L[t].ref
    BY <1>2, LoadIs
  <1>4. QED  BY <1>2, <1>3 DEF L

\* releasesleep() and acquiresleep()
LEMMA HolderType ==
    ASSUME RefInv, NEW p \in Proc, NEW s \in Slot, NEW d \in Slot
    PROVE  /\ holder \in [Slot -> Proc \cup {None}]
           /\ [holder EXCEPT ![s] = None] \in [Slot -> Proc \cup {None}]
           /\ [holder EXCEPT ![s] = p] \in [Slot -> Proc \cup {None}]
           /\ [holder EXCEPT ![s] = p, ![d] = None] \in [Slot -> Proc \cup {None}]
  <1>1. holder \in [Slot -> Proc \cup {None}]  BY DEF RefInv, ProcTypes
  <1>2. QED  BY <1>1

\* iunlock()
LEMMA RefIunlock == ASSUME RefInv, NEW p \in Proc, Iunlock(p) PROVE RefInv'
  <1>1. /\ todo[p] # <<>> /\ Head(todo[p]).do = "unlock" /\ putting[p] = "no"
        /\ todo' = [todo EXCEPT ![p] = Tail(@)]
        /\ holder' = [holder EXCEPT ![Todo(p)] = None]
        /\ UNCHANGED <<itable, pc, call, rest, cur, ip, cwd, fd, putting>>
    BY DEF Iunlock, Doing, Done, callVars
  <1>2. todo[p] \in Todos /\ ProcTypes /\ Place(p) /\ Made(p) /\ IsTable(itable)  BY PlaceFacts
  <1>3. ASSUME NEW s \in Slot
        PROVE  /\ Tail(todo[p]) \in Todos /\ Head(todo[p]) \in Task
               /\ PutsOf(todo[p], s) = PutsOf(Tail(todo[p]), s)
    <2>1. /\ Tail(todo[p]) \in Todos /\ Head(todo[p]) \in Task
          /\ PutsOf(todo[p], s) = PutsOf(Tail(todo[p]), s) + Is(PutOf(todo[p], 1), s)
          /\ PutOf(todo[p], 1) = IF Head(todo[p]).do = "put" THEN Head(todo[p]).slot ELSE 0
      BY <1>1, <1>2, PutsOfTail
    <2>2. PutOf(todo[p], 1) = 0 /\ Is(0, s) = 0
      <3>1. 0 # s  BY PlaceFacts
      <3>2. QED  BY <1>1, <2>1, <3>1 DEF Is
    <2>3. \A x : Is(x, s) \in Int  BY DEF Is
    <2>4. PutsOf(Tail(todo[p]), s) \in Int  BY <2>3 DEF PutsOf
    <2>5. QED  BY <2>1, <2>2, <2>4
  <1>4. 1 \in Slot  BY FsAssumption, InodeAssumption DEF FsAssumption, InodeAssumption, Slot
  <1>5. Tail(todo[p]) \in Todos /\ Todo(p) \in Slot  BY <1>3, <1>4 DEF Task, Todo
  <1>6. CallVars(p, pc[p], cur[p], ip[p], Tail(todo[p]))
    BY <1>1, <1>2, <1>5 DEF ProcTypes, CallVars
  <1>7. holder' \in [Slot -> Proc \cup {None}]  BY <1>1, <1>5, HolderType
  <1>8. Kept(p)  BY <1>1, <1>7, KeptIs
  <1>9. Place(p)' /\ Made(p)'  BY <1>1, <1>2 DEF Place, Made
  <1>10. ASSUME NEW s \in Slot
         PROVE  itable'[s].ref + Weight(p, s)
                  = itable[s].ref + Is(cur[p], s) + Is(ip[p], s) + Is(cwd'[p], s)
                      + Is(fd'[p], s) + PutsOf(Tail(todo[p]), s)
    <2>1. PutsOf(todo[p], s) = PutsOf(Tail(todo[p]), s)  BY <1>3
    <2>2. \A x : Is(x, s) \in Int  BY DEF Is
    <2>3. PutsOf(todo[p], s) \in Int  BY <2>2 DEF PutsOf
    <2>4. itable[s].ref \in Int  BY <1>2 DEF IsTable
    <2>5. QED  BY <1>1, <2>1, <2>2, <2>3, <2>4 DEF Weight
  <1>11. IsTable(itable')  BY <1>1, <1>2
  <1>12. QED  BY <1>6, <1>8, <1>9, <1>10, <1>11, CallStep

\* A reference that a task is to put is counted.
LEMMA PutCounted ==
    ASSUME RefInv, NEW p \in Proc, todo[p] # <<>>, Head(todo[p]).do = "put"
    PROVE  /\ Todo(p) \in Slot /\ itable[Todo(p)].ref \in Nat /\ itable[Todo(p)].ref >= 1
           /\ Tail(todo[p]) \in Todos
           /\ \A s \in Slot : PutsOf(todo[p], s) = PutsOf(Tail(todo[p]), s) + Is(Todo(p), s)
  <1>1. todo[p] \in Todos /\ IsTable(itable)  BY PlaceFacts
  <1>2. \A s \in Slot :
          /\ Tail(todo[p]) \in Todos /\ Head(todo[p]) \in Task /\ todo[p][1] = Head(todo[p])
          /\ PutsOf(todo[p], s) = PutsOf(Tail(todo[p]), s) + Is(PutOf(todo[p], 1), s)
          /\ PutOf(todo[p], 1) = IF Head(todo[p]).do = "put" THEN Head(todo[p]).slot ELSE 0
    BY <1>1, PutsOfTail
  <1>3. 1 \in Slot  BY FsAssumption, InodeAssumption DEF FsAssumption, InodeAssumption, Slot
  <1>4. Head(todo[p]) \in Task /\ Tail(todo[p]) \in Todos  BY <1>2, <1>3
  <1>5. PutOf(todo[p], 1) = Todo(p) /\ Todo(p) \in Slot  BY <1>2, <1>3, <1>4 DEF Todo, Task
  <1>6. \A s \in Slot : PutsOf(todo[p], s) = PutsOf(Tail(todo[p]), s) + Is(Todo(p), s)
    BY <1>2, <1>5
  <1>7. itable[Todo(p)].ref \in Nat  BY <1>1, <1>5 DEF IsTable
  <1>8. itable[Todo(p)].ref >= 1
    <2> DEFINE s == Todo(p)
    <2>1. itable[s].ref = Holds(cur, s) + Holds(ip, s) + Holds(cwd, s) + Holds(fd, s)
                 + Holds(PutAt(1), s) + Holds(PutAt(2), s) + Holds(PutAt(3), s)
      BY <1>5 DEF RefInv, RefsExact
    <2>2. PutAt(1)[p] = s  BY <1>5 DEF PutAt, PutOf
    <2>3. Holds(PutAt(1), s) = Cardinality({q \in Proc : q # p /\ PutAt(1)[q] = s})
                                 + Is(PutAt(1)[p], s)
      BY HoldsOthers
    <2>4. Cardinality({q \in Proc : q # p /\ PutAt(1)[q] = s}) \in Nat
      <3>1. IsFiniteSet({q \in Proc : q # p /\ PutAt(1)[q] = s})
        BY FsAssumption, FS_Subset DEF FsAssumption
      <3>2. QED  BY <3>1, FS_CardinalityType
    <2>5. Is(PutAt(1)[p], s) = 1  BY <2>2 DEF Is
    <2>6. ASSUME NEW f PROVE Holds(f, s) \in Nat  BY HoldsType
    <2>7. /\ Holds(cur, s) \in Nat /\ Holds(ip, s) \in Nat /\ Holds(cwd, s) \in Nat
          /\ Holds(fd, s) \in Nat /\ Holds(PutAt(2), s) \in Nat /\ Holds(PutAt(3), s) \in Nat
      BY <2>6
    <2> HIDE DEF s
    <2>8. Holds(PutAt(1), s) >= 1  BY <2>3, <2>4, <2>5
    <2>9. itable[s].ref >= 1  BY ONLY <2>1, <2>6, <2>7, <2>8
    <2>10. QED  BY <2>9 DEF s
  <1>9. QED  BY <1>4, <1>5, <1>6, <1>7, <1>8

\* The entry loses a reference, and with the last one it becomes free.
LEMMA DropIs ==
    ASSUME NEW T, IsTable(T), NEW s \in Slot, T[s].ref >= 1,
           NEW L, Replaced(L, T, s, Dropped(T[s]))
    PROVE  /\ IsTable(L) /\ L[s].ref = T[s].ref - 1
           /\ \A r \in Slot : r # s => L[r] = T[r]
           /\ L[s].ref > 0 => /\ L[s].inum = T[s].inum
                              /\ L[s].valid = T[s].valid /\ L[s].ino = T[s].ino
  <1> DEFINE e == Dropped(T[s])
  <1>1. T[s].ref \in Nat /\ T[s] = Ent(T[s].inum, T[s].ref, T[s].valid, T[s].ino)
    BY DEF IsTable, IsEntry
  <1>2. CASE T[s].ref = 1
    <2>1. PICK v : v = FALSE  OBVIOUS
    <2>2. FreeEntry = Ent(0, 0, v, FreeInode)  BY <2>1, Zenon DEF FreeEntry, Ent
    <2>3. e = FreeEntry  BY <1>2 DEF Dropped
    <2>4. Replaced(L, T, s, e)  OBVIOUS
    <2> HIDE DEF e
    <2>5. e = Ent(0, 0, v, FreeInode)  BY <2>2, <2>3
    <2>6. 0 \in Nat  OBVIOUS
    <2>7. /\ IsTable(L) /\ L[s].ref = 0
          /\ \A r \in Slot : r # s => L[r] = T[r]
      BY <2>4, <2>5, <2>6, TableSet
    <2>8. QED  BY <1>2, <2>7
  <1>3. CASE T[s].ref # 1
    <2> DEFINE n == T[s].ref - 1
    <2>1. e = [T[s] EXCEPT !.ref = n] /\ Replaced(L, T, s, e)  BY <1>3 DEF Dropped
    <2>2. n \in Nat  BY <1>1
    <2> HIDE DEF e, n
    <2>3. e = Ent(T[s].inum, n, T[s].valid, T[s].ino)  BY <1>1, <2>1, EntSet
    <2>4. /\ IsTable(L) /\ L[s].ref = n /\ L[s].inum = T[s].inum
          /\ L[s].valid = T[s].valid /\ L[s].ino = T[s].ino
          /\ \A r \in Slot : r # s => L[r] = T[r]
      BY <2>1, <2>2, <2>3, TableSet
    <2>5. QED  BY <2>4 DEF n
  <1>4. QED  BY <1>2, <1>3

\* iput(), its last part
LEMMA RefIputDrop == ASSUME RefInv, NEW p \in Proc, IputDrop(p) PROVE RefInv'
  <1> DEFINE s == Todo(p)
             T == Tail(todo[p])
             e == Dropped(itable[s])
  <1>1. /\ todo[p] # <<>> /\ Head(todo[p]).do = "put"
        /\ Replaced(itable', itable, s, e)
        /\ todo' = [todo EXCEPT ![p] = T] /\ putting' = [putting EXCEPT ![p] = "no"]
        /\ UNCHANGED <<holder, pc, call, rest, cur, ip, cwd, fd>>
    <2>1. Replaced(itable', itable, s, e)  BY DEF IputDrop, Replaced
    <2>2. /\ todo[p] # <<>> /\ Head(todo[p]).do = "put"
          /\ todo' = [todo EXCEPT ![p] = T] /\ putting' = [putting EXCEPT ![p] = "no"]
          /\ UNCHANGED <<holder, pc, call, rest, cur, ip, cwd, fd>>
      BY DEF IputDrop, Doing, Done, callVars
    <2>3. QED  BY <2>1, <2>2
  <1>2. ProcTypes /\ Place(p) /\ Made(p) /\ IsTable(itable)  BY PlaceFacts
  <1>3. /\ s \in Slot /\ itable[s].ref \in Nat /\ itable[s].ref >= 1 /\ T \in Todos
        /\ \A r \in Slot : PutsOf(todo[p], r) = PutsOf(T, r) + Is(s, r)
    BY <1>1, PutCounted
  <1>4. /\ IsTable(itable')
        /\ itable'[s].ref = itable[s].ref - 1
        /\ \A r \in Slot : r # s => itable'[r].ref = itable[r].ref
    BY <1>1, <1>2, <1>3, DropIs
  <1> HIDE DEF s, T, e
  <1>5. CallVars(p, pc[p], cur[p], ip[p], T)
    BY <1>1, <1>2, <1>3 DEF ProcTypes, CallVars
  <1>6. Kept(p) /\ putting'[p] = "no"  BY <1>1, <1>2 DEF Kept, ProcTypes
  <1>7. Place(p)' /\ Made(p)'  BY <1>1, <1>2, <1>6 DEF Place, Made
  <1>8. ASSUME NEW r \in Slot
        PROVE  itable'[r].ref + Weight(p, r)
                  = itable[r].ref + Is(cur[p], r) + Is(ip[p], r) + Is(cwd'[p], r)
                      + Is(fd'[p], r) + PutsOf(T, r)
    <2>1. \A x : Is(x, r) \in Int  BY DEF Is
    <2>2. PutsOf(todo[p], r) \in Int /\ PutsOf(T, r) \in Int  BY <2>1 DEF PutsOf
    <2>3. itable[r].ref \in Int  BY <1>2 DEF IsTable
    <2>4. itable'[r].ref + Is(s, r) = itable[r].ref  BY <1>3, <1>4, <2>3 DEF Is
    <2>5. itable'[r].ref \in Int  BY <1>4 DEF IsTable
    <2>6. /\ Is(cur[p], r) \in Int /\ Is(ip[p], r) \in Int /\ Is(s, r) \in Int
          /\ Is(cwd[p], r) \in Int /\ Is(fd[p], r) \in Int
          /\ Is(cwd'[p], r) = Is(cwd[p], r) /\ Is(fd'[p], r) = Is(fd[p], r)
      BY <1>1, <2>1
    <2>7. PutsOf(todo[p], r) = PutsOf(T, r) + Is(s, r)  BY <1>3
    <2>8. QED  BY ONLY <2>2, <2>3, <2>4, <2>5, <2>6, <2>7 DEF Weight
  <1>9. QED  BY <1>4, <1>5, <1>6, <1>7, <1>8, CallStep

\* A step of iput() that puts nothing yet.
LEMMA PutStays ==
    ASSUME RefInv, NEW p \in Proc, todo[p] # <<>>, Head(todo[p]).do = "put",
           UNCHANGED <<pc, call, rest, cur, ip, cwd, fd, todo>>,
           NEW v \in {"free", "drop"}, putting' = [putting EXCEPT ![p] = v],
           holder' \in [Slot -> Proc \cup {None}],
           IsTable(itable'), \A s \in Slot : itable'[s].ref = itable[s].ref
    PROVE  RefInv'
  <1>1. ProcTypes /\ Place(p) /\ Made(p) /\ IsTable(itable)  BY PlaceFacts
  <1>2. CallVars(p, pc[p], cur[p], ip[p], todo[p])
    BY <1>1 DEF ProcTypes, CallVars
  <1>3. Kept(p)  BY <1>1 DEF Kept, ProcTypes
  <1>4. Place(p)' /\ Made(p)'  BY <1>1 DEF Place, Made
  <1>5. ASSUME NEW s \in Slot
        PROVE  itable'[s].ref + Weight(p, s)
                  = itable[s].ref + Is(cur[p], s) + Is(ip[p], s) + Is(cwd'[p], s)
                      + Is(fd'[p], s) + PutsOf(todo[p], s)
    <2>1. \A x : Is(x, s) \in Int  BY DEF Is
    <2>2. PutsOf(todo[p], s) \in Int  BY <2>1 DEF PutsOf
    <2>3. itable[s].ref \in Int  BY <1>1 DEF IsTable
    <2>4. QED  BY <2>1, <2>2, <2>3 DEF Weight
  <1>6. QED  BY <1>2, <1>3, <1>4, <1>5, CallStep

\* iput(), when it finds that the inode must be freed
LEMMA RefIputLock == ASSUME RefInv, NEW p \in Proc, IputLock(p) PROVE RefInv'
  <1>1. /\ todo[p] # <<>> /\ Head(todo[p]).do = "put"
        /\ UNCHANGED <<pc, call, rest, cur, ip, cwd, fd, todo, itable>>
        /\ putting' = [putting EXCEPT ![p] = "free"]
        /\ holder' = [holder EXCEPT ![Todo(p)] = p]
    BY DEF IputLock, Doing, callVars
  <1>2. Todo(p) \in Slot  BY <1>1, PutCounted
  <1>3. holder' \in [Slot -> Proc \cup {None}]  BY <1>1, <1>2, HolderType
  <1>4. IsTable(itable') /\ \A s \in Slot : itable'[s].ref = itable[s].ref
    BY <1>1 DEF RefInv
  <1>5. QED  BY <1>1, <1>3, <1>4, PutStays

\* iput(), when it has freed the inode
LEMMA RefIputFree == ASSUME RefInv, NEW p \in Proc, IputFree(p) PROVE RefInv'
  <1>1. /\ todo[p] # <<>> /\ Head(todo[p]).do = "put"
        /\ UNCHANGED <<pc, call, rest, cur, ip, cwd, fd, todo>>
        /\ putting' = [putting EXCEPT ![p] = "drop"]
        /\ holder' = [holder EXCEPT ![Todo(p)] = None]
        /\ itable' = [itable EXCEPT ![Todo(p)].valid = FALSE, ![Todo(p)].ino = FreeInode]
    BY DEF IputFree, Doing, callVars
  <1>2. Todo(p) \in Slot  BY <1>1, PutCounted
  <1>3. holder' \in [Slot -> Proc \cup {None}]  BY <1>1, <1>2, HolderType
  <1>4. IsTable(itable') /\ \A s \in Slot : itable'[s].ref = itable[s].ref
    <2>1. PICK v : v = FALSE  OBVIOUS
    <2>2. Copied(itable', itable, Todo(p), v, FreeInode)  BY <1>1, <2>1, Zenon DEF Copied
    <2>3. IsTable(itable)  BY DEF RefInv
    <2>4. QED  BY <1>2, <2>2, <2>3, SetCopy
  <1>5. QED  BY <1>1, <1>3, <1>4, PutStays

\* The first steps of namex().
LEMMA RefNamex ==
    ASSUME RefInv, NEW p \in Proc, todo[p] = <<>>, cur[p] = 0, NEW path \in Seq(STRING),
           NEW l \in {"namei", "parent"}, Namex(p, path, l),
           call' \in [Proc -> Calls], call'[p] \in Call[p],
           \A q \in Proc : q # p => call'[q] = call[q],
           l = "namei" => ip[p] = 0 /\ call'[p].op \in Finds,
           l = "parent" => IF ip[p] # 0 THEN call'[p].op = "link"
                           ELSE call'[p].op \in Makes \cup {"unlink"},
           UNCHANGED <<holder, ip, cwd, fd, putting>>
    PROVE  RefInv'
  <1>1. /\ ProcTypes /\ Place(p) /\ Made(p) /\ IsTable(itable) /\ cwd[p] \in Slot
        /\ Slot \subseteq 0..NINODE /\ 0 \notin Slot
    BY PlaceFacts
  <1>2. PICK c, r : /\ cur' = [cur EXCEPT ![p] = c] /\ rest' = [rest EXCEPT ![p] = r]
                    /\ Then(p, l, <<>>)
                    /\ c = IF Absolute(path) THEN IgetSlot(ROOTINO) ELSE cwd[p]
                    /\ r = IF Absolute(path) THEN Rest(path) ELSE path
    BY Zenon DEF Namex
  <1>3. /\ IsTable(itable') /\ c \in Slot
        /\ \A s \in Slot : itable'[s].ref = itable[s].ref + Is(c, s)
    <2>1. CASE Absolute(path)
      <3>1. ~NoSlot(ROOTINO) /\ itable' = Iget(itable, ROOTINO) /\ c = IgetSlot(ROOTINO)
        BY <1>2, <2>1 DEF Namex
      <3>2. /\ IsTable(Iget(itable, ROOTINO)) /\ IgetSlot(ROOTINO) \in Slot
            /\ \A t \in Slot : Iget(itable, ROOTINO)[t].ref
                                 = itable[t].ref + Is(IgetSlot(ROOTINO), t)
        BY <1>1, <3>1, IgetIs
      <3>3. QED  BY <3>1, <3>2
    <2>2. CASE ~Absolute(path)
      <3>1. c = cwd[p] /\ itable' = [itable EXCEPT ![cwd[p]].ref = itable[cwd[p]].ref + 1]
        BY <1>2, <2>2 DEF Namex
      <3>2. PICK n : n = itable[cwd[p]].ref + 1  OBVIOUS
      <3>3. n \in Nat  BY <1>1, <3>2 DEF IsTable
      <3>4. Counted(itable', itable, cwd[p], n)  BY <3>1, <3>2 DEF Counted
      <3>5. /\ n \in Nat => IsTable(itable')
            /\ \A t \in Slot : t # cwd[p] => itable'[t].ref = itable[t].ref
            /\ itable'[cwd[p]].ref = n
        <4>1. IsTable(itable) /\ cwd[p] \in Slot  BY <1>1
        <4>2. QED  BY ONLY <3>4, <4>1, SetRef
      <3>6. IsTable(itable')  BY <3>3, <3>5
      <3>7. ASSUME NEW s \in Slot PROVE itable'[s].ref = itable[s].ref + Is(c, s)
        <4>1. itable[s].ref \in Int  BY <1>1 DEF IsTable
        <4>2. QED  BY <3>1, <3>2, <3>5, <4>1 DEF Is
      <3>8. QED  BY <1>1, <3>1, <3>6, <3>7
    <2>3. QED  BY <2>1, <2>2
  <1>4. r \in Seq(STRING)
    <2>1. path # <<>> => Tail(path) \in Seq(STRING)  OBVIOUS
    <2>2. QED  BY <1>2, <2>1 DEF Absolute, Rest
  <1>5. l \in Labels /\ <<>> \in Todos  BY DEF Labels, Todos
  <1>6. CallVars(p, l, c, ip[p], <<>>)
    <2>1. /\ pc' \in [Proc -> Labels] /\ todo' \in [Proc -> Todos] /\ pc'[p] = l
          /\ todo'[p] = <<>> /\ \A q \in Proc : q # p => pc'[q] = pc[q] /\ todo'[q] = todo[q]
      BY <1>1, <1>2, <1>5 DEF ProcTypes, Then
    <2>2. /\ cur' \in [Proc -> 0..NINODE] /\ cur'[p] = c
          /\ \A q \in Proc : q # p => cur'[q] = cur[q]
      BY <1>1, <1>2, <1>3 DEF ProcTypes
    <2>3. rest' \in [Proc -> Seq(STRING)] /\ \A q \in Proc : q # p => rest'[q] = rest[q]
      BY <1>1, <1>2, <1>4 DEF ProcTypes
    <2>4. QED  BY <1>1, <2>1, <2>2, <2>3 DEF ProcTypes, CallVars
  <1>7. putting'[p] = "no"  BY NoTasks
  <1>8. c # 0  BY <1>1, <1>3
  <1>9. Place(p)'  BY <1>6, <1>7, <1>8 DEF CallVars, Place
  <1>10. Made(p)'  BY <1>6 DEF CallVars, Made
  <1>11. Kept(p)  BY <1>1, KeptIs DEF ProcTypes
  <1>12. ASSUME NEW s \in Slot
         PROVE  itable'[s].ref + Is(cur[p], s) + Is(ip[p], s)
                  = itable[s].ref + Is(c, s) + Is(ip[p], s) + PutsOf(<<>>, s)
    <2>1. PutsOf(<<>>, s) = 0  BY <1>1, PutsOfLists
    <2>2. itable[s].ref \in Int /\ Is(0, s) = 0  BY NoTasks
    <2>3. \A x : Is(x, s) \in Int  BY DEF Is
    <2>4. QED  BY <1>3, <2>1, <2>2, <2>3
  <1>13. QED  BY <1>3, <1>6, <1>9, <1>10, <1>11, <1>12, ThenStep

\* A call begins with namex().
LEMMA RefSyscall == ASSUME RefInv, NEW p \in Proc, NEW c \in Call[p], Syscall(p, c) PROVE RefInv'
  <1>1. PICK l : /\ Namex(p, c.path, l)
                 /\ l = IF c.op \in {"open", "trunc", "chdir", "link"} THEN "namei" ELSE "parent"
    BY Zenon DEF Syscall
  <1>2. /\ pc[p] = "user" /\ todo[p] = <<>> /\ call' = [call EXCEPT ![p] = c]
        /\ UNCHANGED <<holder, ip, cwd, fd, putting>>
    BY DEF Syscall, At
  <1>3. ProcTypes /\ Place(p)  BY PlaceFacts
  <1>4. cur[p] = 0 /\ ip[p] = 0  BY <1>2, <1>3 DEF Place
  <1>5. c \in Calls  BY DEF Calls
  <1>6. /\ call' \in [Proc -> Calls] /\ call'[p] = c
        /\ \A q \in Proc : q # p => call'[q] = call[q]
    BY <1>2, <1>3, <1>5 DEF ProcTypes
  <1>7. c.path \in Seq(STRING) /\ c.op \in Ops
    BY FsAssumption DEF FsAssumption, Ops
  <1>8. /\ l \in {"namei", "parent"}
        /\ l = "namei" => ip[p] = 0 /\ call'[p].op \in Finds
        /\ l = "parent" => call'[p].op \in Makes \cup {"unlink"}
    BY <1>1, <1>4, <1>6, <1>7 DEF Finds, Makes, Ops
  <1>9. QED  BY <1>1, <1>2, <1>4, <1>6, <1>7, <1>8, RefNamex

\* link() looks for the parent of the new name.
LEMMA RefLinkParent == ASSUME RefInv, NEW p \in Proc, LinkParent(p) PROVE RefInv'
  <1>1. /\ pc[p] = "link" /\ todo[p] = <<>> /\ Namex(p, call[p].new, "parent")
        /\ UNCHANGED <<holder, call, ip, cwd, fd, putting>>
    BY DEF LinkParent, At
  <1>2. ProcTypes /\ Place(p) /\ Made(p)  BY PlaceFacts
  <1>3. cur[p] = 0 /\ ip[p] # 0 /\ call[p] \in Call[p] /\ call[p].op = "link"
    BY <1>1, <1>2 DEF Place, Made
  <1>4. call[p].new \in Seq(STRING)  BY <1>3, FsAssumption DEF FsAssumption
  <1>5. call' \in [Proc -> Calls] /\ call'[p] = call[p]
        /\ \A q \in Proc : q # p => call'[q] = call[q]
    BY <1>1, <1>2 DEF ProcTypes
  <1>6. QED  BY <1>1, <1>3, <1>4, <1>5, RefNamex

\* The rest of a path is a path.
LEMMA TailSeq ==
    ASSUME NEW S, NEW x, x \in Seq(S), x # <<>>
    PROVE  Tail(x) \in Seq(S)
  OBVIOUS

\* One element of a path
LEMMA RefWalk == ASSUME RefInv, NEW p \in Proc, Walk(p) PROVE RefInv'
  <1> DEFINE s == cur[p]
             n == Loaded(s)
             k == Dirlookup(disk, Ino(s), Elem(rest[p]))
             i == disk.content[Ino(s)][k].inum
             bad == n.type # "dir" \/ (k = 0 /\ ~(pc[p] = "parent" /\ Len(rest[p]) = 1))
             last == pc[p] = "parent" /\ Len(rest[p]) = 1
  <1>1. /\ pc[p] \in {"namei", "parent"} /\ todo[p] = <<>> /\ rest[p] # <<>>
        /\ UNCHANGED <<disk, holder, cwd, fd, putting>>
    BY DEF Walk, At
  <1>2. /\ bad => itable' = Load(itable, s, n) /\ Failed(p, <<Put(s)>>)
        /\ ~bad /\ last => itable' = Load(itable, s, n) /\ Found(p)
        /\ ~bad /\ ~last => /\ ~NoSlot(i)
                            /\ itable' = Iget(Load(itable, s, n), i)
                            /\ cur' = [cur EXCEPT ![p] = IgetSlot(i)]
                            /\ rest' = [rest EXCEPT ![p] = Rest(@)]
                            /\ Then(p, pc[p], <<Put(s)>>)
                            /\ UNCHANGED <<call, ip>>
    BY DEF Walk
  <1> HIDE DEF i, k, n, bad
  <1>3. /\ ProcTypes /\ Place(p) /\ Made(p) /\ IsTable(itable)
        /\ Slot \subseteq 0..NINODE /\ 0 \notin Slot
    BY PlaceFacts
  <1>4. s # 0 /\ (ip[p] # 0 => pc[p] = "parent")  BY <1>1, <1>3 DEF Place
  <1>5. s \in Slot /\ rest[p] \in Seq(STRING) /\ holder' \in [Slot -> Proc \cup {None}]
    BY <1>1, <1>3, <1>4, PlaceFacts DEF ProcTypes
  <1> DEFINE L == Load(itable, s, n)
  <1>6. /\ IsTable(L)
        /\ \A t \in Slot : L[t].ref = itable[t].ref /\ L[t].inum = itable[t].inum
    BY <1>3, <1>5, LoadIs
  <1> HIDE DEF L
  <1>7. CASE bad
    <2>1. itable' = L /\ Failed(p, <<Put(s)>>)  BY <1>2, <1>7 DEF L
    <2>2. ip[p] # 0 => pc[p] \in {"parent", "link2"}  BY <1>4
    <2>3. IsTable(itable') /\ \A t \in Slot : itable'[t].ref = itable[t].ref  BY <1>6, <2>1
    <2>4. QED  BY <1>1, <1>4, <1>5, <2>1, <2>2, <2>3, PutFailed
  <1>8. CASE ~bad /\ last
    <2>1. itable' = L /\ Found(p)  BY <1>2, <1>8 DEF L
    <2>2. IsTable(itable') /\ \A t \in Slot : itable'[t].ref = itable[t].ref  BY <1>6, <2>1
    <2>3. QED  BY <1>1, <1>5, <1>8, <2>1, <2>2, GoOnFound
  <1>9. CASE ~bad /\ ~last
    <2> DEFINE c == IgetSlot(i)
    <2>1. /\ ~NoSlot(i) /\ itable' = Iget(L, i) /\ cur' = [cur EXCEPT ![p] = c]
          /\ rest' = [rest EXCEPT ![p] = Tail(rest[p])] /\ Then(p, pc[p], <<Put(s)>>)
          /\ UNCHANGED <<call, ip>>
      BY <1>2, <1>9 DEF L, Rest
    <2>2. /\ IsTable(Iget(L, i)) /\ c \in Slot
          /\ \A t \in Slot : Iget(L, i)[t].ref = itable[t].ref + Is(c, t)
      BY <1>3, <1>6, <2>1, IgetIs
    <2> HIDE DEF c
    <2>3. Tail(rest[p]) \in Seq(STRING)
      <3>1. rest[p] \in Seq(STRING) /\ rest[p] # <<>>  BY <1>1, <1>5
      <3>2. QED  BY ONLY <3>1, TailSeq
    <2>4. <<Put(s)>> \in Todos  BY <1>5, PutsOfLists
    <2>5. CallVars(p, pc[p], c, ip[p], <<Put(s)>>)
      <3>1. /\ pc' \in [Proc -> Labels] /\ todo' \in [Proc -> Todos] /\ pc'[p] = pc[p]
            /\ todo'[p] = <<Put(s)>>
            /\ \A q \in Proc : q # p => pc'[q] = pc[q] /\ todo'[q] = todo[q]
        BY <1>3, <2>1, <2>4 DEF ProcTypes, Then
      <3>2. /\ cur' \in [Proc -> 0..NINODE] /\ cur'[p] = c
            /\ \A q \in Proc : q # p => cur'[q] = cur[q]
        BY <1>3, <2>1, <2>2 DEF ProcTypes
      <3>3. rest' \in [Proc -> Seq(STRING)] /\ \A q \in Proc : q # p => rest'[q] = rest[q]
        BY <1>3, <2>1, <2>3 DEF ProcTypes
      <3>4. QED  BY <1>3, <2>1, <3>1, <3>2, <3>3 DEF ProcTypes, CallVars
    <2>6. putting'[p] = "no" /\ call'[p] = call[p]  BY <1>1, <2>1, NoTasks
    <2>7. c # 0  BY <1>3, <2>2
    <2>8. Place(p)'  BY <1>1, <1>3, <2>5, <2>6, <2>7 DEF CallVars, Place
    <2>9. Made(p)'  BY <1>1, <1>3, <2>5, <2>6 DEF CallVars, Made
    <2>10. Kept(p)  BY <1>1, <1>5, KeptIs
    <2>11. ASSUME NEW t \in Slot
           PROVE  itable'[t].ref + Is(cur[p], t) + Is(ip[p], t)
                    = itable[t].ref + Is(c, t) + Is(ip[p], t) + PutsOf(<<Put(s)>>, t)
      <3>1. PutsOf(<<Put(s)>>, t) = Is(s, t)  BY <1>5, PutsOfLists
      <3>2. itable[t].ref \in Int  BY <1>1, NoTasks
      <3>3. \A x : Is(x, t) \in Int  BY DEF Is
      <3>4. QED  BY <2>1, <2>2, <3>1, <3>2, <3>3
    <2>12. IsTable(itable')  BY <2>1, <2>2
    <2>13. QED  BY <1>1, <2>5, <2>8, <2>9, <2>10, <2>11, <2>12, ThenStep
  <1>10. QED  BY <1>7, <1>8, <1>9

\* The end of a path
LEMMA RefWalkEnd == ASSUME RefInv, NEW p \in Proc, WalkEnd(p) PROVE RefInv'
  <1>1. /\ pc[p] \in {"namei", "parent"} /\ todo[p] = <<>>
        /\ pc[p] = "parent" => Failed(p, <<Put(cur[p])>>)
        /\ pc[p] # "parent" => Found(p)
        /\ UNCHANGED <<itable, holder, cwd, fd, putting>>
    BY DEF WalkEnd, At, fsVars
  <1>2. ProcTypes /\ Place(p) /\ IsTable(itable)  BY PlaceFacts
  <1>3. /\ holder' \in [Slot -> Proc \cup {None}] /\ IsTable(itable')
        /\ \A s \in Slot : itable'[s].ref = itable[s].ref
    BY <1>1, <1>2 DEF ProcTypes
  <1>4. cur[p] # 0 /\ (ip[p] # 0 => pc[p] \in {"parent", "link2"})  BY <1>1, <1>2 DEF Place
  <1>5. CASE pc[p] = "parent"  BY <1>1, <1>3, <1>4, <1>5, PutFailed
  <1>6. CASE pc[p] # "parent"  BY <1>1, <1>3, <1>6, GoOnFound
  <1>7. QED  BY <1>5, <1>6

\* chdir()
LEMMA RefChdir == ASSUME RefInv, NEW p \in Proc, Chdir(p) PROVE RefInv'
  <1> DEFINE s == cur[p]
             n == Loaded(s)
  <1>1. /\ pc[p] = "chdir" /\ todo[p] = <<>> /\ itable' = Load(itable, s, n)
        /\ UNCHANGED <<holder, fd, putting>>
        /\ n.type = "dir" => cwd' = [cwd EXCEPT ![p] = s] /\ Return(p, <<Put(cwd[p])>>)
        /\ n.type # "dir" => cwd' = cwd /\ Return(p, <<Put(s)>>)
    BY DEF Chdir, At
  <1> HIDE DEF n
  <1>2. /\ ProcTypes /\ Place(p) /\ cwd[p] \in Slot  BY PlaceFacts
  <1>3. s # 0 /\ ip[p] = 0  BY <1>1, <1>2 DEF Place
  <1>4. s \in Slot  BY <1>3, PlaceFacts
  <1>5. /\ holder' \in [Slot -> Proc \cup {None}] /\ IsTable(itable')
        /\ \A t \in Slot : itable'[t].ref = itable[t].ref
    BY <1>1, <1>2, <1>4, LoadKeeps DEF ProcTypes
  <1>6. CASE n.type # "dir"
    BY <1>1, <1>3, <1>5, <1>6, PutCur
  <1>7. CASE n.type = "dir"
    <2>1. Kept(p) /\ cwd'[p] = s /\ fd'[p] = fd[p] /\ putting'[p] = putting[p]
      BY <1>1, <1>2, <1>4, <1>5, <1>7 DEF Kept, ProcTypes
    <2>2. <<Put(cwd[p])>> \in Todos  BY <1>2, PutsOfLists
    <2>3. ASSUME NEW t \in Slot
          PROVE  itable'[t].ref + Is(cur[p], t) + Is(ip[p], t) + Is(cwd[p], t) + Is(fd[p], t)
                   = itable[t].ref + Is(cwd'[p], t) + Is(fd'[p], t) + PutsOf(<<Put(cwd[p])>>, t)
      <3>1. PutsOf(<<Put(cwd[p])>>, t) = Is(cwd[p], t)  BY <1>2, PutsOfLists
      <3>2. itable[t].ref \in Int /\ Is(0, t) = 0  BY <1>1, NoTasks
      <3>3. \A x : Is(x, t) \in Int  BY DEF Is
      <3>4. /\ Is(cur[p], t) \in Int /\ Is(cwd[p], t) \in Int /\ Is(fd[p], t) \in Int
            /\ Is(ip[p], t) = 0 /\ Is(cwd'[p], t) = Is(cur[p], t)
            /\ Is(fd'[p], t) = Is(fd[p], t) /\ itable'[t].ref = itable[t].ref
        BY <1>3, <1>5, <2>1, <3>2, <3>3
      <3>5. QED  BY ONLY <3>1, <3>2, <3>4
    <2>4. Return(p, <<Put(cwd[p])>>)  BY <1>1, <1>7
    <2>5. QED  BY <1>1, <1>5, <2>1, <2>2, <2>3, <2>4, ReturnStep
  <1>8. QED  BY <1>6, <1>7

\* A call that returns and leaves its reference to the open file.
LEMMA KeepFd ==
    ASSUME RefInv, NEW p \in Proc, todo[p] = <<>>, fd[p] = 0, Return(p, <<>>), Kept(p),
           cur[p] = 0 => fd'[p] = ip[p], cur[p] # 0 => fd'[p] = cur[p] /\ ip[p] = 0,
           cwd'[p] = cwd[p], putting'[p] = putting[p],
           IsTable(itable'), \A t \in Slot : itable'[t].ref = itable[t].ref
    PROVE  RefInv'
  <1> DEFINE s == fd'[p]
  <1>3. <<>> \in Todos  BY DEF Todos
  <1>4. ASSUME NEW t \in Slot
        PROVE  itable'[t].ref + Is(cur[p], t) + Is(ip[p], t) + Is(cwd[p], t) + Is(fd[p], t)
                 = itable[t].ref + Is(cwd'[p], t) + Is(fd'[p], t) + PutsOf(<<>>, t)
    <2>1. PutsOf(<<>>, t) = 0  BY PutsOfLists
    <2>2. itable[t].ref \in Int /\ Is(0, t) = 0  BY NoTasks
    <2>3. \A x : Is(x, t) \in Int  BY DEF Is
    <2>4. /\ Is(cwd[p], t) \in Int /\ Is(fd[p], t) = 0 /\ Is(s, t) \in Int
          /\ Is(cwd'[p], t) = Is(cwd[p], t) /\ Is(fd'[p], t) = Is(s, t)
          /\ itable'[t].ref = itable[t].ref
      BY <2>2, <2>3
    <2>5. \/ Is(cur[p], t) = Is(s, t) /\ Is(ip[p], t) = 0
          \/ Is(ip[p], t) = Is(s, t) /\ Is(cur[p], t) = 0
      BY <2>2
    <2>6. QED  BY ONLY <2>1, <2>2, <2>4, <2>5
  <1>5. QED  BY <1>3, <1>4, ReturnStep

\* The descriptor and the slot it is for.
LEMMA KeptFd ==
    ASSUME RefInv, NEW p \in Proc, NEW s \in Slot, fd' = [fd EXCEPT ![p] = s],
           UNCHANGED <<cwd, putting>>, holder' \in [Slot -> Proc \cup {None}]
    PROVE  Kept(p) /\ fd'[p] = s /\ cwd'[p] = cwd[p] /\ putting'[p] = putting[p]
  <1>1. ProcTypes /\ Slot \subseteq 0..NINODE  BY PlaceFacts
  <1>2. QED  BY <1>1 DEF Kept, ProcTypes

\* open() of an inode that exists
LEMMA RefOpen == ASSUME RefInv, NEW p \in Proc, NEW full \in BOOLEAN, Open(p, full) PROVE RefInv'
  <1> DEFINE s == cur[p]
             bad == (Loaded(s).type = "dir" /\ call[p].op = "trunc") \/ fd[p] # 0 \/ full
  <1>1. PICK n : itable' = Load(itable, s, n)  BY Zenon DEF Open
  <1>2. /\ pc[p] = "open" /\ todo[p] = <<>> /\ UNCHANGED <<holder, cwd, putting>>
        /\ bad => fd' = fd /\ Return(p, <<Put(s)>>)
        /\ ~bad => fd' = [fd EXCEPT ![p] = s] /\ Return(p, <<>>)
    BY DEF Open, At
  <1> HIDE DEF bad
  <1>3. ProcTypes /\ Place(p)  BY PlaceFacts
  <1>4. s # 0 /\ ip[p] = 0  BY <1>2, <1>3 DEF Place
  <1>5. s \in Slot  BY <1>4, PlaceFacts
  <1>6. /\ holder' \in [Slot -> Proc \cup {None}] /\ IsTable(itable')
        /\ \A t \in Slot : itable'[t].ref = itable[t].ref
    BY <1>1, <1>2, <1>3, <1>5, LoadKeeps DEF ProcTypes
  <1>7. CASE bad
    <2>1. Return(p, <<Put(cur[p])>>) /\ UNCHANGED <<cwd, fd, putting>>  BY <1>2, <1>7
    <2>2. QED  BY <1>2, <1>4, <1>6, <2>1, PutCur
  <1>8. CASE ~bad
    <2>1. fd[p] = 0 /\ fd' = [fd EXCEPT ![p] = s] /\ Return(p, <<>>)  BY <1>2, <1>8 DEF bad
    <2>2. todo[p] = <<>> /\ UNCHANGED <<cwd, putting>>  BY <1>2
    <2>3. Kept(p) /\ fd'[p] = s /\ cwd'[p] = cwd[p] /\ putting'[p] = putting[p]
      BY <1>5, <1>6, <2>1, <2>2, KeptFd
    <2>4. Return(p, <<>>) /\ fd[p] = 0 /\ fd'[p] = cur[p] /\ ip[p] = 0  BY <1>4, <2>1, <2>3
    <2>5. /\ RefInv /\ p \in Proc /\ IsTable(itable')
          /\ \A t \in Slot : itable'[t].ref = itable[t].ref
      BY <1>6
    <2>6. QED  BY ONLY <2>2, <2>3, <2>4, <2>5, KeepFd
  <1>9. QED  BY <1>7, <1>8

\* create() has returned.
LEMMA RefCreated ==
    ASSUME RefInv, NEW p \in Proc, NEW full \in BOOLEAN, Created(p, full) PROVE RefInv'
  <1> DEFINE s == ip[p]
             opens == call[p].op = "create" /\ fd[p] = 0 /\ ~full
  <1>1. /\ pc[p] = "created" /\ todo[p] = <<>> /\ UNCHANGED <<itable, cwd, putting>>
        /\ holder' = [holder EXCEPT ![s] = None]
        /\ opens => fd' = [fd EXCEPT ![p] = s] /\ Return(p, <<>>)
        /\ ~opens => fd' = fd /\ Return(p, <<Put(s)>>)
    BY DEF Created, At
  <1>2. Place(p) /\ IsTable(itable)  BY PlaceFacts
  <1>3. s # 0 /\ cur[p] = 0  BY <1>1, <1>2 DEF Place
  <1>4. s \in Slot  BY <1>3, PlaceFacts
  <1>5. /\ holder' \in [Slot -> Proc \cup {None}] /\ IsTable(itable')
        /\ \A t \in Slot : itable'[t].ref = itable[t].ref
    BY <1>1, <1>2, <1>4, HolderType
  <1>6. CASE ~opens
    <2>1. Return(p, <<Put(ip[p])>>) /\ UNCHANGED <<cwd, fd, putting>>  BY <1>1, <1>6
    <2>2. QED  BY <1>1, <1>3, <1>5, <2>1, PutIp
  <1>7. CASE opens
    <2>1. fd[p] = 0 /\ fd' = [fd EXCEPT ![p] = s] /\ Return(p, <<>>)  BY <1>1, <1>7
    <2>2. Kept(p) /\ fd'[p] = s /\ cwd'[p] = cwd[p] /\ putting'[p] = putting[p]
      BY <1>1, <1>4, <1>5, <2>1, KeptFd
    <2>3. QED  BY <1>1, <1>3, <1>5, <2>1, <2>2, KeepFd
  <1>8. QED  BY <1>6, <1>7

\* write()
LEMMA RefFileWrite == ASSUME RefInv, NEW p \in Proc, FileWrite(p) PROVE RefInv'
  <1>1. PICK n : itable' = Load(itable, fd[p], n)  BY Zenon DEF FileWrite
  <1>2. /\ todo[p] = <<>> /\ fd[p] # 0
        /\ UNCHANGED <<holder, pc, call, rest, cur, ip, cwd, fd, todo, putting>>
    BY DEF FileWrite, At, callVars
  <1>3. ProcTypes /\ Place(p) /\ Made(p) /\ fd[p] \in Slot  BY <1>2, PlaceFacts
  <1>4. /\ IsTable(itable') /\ \A t \in Slot : itable'[t].ref = itable[t].ref
    BY <1>1, <1>3, LoadKeeps
  <1>5. CallVars(p, pc[p], cur[p], ip[p], <<>>)  BY <1>2, <1>3 DEF ProcTypes, CallVars
  <1>6. Place(p)' /\ Made(p)'  BY <1>2, <1>3 DEF Place, Made
  <1>7. holder' \in [Slot -> Proc \cup {None}]  BY <1>2, <1>3 DEF ProcTypes
  <1>8. QED  BY <1>2, <1>4, <1>5, <1>6, <1>7, GoOn

\* close()
LEMMA RefFileClose == ASSUME RefInv, NEW p \in Proc, FileClose(p) PROVE RefInv'
  <1> DEFINE t == <<Put(fd[p])>>
  <1>1. /\ todo[p] = <<>> /\ fd[p] # 0 /\ todo' = [todo EXCEPT ![p] = t]
        /\ fd' = [fd EXCEPT ![p] = 0]
        /\ UNCHANGED <<itable, holder, pc, call, rest, cur, ip, cwd, putting>>
    BY DEF FileClose, At, callVars, fsVars, Forget
  <1>2. /\ ProcTypes /\ Place(p) /\ Made(p) /\ fd[p] \in Slot /\ IsTable(itable)
        /\ 0 \in 0..NINODE
    BY <1>1, PlaceFacts
  <1>3. t \in Todos /\ \A s \in Slot : PutsOf(t, s) = Is(fd[p], s)  BY <1>2, PutsOfLists
  <1> HIDE DEF t
  <1>4. CallVars(p, pc[p], cur[p], ip[p], t)  BY <1>1, <1>2, <1>3 DEF ProcTypes, CallVars
  <1>5. Kept(p) /\ fd'[p] = 0 /\ cwd'[p] = cwd[p]  BY <1>1, <1>2 DEF Kept, ProcTypes
  <1>6. putting'[p] = "no"  BY <1>1, NoTasks
  <1>7. Place(p)' /\ Made(p)'  BY <1>1, <1>2, <1>6 DEF Place, Made
  <1>8. ASSUME NEW s \in Slot
        PROVE  itable'[s].ref + Weight(p, s)
                  = itable[s].ref + Is(cur[p], s) + Is(ip[p], s) + Is(cwd'[p], s)
                      + Is(fd'[p], s) + PutsOf(t, s)
    <2>1. /\ Weight(p, s) = Is(cur[p], s) + Is(ip[p], s) + Is(cwd[p], s) + Is(fd[p], s)
          /\ Is(0, s) = 0 /\ itable[s].ref \in Int
      BY <1>1, NoTasks
    <2>2. \A x : Is(x, s) \in Int  BY DEF Is
    <2>3. /\ Is(cur[p], s) \in Int /\ Is(ip[p], s) \in Int /\ Is(cwd[p], s) \in Int
          /\ Is(fd[p], s) \in Int /\ Is(fd'[p], s) = 0 /\ PutsOf(t, s) = Is(fd[p], s)
          /\ Is(cwd'[p], s) = Is(cwd[p], s) /\ itable'[s].ref = itable[s].ref
      BY <1>1, <1>3, <1>5, <2>1, <2>2
    <2>4. QED  BY ONLY <2>1, <2>3
  <1>9. IsTable(itable')  BY <1>1, <1>2
  <1>10. QED  BY <1>4, <1>5, <1>7, <1>8, <1>9, CallStep

\* link() counts the link.
LEMMA RefLink1 == ASSUME RefInv, NEW p \in Proc, Link1(p) PROVE RefInv'
  <1> DEFINE s == cur[p]
             dir == Loaded(s).type = "dir"
  <1>1. PICK n : itable' = Load(itable, s, n)
    <2>1. \/ itable' = Load(itable, s, Loaded(s))
          \/ itable' = Load(itable, s, NlinkPlus(Own(disk, s), Ino(s), 1).inode[Ino(s)])
      BY Zenon DEF Link1
    <2>2. QED  BY <2>1
  <1>2. /\ pc[p] = "link1" /\ todo[p] = <<>> /\ UNCHANGED <<holder, cwd, fd, putting>>
        /\ dir => Return(p, <<Put(s)>>)
        /\ ~dir => /\ ip' = [ip EXCEPT ![p] = s] /\ cur' = [cur EXCEPT ![p] = 0]
                   /\ Then(p, "link", <<>>) /\ UNCHANGED <<call, rest>>
    BY DEF Link1, At, Forget
  <1> HIDE DEF dir
  <1>3. /\ ProcTypes /\ Place(p) /\ Made(p) /\ Slot \subseteq 0..NINODE /\ 0 \in 0..NINODE
    BY PlaceFacts
  <1>4. s # 0 /\ ip[p] = 0 /\ call[p].op = "link" /\ call[p] \in Call[p]
    BY <1>2, <1>3 DEF Place, Made
  <1>5. s \in Slot  BY <1>4, PlaceFacts
  <1>6. /\ holder' \in [Slot -> Proc \cup {None}] /\ IsTable(itable')
        /\ \A t \in Slot : itable'[t].ref = itable[t].ref
    BY <1>1, <1>2, <1>3, <1>5, LoadKeeps DEF ProcTypes
  <1>7. CASE dir  BY <1>2, <1>4, <1>6, <1>7, PutCur
  <1>8. CASE ~dir
    <2>1. CallVars(p, "link", 0, s, <<>>)
      <3>1. "link" \in Labels /\ <<>> \in Todos  BY DEF Labels, Todos
      <3>2. /\ pc' \in [Proc -> Labels] /\ todo' \in [Proc -> Todos] /\ pc'[p] = "link"
            /\ todo'[p] = <<>> /\ \A q \in Proc : q # p => pc'[q] = pc[q] /\ todo'[q] = todo[q]
        <4>1. pc' = [pc EXCEPT ![p] = "link"] /\ todo' = [todo EXCEPT ![p] = <<>>]
          BY <1>2, <1>8 DEF Then
        <4>2. /\ pc' \in [Proc -> Labels] /\ pc'[p] = "link"
              /\ \A q \in Proc : q # p => pc'[q] = pc[q]
          BY <1>3, <3>1, <4>1 DEF ProcTypes
        <4>3. /\ todo' \in [Proc -> Todos] /\ todo'[p] = <<>>
              /\ \A q \in Proc : q # p => todo'[q] = todo[q]
          BY <1>3, <3>1, <4>1 DEF ProcTypes
        <4>4. QED  BY <4>2, <4>3
      <3>3. /\ cur' \in [Proc -> 0..NINODE] /\ cur'[p] = 0
            /\ \A q \in Proc : q # p => cur'[q] = cur[q]
        BY <1>2, <1>3, <1>8 DEF ProcTypes
      <3>4. /\ ip' \in [Proc -> 0..NINODE] /\ ip'[p] = s
            /\ \A q \in Proc : q # p => ip'[q] = ip[q]
        BY <1>2, <1>3, <1>5, <1>8 DEF ProcTypes
      <3>5. QED  BY <1>2, <1>3, <1>8, <3>2, <3>3, <3>4 DEF ProcTypes, CallVars
    <2>2. putting'[p] = "no" /\ call'[p] = call[p]  BY <1>2, <1>8, NoTasks
    <2>3. Place(p)' /\ Made(p)'  BY <1>4, <2>1, <2>2 DEF CallVars, Place, Made
    <2>4. ASSUME NEW t \in Slot
          PROVE  itable'[t].ref + Is(cur[p], t) + Is(ip[p], t)
                   = itable[t].ref + Is(0, t) + Is(s, t) + PutsOf(<<>>, t)
      <3>1. PutsOf(<<>>, t) = 0  BY <1>5, PutsOfLists
      <3>2. itable[t].ref \in Int /\ Is(0, t) = 0  BY <1>2, NoTasks
      <3>3. \A x : Is(x, t) \in Int  BY DEF Is
      <3>4. QED  BY <1>4, <1>6, <3>1, <3>2, <3>3
    <2>5. Kept(p)  BY <1>2, <1>6, KeptIs
    <2>6. QED  BY <1>2, <1>6, <2>1, <2>3, <2>4, <2>5, ThenStep
  <1>9. QED  BY <1>7, <1>8

\* link() writes the name.
LEMMA RefLink2 == ASSUME RefInv, NEW p \in Proc, Link2(p) PROVE RefInv'
  <1>1. PICK n : itable' = Load(itable, cur[p], n)  BY Zenon DEF Link2
  <1>2. /\ pc[p] = "link2" /\ todo[p] = <<>> /\ UNCHANGED <<holder, cwd, fd, putting>>
        /\ Return(p, <<Put(cur[p]), Put(ip[p])>>) \/ Failed(p, <<Put(cur[p])>>)
    BY DEF Link2, At
  <1>3. ProcTypes /\ Place(p)  BY PlaceFacts
  <1>4. cur[p] # 0 /\ ip[p] # 0  BY <1>2, <1>3 DEF Place
  <1>5. cur[p] \in Slot  BY <1>4, PlaceFacts
  <1>6. /\ holder' \in [Slot -> Proc \cup {None}] /\ IsTable(itable')
        /\ \A t \in Slot : itable'[t].ref = itable[t].ref
    BY <1>1, <1>2, <1>3, <1>5, LoadKeeps DEF ProcTypes
  <1>7. CASE Failed(p, <<Put(cur[p])>>)  BY <1>2, <1>4, <1>6, <1>7, PutFailed
  <1>8. CASE Return(p, <<Put(cur[p]), Put(ip[p])>>)  BY <1>2, <1>4, <1>6, <1>8, PutBoth
  <1>9. QED  BY <1>2, <1>7, <1>8

\* link() takes the count back.
LEMMA RefLinkBad == ASSUME RefInv, NEW p \in Proc, LinkBad(p) PROVE RefInv'
  <1>1. PICK n : itable' = Load(itable, ip[p], n)  BY Zenon DEF LinkBad
  <1>2. /\ pc[p] = "linkbad" /\ todo[p] = <<>> /\ UNCHANGED <<holder, cwd, fd, putting>>
        /\ Return(p, <<Put(ip[p])>>)
    BY DEF LinkBad, At
  <1>3. ProcTypes /\ Place(p)  BY PlaceFacts
  <1>4. cur[p] = 0 /\ ip[p] # 0  BY <1>2, <1>3 DEF Place
  <1>5. ip[p] \in Slot  BY <1>4, PlaceFacts
  <1>6. /\ holder' \in [Slot -> Proc \cup {None}] /\ IsTable(itable')
        /\ \A t \in Slot : itable'[t].ref = itable[t].ref
    BY <1>1, <1>2, <1>3, <1>5, LoadKeeps DEF ProcTypes
  <1>7. QED  BY <1>2, <1>4, <1>6, PutIp

\* A call that takes a reference to the inode an entry of cur names, and keeps cur.
LEMMA GetIp ==
    ASSUME RefInv, NEW p \in Proc, todo[p] = <<>>, cur[p] # 0, ip[p] = 0, NEW n, NEW i, ~NoSlot(i),
           itable' = Iget(Load(itable, cur[p], n), i), ip' = [ip EXCEPT ![p] = IgetSlot(i)],
           NEW l \in Labels, Then(p, l, <<>>), UNCHANGED <<call, rest, cur, cwd, fd, putting>>,
           holder' \in [Slot -> Proc \cup {None}],
           l \in {"unlink2", "create2"}, Len(rest[p]) = 1, call[p] \in Call[p],
           l = "create2" => call[p].op \in Makes
    PROVE  RefInv'
  <1> DEFINE c == IgetSlot(i)
             L == Load(itable, cur[p], n)
  <1>1. /\ ProcTypes /\ Place(p) /\ Made(p) /\ IsTable(itable) /\ cur[p] \in Slot
        /\ Slot \subseteq 0..NINODE /\ 0 \notin Slot
    BY PlaceFacts
  <1>2. /\ IsTable(L)
        /\ \A t \in Slot : L[t].ref = itable[t].ref /\ L[t].inum = itable[t].inum
    <2>1. IsTable(itable) /\ cur[p] \in Slot  BY <1>1
    <2>2. QED  BY ONLY <2>1, LoadIs
  <1> HIDE DEF L
  <1>3. itable' = Iget(L, i)  BY DEF L
  <1>4. /\ IsTable(Iget(L, i)) /\ c \in Slot
        /\ \A t \in Slot : Iget(L, i)[t].ref = itable[t].ref + Is(c, t)
    BY <1>1, <1>2, IgetIs
  <1>5. ip' = [ip EXCEPT ![p] = c]  OBVIOUS
  <1> HIDE DEF c
  <1>6. <<>> \in Todos  BY DEF Todos
  <1>7. CallVars(p, l, cur[p], c, <<>>)
    <2>1. /\ pc' \in [Proc -> Labels] /\ todo' \in [Proc -> Todos] /\ pc'[p] = l
          /\ todo'[p] = <<>> /\ \A q \in Proc : q # p => pc'[q] = pc[q] /\ todo'[q] = todo[q]
      BY <1>1, <1>6 DEF ProcTypes, Then
    <2>2. /\ ip' \in [Proc -> 0..NINODE] /\ ip'[p] = c
          /\ \A q \in Proc : q # p => ip'[q] = ip[q]
      BY <1>1, <1>4, <1>5 DEF ProcTypes
    <2>3. QED  BY <1>1, <2>1, <2>2 DEF ProcTypes, CallVars
  <1>8. putting'[p] = "no" /\ c # 0  BY <1>1, <1>4, NoTasks
  <1>9. Place(p)'  BY <1>7, <1>8 DEF CallVars, Place
  <1>10. Made(p)'  BY <1>7 DEF CallVars, Made
  <1>11. Kept(p)  BY KeptIs
  <1>12. ASSUME NEW t \in Slot
         PROVE  itable'[t].ref + Is(cur[p], t) + Is(ip[p], t)
                  = itable[t].ref + Is(cur[p], t) + Is(c, t) + PutsOf(<<>>, t)
    <2>1. PutsOf(<<>>, t) = 0  BY <1>1, PutsOfLists
    <2>2. itable[t].ref \in Int /\ Is(0, t) = 0  BY NoTasks
    <2>3. \A x : Is(x, t) \in Int  BY DEF Is
    <2>4. QED  BY <1>3, <1>4, <2>1, <2>2, <2>3
  <1>13. IsTable(itable')  BY <1>3, <1>4
  <1>14. QED  BY <1>7, <1>9, <1>10, <1>11, <1>12, <1>13, ThenStep

\* unlink() finds the name.
LEMMA RefUnlink1 == ASSUME RefInv, NEW p \in Proc, Unlink1(p) PROVE RefInv'
  <1> DEFINE s == cur[p]
             k == Dirlookup(disk, Ino(s), Elem(rest[p]))
             i == disk.content[Ino(s)][k].inum
             bad == Elem(rest[p]) \in {".", ".."} \/ k = 0
  <1>1. /\ pc[p] = "unlink1" /\ todo[p] = <<>> /\ UNCHANGED <<disk, cwd, fd, putting>>
        /\ bad => itable' = Load(itable, s, Loaded(s)) /\ Return(p, <<Put(s)>>) /\ holder' = holder
        /\ ~bad => /\ ~NoSlot(i) /\ itable' = Iget(Load(itable, s, Loaded(s)), i)
                   /\ holder' = [holder EXCEPT ![s] = p] /\ ip' = [ip EXCEPT ![p] = IgetSlot(i)]
                   /\ Then(p, "unlink2", <<>>) /\ UNCHANGED <<call, rest, cur>>
    BY DEF Unlink1, At
  <1> HIDE DEF bad, i, k
  <1>2. ProcTypes /\ Place(p) /\ Made(p)  BY PlaceFacts
  <1>3. s # 0 /\ ip[p] = 0 /\ Len(rest[p]) = 1 /\ call[p] \in Call[p]
    BY <1>1, <1>2 DEF Place, Made
  <1>4. s \in Slot  BY <1>3, PlaceFacts
  <1>5. holder' \in [Slot -> Proc \cup {None}]
    BY <1>1, <1>4, HolderType
  <1>6. CASE bad
    <2>1. IsTable(itable') /\ \A t \in Slot : itable'[t].ref = itable[t].ref
      BY <1>1, <1>4, <1>6, LoadKeeps
    <2>2. QED  BY <1>1, <1>3, <1>5, <1>6, <2>1, PutCur
  <1>7. CASE ~bad
    <2>1. "unlink2" \in Labels  BY DEF Labels
    <2>2. QED  BY <1>1, <1>3, <1>5, <1>7, <2>1, GetIp
  <1>8. QED  BY <1>6, <1>7

\* unlink() erases the name.
LEMMA RefUnlink2 == ASSUME RefInv, NEW p \in Proc, Unlink2(p) PROVE RefInv'
  <1> DEFINE s == ip[p]
             d == cur[p]
             may == MayUnlink(s)
  <1>1. /\ pc[p] = "unlink2" /\ todo[p] = <<>> /\ UNCHANGED <<cwd, fd, putting>>
        /\ may => /\ holder' = [holder EXCEPT ![s] = p, ![d] = None]
                  /\ cur' = [cur EXCEPT ![p] = 0] /\ Then(p, "unlink3", <<Put(d)>>)
                  /\ UNCHANGED <<call, rest, ip>>
        /\ ~may => /\ itable' = Load(itable, s, Loaded(s)) /\ UNCHANGED holder
                   /\ Return(p, <<Put(s), Unlock(d), Put(d)>>)
    BY DEF Unlink2, At, Forget
  <1>2. may => \E n, m : itable' = Load(Load(itable, s, n), d, m)  BY Zenon DEF Unlink2
  <1> HIDE DEF may
  <1>3. /\ ProcTypes /\ Place(p) /\ Made(p) /\ 0 \in 0..NINODE /\ 0 \notin Slot  BY PlaceFacts
  <1>4. s # 0 /\ d # 0 /\ call[p] \in Call[p]  BY <1>1, <1>3 DEF Place, Made
  <1>5. s \in Slot /\ d \in Slot  BY <1>4, PlaceFacts
  <1>6. holder' \in [Slot -> Proc \cup {None}]  BY <1>1, <1>5, HolderType
  <1>7. CASE ~may
    <2>1. IsTable(itable') /\ \A t \in Slot : itable'[t].ref = itable[t].ref
      BY <1>1, <1>5, <1>7, LoadKeeps
    <2>2. QED  BY <1>1, <1>4, <1>6, <1>7, <2>1, PutBoth
  <1>8. CASE may
    <2>1. IsTable(itable') /\ \A t \in Slot : itable'[t].ref = itable[t].ref
      <3>1. PICK n, m : itable' = Load(Load(itable, s, n), d, m)  BY <1>2, <1>8
      <3>2. QED  BY <1>5, <3>1, LoadTwiceKeeps
    <2>2. <<Put(d)>> \in Todos  BY <1>5, PutsOfLists
    <2>3. CallVars(p, "unlink3", 0, s, <<Put(d)>>)
      <3>1. pc' = [pc EXCEPT ![p] = "unlink3"] /\ todo' = [todo EXCEPT ![p] = <<Put(d)>>]
        BY <1>1, <1>8 DEF Then
      <3>2. "unlink3" \in Labels  BY DEF Labels
      <3>3. /\ pc' \in [Proc -> Labels] /\ pc'[p] = "unlink3"
            /\ \A q \in Proc : q # p => pc'[q] = pc[q]
        BY <1>3, <3>1, <3>2 DEF ProcTypes
      <3>4. /\ todo' \in [Proc -> Todos] /\ todo'[p] = <<Put(d)>>
            /\ \A q \in Proc : q # p => todo'[q] = todo[q]
        BY <1>3, <2>2, <3>1 DEF ProcTypes
      <3>5. /\ cur' \in [Proc -> 0..NINODE] /\ cur'[p] = 0
            /\ \A q \in Proc : q # p => cur'[q] = cur[q]
        <4>1. cur' = [cur EXCEPT ![p] = 0] /\ cur \in [Proc -> 0..NINODE] /\ 0 \in 0..NINODE
          BY <1>1, <1>3, <1>8 DEF ProcTypes
        <4>2. QED  BY ONLY <4>1, p \in Proc
      <3>6. QED  BY <1>1, <1>3, <1>8, <3>3, <3>4, <3>5 DEF ProcTypes, CallVars
    <2>4. putting'[p] = "no" /\ call'[p] = call[p]  BY <1>1, <1>8, NoTasks
    <2>5. Place(p)' /\ Made(p)'  BY <1>4, <2>3, <2>4 DEF CallVars, Place, Made
    <2>6. ASSUME NEW t \in Slot
          PROVE  itable'[t].ref + Is(cur[p], t) + Is(ip[p], t)
                   = itable[t].ref + Is(0, t) + Is(s, t) + PutsOf(<<Put(d)>>, t)
      <3>1. PutsOf(<<Put(d)>>, t) = Is(d, t)  BY <1>5, PutsOfLists
      <3>2. itable[t].ref \in Int /\ Is(0, t) = 0  BY <1>1, NoTasks
      <3>3. \A x : Is(x, t) \in Int  BY DEF Is
      <3>4. QED  BY <2>1, <3>1, <3>2, <3>3
    <2>7. Kept(p)  BY <1>1, <1>6, KeptIs
    <2>8. QED  BY <1>1, <2>1, <2>3, <2>5, <2>6, <2>7, ThenStep
  <1>9. QED  BY <1>7, <1>8

\* unlink() counts the link off.
LEMMA RefUnlink3 == ASSUME RefInv, NEW p \in Proc, Unlink3(p) PROVE RefInv'
  <1>1. PICK n : itable' = Load(itable, ip[p], n)  BY Zenon DEF Unlink3
  <1>2. /\ pc[p] = "unlink3" /\ todo[p] = <<>> /\ UNCHANGED <<cwd, fd, putting>>
        /\ Return(p, <<Put(ip[p])>>) /\ holder' = [holder EXCEPT ![ip[p]] = None]
    BY DEF Unlink3, At
  <1>3. Place(p)  BY PlaceFacts
  <1>4. cur[p] = 0 /\ ip[p] # 0  BY <1>2, <1>3 DEF Place
  <1>5. ip[p] \in Slot  BY <1>4, PlaceFacts
  <1>6. /\ holder' \in [Slot -> Proc \cup {None}] /\ IsTable(itable')
        /\ \A t \in Slot : itable'[t].ref = itable[t].ref
    <2>1. holder' \in [Slot -> Proc \cup {None}]  BY <1>2, <1>5, HolderType
    <2>2. IsTable(itable') /\ \A t \in Slot : itable'[t].ref = itable[t].ref
      BY <1>1, <1>5, LoadKeeps
    <2>3. QED  BY <2>1, <2>2
  <1>7. QED  BY <1>2, <1>4, <1>6, PutIp

\* create() finds the name, or allocates an inode.
LEMMA RefCreate1 == ASSUME RefInv, NEW p \in Proc, Create1(p) PROVE RefInv'
  <1> DEFINE s == cur[p]
             k == Dirlookup(disk, Ino(s), Elem(rest[p]))
             i == IF k = 0 THEN Least(FreeInums(disk)) ELSE disk.content[Ino(s)][k].inum
             T == Load(itable, s, Loaded(s))
             full == k = 0 /\ FreeInums(disk) = {}
  <1>1. /\ pc[p] = "create1" /\ todo[p] = <<>> /\ UNCHANGED <<cwd, fd, putting>>
        /\ full => itable' = T /\ Return(p, <<Put(s)>>) /\ holder' = holder
        /\ ~full => /\ ~NoSlot(i) /\ itable' = Iget(T, i) /\ ip' = [ip EXCEPT ![p] = IgetSlot(i)]
                    /\ UNCHANGED <<call, rest>>
                    /\ k # 0 => /\ cur' = [cur EXCEPT ![p] = 0] /\ Then(p, "exists", <<Put(s)>>)
                                /\ holder' = holder
                    /\ k = 0 => /\ holder' = [holder EXCEPT ![s] = p]
                                /\ Then(p, "create2", <<>>) /\ UNCHANGED cur
    BY DEF Create1, At, Forget
  <1> HIDE DEF full, i, k
  <1>2. /\ ProcTypes /\ Place(p) /\ Made(p) /\ IsTable(itable)
        /\ Slot \subseteq 0..NINODE /\ 0 \notin Slot /\ 0 \in 0..NINODE
    BY PlaceFacts
  <1>3. s # 0 /\ ip[p] = 0 /\ Len(rest[p]) = 1 /\ call[p] \in Call[p] /\ call[p].op \in Makes
    BY <1>1, <1>2 DEF Place, Made
  <1>4. s \in Slot  BY <1>3, PlaceFacts
  <1>5. holder' \in [Slot -> Proc \cup {None}]
    BY <1>1, <1>4, HolderType
  <1>6. CASE full
    <2>1. IsTable(itable') /\ \A t \in Slot : itable'[t].ref = itable[t].ref
      BY <1>1, <1>4, <1>6, LoadKeeps
    <2>2. QED  BY <1>1, <1>3, <1>5, <1>6, <2>1, PutCur
  <1>7. CASE ~full /\ k = 0
    <2>1. "create2" \in Labels  BY DEF Labels
    <2>2. QED  BY <1>1, <1>3, <1>5, <1>7, <2>1, GetIp
  <1>8. CASE ~full /\ k # 0
    <2> DEFINE c == IgetSlot(i)
    <2>1. /\ IsTable(T)
          /\ \A t \in Slot : T[t].ref = itable[t].ref /\ T[t].inum = itable[t].inum
      <3>1. IsTable(itable) /\ s \in Slot  BY <1>2, <1>4
      <3>2. QED  BY ONLY <3>1, LoadIs
    <2> HIDE DEF T
    <2>2. itable' = Iget(T, i) /\ ~NoSlot(i) /\ ip' = [ip EXCEPT ![p] = c]  BY <1>1, <1>8
    <2>3. /\ IsTable(Iget(T, i)) /\ c \in Slot
          /\ \A t \in Slot : Iget(T, i)[t].ref = itable[t].ref + Is(c, t)
      BY <1>2, <2>1, <2>2, IgetIs
    <2> HIDE DEF c
    <2>4. <<Put(s)>> \in Todos  BY <1>4, PutsOfLists
    <2>5. CallVars(p, "exists", 0, c, <<Put(s)>>)
      <3>1. pc' = [pc EXCEPT ![p] = "exists"] /\ todo' = [todo EXCEPT ![p] = <<Put(s)>>]
        BY <1>1, <1>8 DEF Then
      <3>2. "exists" \in Labels  BY DEF Labels
      <3>3. /\ pc' \in [Proc -> Labels] /\ pc'[p] = "exists"
            /\ \A q \in Proc : q # p => pc'[q] = pc[q]
        BY <1>2, <3>1, <3>2 DEF ProcTypes
      <3>4. /\ todo' \in [Proc -> Todos] /\ todo'[p] = <<Put(s)>>
            /\ \A q \in Proc : q # p => todo'[q] = todo[q]
        BY <1>2, <2>4, <3>1 DEF ProcTypes
      <3>5. /\ cur' \in [Proc -> 0..NINODE] /\ cur'[p] = 0
            /\ \A q \in Proc : q # p => cur'[q] = cur[q]
        <4>1. cur' = [cur EXCEPT ![p] = 0] /\ cur \in [Proc -> 0..NINODE] /\ 0 \in 0..NINODE
          BY <1>1, <1>2, <1>8 DEF ProcTypes
        <4>2. QED  BY ONLY <4>1, p \in Proc
      <3>6. /\ ip' \in [Proc -> 0..NINODE] /\ ip'[p] = c
            /\ \A q \in Proc : q # p => ip'[q] = ip[q]
        BY <1>2, <2>2, <2>3 DEF ProcTypes
      <3>7. QED  BY <1>1, <1>2, <1>8, <3>3, <3>4, <3>5, <3>6 DEF ProcTypes, CallVars
    <2>6. putting'[p] = "no" /\ call'[p] = call[p] /\ c # 0
      BY <1>1, <1>2, <1>8, <2>3, NoTasks
    <2>7. Place(p)' /\ Made(p)'  BY <1>3, <2>5, <2>6 DEF CallVars, Place, Made
    <2>8. ASSUME NEW t \in Slot
          PROVE  itable'[t].ref + Is(cur[p], t) + Is(ip[p], t)
                   = itable[t].ref + Is(0, t) + Is(c, t) + PutsOf(<<Put(s)>>, t)
      <3>1. PutsOf(<<Put(s)>>, t) = Is(s, t)  BY <1>4, PutsOfLists
      <3>2. itable[t].ref \in Int /\ Is(0, t) = 0  BY <1>1, NoTasks
      <3>3. \A x : Is(x, t) \in Int  BY DEF Is
      <3>4. QED  BY <1>3, <2>2, <2>3, <3>1, <3>2, <3>3
    <2>9. Kept(p)  BY <1>1, <1>5, KeptIs
    <2>10. IsTable(itable')  BY <2>2, <2>3
    <2>11. QED  BY <1>1, <2>5, <2>7, <2>8, <2>9, <2>10, ThenStep
  <1>9. QED  BY <1>6, <1>7, <1>8

\* create() of a name that exists
LEMMA RefExists == ASSUME RefInv, NEW p \in Proc, Exists(p) PROVE RefInv'
  <1> DEFINE s == ip[p]
             ok == call[p].op = "create" /\ Loaded(s).type \in {"file", "dev"}
  <1>1. /\ pc[p] = "exists" /\ todo[p] = <<>> /\ UNCHANGED <<cwd, fd, putting>>
        /\ itable' = Load(itable, s, Loaded(s))
        /\ ok => /\ holder' = [holder EXCEPT ![s] = p] /\ Then(p, "created", <<>>)
                 /\ UNCHANGED <<call, rest, cur, ip>>
        /\ ~ok => Return(p, <<Put(s)>>) /\ holder' = holder
    BY DEF Exists, At
  <1> HIDE DEF ok
  <1>2. ProcTypes /\ Place(p) /\ Made(p)  BY PlaceFacts
  <1>3. s # 0 /\ cur[p] = 0  BY <1>1, <1>2 DEF Place
  <1>4. s \in Slot  BY <1>3, PlaceFacts
  <1>5. /\ holder' \in [Slot -> Proc \cup {None}] /\ IsTable(itable')
        /\ \A t \in Slot : itable'[t].ref = itable[t].ref
    <2>1. holder' \in [Slot -> Proc \cup {None}]  BY <1>1, <1>4, HolderType
    <2>2. IsTable(itable') /\ \A t \in Slot : itable'[t].ref = itable[t].ref
      BY <1>1, <1>4, LoadKeeps
    <2>3. QED  BY <2>1, <2>2
  <1>6. CASE ~ok  BY <1>1, <1>3, <1>5, <1>6, PutIp
  <1>7. CASE ok
    <2>1. "created" \in Labels /\ <<>> \in Todos  BY DEF Labels, Todos
    <2>2. CallVars(p, "created", cur[p], ip[p], <<>>) /\ call'[p] = call[p]
      BY <1>1, <1>7, <2>1, ThenIs
    <2>3. putting'[p] = "no"  BY <1>1, NoTasks
    <2>4. Place(p)' /\ Made(p)'  BY <1>1, <1>2, <1>3, <2>2, <2>3 DEF CallVars, Place, Made
    <2>5. QED  BY <1>1, <1>5, <2>2, <2>4, GoOn
  <1>8. QED  BY <1>6, <1>7

\* create() fills the inode in and writes the name.
LEMMA RefCreate2 == ASSUME RefInv, NEW p \in Proc, Create2(p) PROVE RefInv'
  <1> DEFINE s == ip[p]
             d == cur[p]
  <1>1. /\ pc[p] = "create2" /\ todo[p] = <<>> /\ UNCHANGED <<cwd, fd, putting>>
    BY DEF Create2, At
  <1>2. \/ /\ holder' = [holder EXCEPT ![s] = p, ![d] = None]
           /\ cur' = [cur EXCEPT ![p] = 0] /\ Then(p, "created", <<Put(d)>>)
           /\ UNCHANGED <<call, rest, ip>>
        \/ UNCHANGED holder /\ Return(p, <<Put(s), Unlock(d), Put(d)>>)
    BY Zenon DEF Create2, Forget
  <1>3. \E n, m : itable' = Load(Load(itable, s, n), d, m)  BY Zenon DEF Create2
  <1>4. /\ ProcTypes /\ Place(p) /\ Made(p) /\ 0 \in 0..NINODE /\ 0 \notin Slot  BY PlaceFacts
  <1>5. s # 0 /\ d # 0 /\ call[p] \in Call[p]  BY <1>1, <1>4 DEF Place, Made
  <1>6. s \in Slot /\ d \in Slot  BY <1>5, PlaceFacts
  <1>7. holder' \in [Slot -> Proc \cup {None}]  BY <1>2, <1>6, HolderType
  <1>8. IsTable(itable') /\ \A t \in Slot : itable'[t].ref = itable[t].ref
    <2>1. PICK n, m : itable' = Load(Load(itable, s, n), d, m)  BY <1>3
    <2>2. QED  BY <1>6, <2>1, LoadTwiceKeeps
  <1>9. CASE UNCHANGED holder /\ Return(p, <<Put(s), Unlock(d), Put(d)>>)
    BY <1>1, <1>5, <1>7, <1>8, <1>9, PutBoth
  <1>10. CASE /\ cur' = [cur EXCEPT ![p] = 0] /\ Then(p, "created", <<Put(d)>>)
              /\ UNCHANGED <<call, rest, ip>>
    <2>1. <<Put(d)>> \in Todos  BY <1>6, PutsOfLists
    <2>2. CallVars(p, "created", 0, s, <<Put(d)>>)
      <3>1. pc' = [pc EXCEPT ![p] = "created"] /\ todo' = [todo EXCEPT ![p] = <<Put(d)>>]
        BY <1>10 DEF Then
      <3>2. "created" \in Labels  BY DEF Labels
      <3>3. /\ pc' \in [Proc -> Labels] /\ pc'[p] = "created"
            /\ \A q \in Proc : q # p => pc'[q] = pc[q]
        BY <1>4, <3>1, <3>2 DEF ProcTypes
      <3>4. /\ todo' \in [Proc -> Todos] /\ todo'[p] = <<Put(d)>>
            /\ \A q \in Proc : q # p => todo'[q] = todo[q]
        BY <1>4, <2>1, <3>1 DEF ProcTypes
      <3>5. /\ cur' \in [Proc -> 0..NINODE] /\ cur'[p] = 0
            /\ \A q \in Proc : q # p => cur'[q] = cur[q]
        BY <1>4, <1>10 DEF ProcTypes
      <3>6. QED  BY <1>4, <1>10, <3>3, <3>4, <3>5 DEF ProcTypes, CallVars
    <2>3. putting'[p] = "no" /\ call'[p] = call[p]  BY <1>1, <1>10, NoTasks
    <2>4. Place(p)' /\ Made(p)'  BY <1>5, <2>2, <2>3 DEF CallVars, Place, Made
    <2>5. ASSUME NEW t \in Slot
          PROVE  itable'[t].ref + Is(cur[p], t) + Is(ip[p], t)
                   = itable[t].ref + Is(0, t) + Is(s, t) + PutsOf(<<Put(d)>>, t)
      <3>1. PutsOf(<<Put(d)>>, t) = Is(d, t)  BY <1>6, PutsOfLists
      <3>2. itable[t].ref \in Int /\ Is(0, t) = 0  BY <1>1, NoTasks
      <3>3. \A x : Is(x, t) \in Int  BY DEF Is
      <3>4. QED  BY <1>8, <3>1, <3>2, <3>3
    <2>6. Kept(p)  BY <1>1, <1>7, KeptIs
    <2>7. QED  BY <1>1, <1>8, <2>2, <2>4, <2>5, <2>6, ThenStep
  <1>11. QED  BY <1>2, <1>9, <1>10

\* Every process is in the root directory and has nothing else.
LEMMA RefInit == Init => RefInv
  <1> SUFFICES ASSUME Init PROVE RefInv  OBVIOUS
  <1>1. 1 \in Slot /\ 0 \in 0..NINODE /\ 0 \notin Slot /\ Slot \subseteq 0..NINODE
    BY FsAssumption, InodeAssumption DEF FsAssumption, InodeAssumption, Slot
  <1>2. "user" \in Labels /\ None \in Calls /\ <<>> \in Todos /\ <<>> \in Seq(STRING)
    BY DEF Labels, Calls, Todos
  <1>3. ProcTypes  BY <1>1, <1>2 DEF Init, ProcTypes
  <1>4. \A p \in Proc : Place(p) /\ Made(p)  BY DEF Init, Place, Made
  <1>5. Cardinality(Proc) \in Nat  BY FsAssumption, FS_CardinalityType DEF FsAssumption
  <1>6. PICK v : v = FALSE  OBVIOUS
  <1>7. FreeEntry = Ent(0, 0, v, FreeInode)  BY <1>6, Zenon DEF FreeEntry, Ent
  <1> DEFINE e1 == [FreeEntry EXCEPT !.inum = ROOTINO]
             e == [e1 EXCEPT !.ref = Cardinality(Proc)]
  <1>8. e1 = Ent(ROOTINO, 0, v, FreeInode)  BY <1>7, EntSet
  <1>9. itable = [s \in Slot |-> IF s # 1 THEN FreeEntry ELSE e]  BY DEF Init
  <1> HIDE DEF e1
  <1>10. e = Ent(ROOTINO, Cardinality(Proc), v, FreeInode)  BY <1>8, EntSet
  <1> HIDE DEF e
  <1>11. \A s \in Slot : itable[s] = IF s # 1 THEN FreeEntry ELSE e  BY <1>9
  <1>12. FreeEntry.ref = 0 /\ e.ref = Cardinality(Proc)  BY <1>7, <1>10, EntSet
  <1>13. IsEntry(FreeEntry) /\ IsEntry(e)
    <2>1. \A a, b, c, d : IsEntry(Ent(a, b, c, d))  BY EntSet DEF IsEntry
    <2>2. QED  BY <1>7, <1>10, <2>1
  <1>14. IsTable(itable)
    <2>1. itable = [s \in Slot |-> itable[s]]  BY <1>9
    <2>2. \A s \in Slot : IsEntry(itable[s]) /\ itable[s].ref \in Nat
      BY <1>5, <1>11, <1>12, <1>13
    <2>3. QED  BY <2>1, <2>2 DEF IsTable
  <1>15. ASSUME NEW s \in Slot
         PROVE  /\ Holds(cur, s) = 0 /\ Holds(ip, s) = 0 /\ Holds(fd, s) = 0
                /\ Holds(PutAt(1), s) = 0 /\ Holds(PutAt(2), s) = 0 /\ Holds(PutAt(3), s) = 0
                /\ Holds(cwd, s) = IF s = 1 THEN Cardinality(Proc) ELSE 0
    <2>1. ASSUME NEW f, \A p \in Proc : f[p] = 0 PROVE Holds(f, s) = 0
      <3>1. {p \in Proc : f[p] = s} = {}  BY <1>1, <2>1
      <3>2. QED  BY <3>1, FS_EmptySet DEF Holds
    <2>2. \A p \in Proc : cur[p] = 0 /\ ip[p] = 0 /\ fd[p] = 0 /\ cwd[p] = 1  BY DEF Init
    <2>3. \A k : \A p \in Proc : PutAt(k)[p] = 0  BY DEF Init, PutAt
    <2>4. /\ Holds(cur, s) = 0 /\ Holds(ip, s) = 0 /\ Holds(fd, s) = 0
          /\ Holds(PutAt(1), s) = 0 /\ Holds(PutAt(2), s) = 0 /\ Holds(PutAt(3), s) = 0
      BY <2>1, <2>2, <2>3
    <2>5. Holds(cwd, s) = IF s = 1 THEN Cardinality(Proc) ELSE 0
      <3>1. {p \in Proc : cwd[p] = s} = IF s = 1 THEN Proc ELSE {}  BY <2>2
      <3>2. QED  BY <3>1, FS_EmptySet DEF Holds
    <2>6. QED  BY <2>4, <2>5
  <1>16. RefsExact  BY <1>5, <1>11, <1>12, <1>15 DEF RefsExact
  <1>17. QED  BY <1>3, <1>4, <1>14, <1>16 DEF RefInv

\* A step that changes nothing.
LEMMA RefStutter == ASSUME RefInv, UNCHANGED vars PROVE RefInv'
  <1>1. /\ holder' = holder /\ pc' = pc /\ call' = call /\ rest' = rest /\ cur' = cur /\ ip' = ip
        /\ cwd' = cwd /\ fd' = fd /\ todo' = todo /\ putting' = putting /\ itable' = itable
    BY DEF vars, fsVars, callVars
  <1>2. ProcTypes'  BY <1>1 DEF RefInv, ProcTypes
  <1>3. \A p \in Proc : Place(p)' /\ Made(p)'  BY <1>1 DEF RefInv, Place, Made
  <1>4. RefsExact'
    <2>1. \A k : PutAt(k)' = PutAt(k)  BY <1>1 DEF PutAt
    <2>2. QED  BY <1>1, <2>1 DEF RefInv, RefsExact, Holds
  <1>5. QED  BY <1>1, <1>2, <1>3, <1>4 DEF RefInv

\* Every step keeps the first part of the invariant.
LEMMA RefNext == RefInv /\ [Next]_vars => RefInv'
  <1> SUFFICES ASSUME RefInv, [Next]_vars PROVE RefInv'  OBVIOUS
  <1>1. CASE UNCHANGED vars  BY <1>1, RefStutter
  <1>2. ASSUME NEW p \in Proc, Iput(p) PROVE RefInv'
    BY <1>2, RefIunlock, RefIputDrop, RefIputLock, RefIputFree DEF Iput
  <1>3. ASSUME NEW p \in Proc, Walk(p) \/ WalkEnd(p) \/ Chdir(p) PROVE RefInv'
    BY <1>3, RefWalk, RefWalkEnd, RefChdir
  <1>4. ASSUME NEW p \in Proc, NEW c \in Call[p], Syscall(p, c) PROVE RefInv'
    BY <1>4, RefSyscall
  <1>5. ASSUME NEW p \in Proc, NEW full \in BOOLEAN, Open(p, full) \/ Created(p, full)
        PROVE  RefInv'
    BY <1>5, RefOpen, RefCreated
  <1>6. ASSUME NEW p \in Proc, FileWrite(p) \/ FileClose(p) PROVE RefInv'
    BY <1>6, RefFileWrite, RefFileClose
  <1>7. ASSUME NEW p \in Proc, Link1(p) \/ LinkParent(p) \/ Link2(p) \/ LinkBad(p) PROVE RefInv'
    BY <1>7, RefLink1, RefLinkParent, RefLink2, RefLinkBad
  <1>8. ASSUME NEW p \in Proc, Unlink1(p) \/ Unlink2(p) \/ Unlink3(p) PROVE RefInv'
    BY <1>8, RefUnlink1, RefUnlink2, RefUnlink3
  <1>9. ASSUME NEW p \in Proc, Create1(p) \/ Exists(p) \/ Create2(p) PROVE RefInv'
    BY <1>9, RefCreate1, RefExists, RefCreate2
  <1>10. QED  BY <1>1, <1>2, <1>3, <1>4, <1>5, <1>6, <1>7, <1>8, <1>9 DEF Next

\* ip->ref is exact: no reference leaks and no slot is recycled under a pointer,
\* for any number of processes, slots, inodes and blocks, whatever paths they use.
THEOREM RefsAreExact == Spec => []RefsExact
  <1>1. RefInv => RefsExact  BY DEF RefInv
  <1>2. QED  BY <1>1, RefInit, RefNext, PTL DEF Spec

-----------------------------------------------------------------------------
(* The invariant, second part: the disk, the copies in itable, the locks.   *)

\* A dinode and the disk, field by field.
Nod(t, n, a)    == [type |-> t, nlink |-> n, addrs |-> a]
Dsk(n, b, u, c) == [inode |-> n, ind |-> b, used |-> u, content |-> c]

IsNode(n) == /\ n = Nod(n.type, n.nlink, n.addrs)
             /\ n.type \in {"none", "dir", "file", "dev"} /\ n.nlink \in Int
             /\ n.addrs \in [0..NDIRECT -> 0..nblocks]

\* (The names of the code are strings, too, which the provers do not know.)
EntryNames == STRING \cup {"", ".", ".."}
Entry == [name : EntryNames, inum : 0..(ninodes - 1)]

\* What the blocks of an inode hold depends on its type.
IsContent(type, c) == /\ type = "none" => c = <<>>
                      /\ type = "dir" => c \in Seq(Entry)
                      /\ type \in {"file", "dev"} => c \in Seq({"data"})

IsDisk(D) ==
    /\ D = Dsk(D.inode, D.ind, D.used, D.content)
    /\ D.inode = [i \in Inum |-> D.inode[i]] /\ \A i \in Inum : IsNode(D.inode[i])
    /\ D.content = [i \in Inum |-> D.content[i]]
    /\ \A i \in Inum : IsContent(D.inode[i].type, D.content[i])
    /\ D.ind \in [Block -> [0..(NINDIRECT - 1) -> 0..nblocks]]
    /\ D.used \subseteq Block
    /\ \A b \in Block \ D.used : D.ind[b] = NoBlocks

\* BlocksAccounted, for any disk.
Alloc(D) == {i \in Inum : D.inode[i].type # "none"}
Accounted(D) ==
    /\ D.used = UNION {Blocks(D, i) : i \in Alloc(D)}
    /\ \A i, j \in Alloc(D) : i # j => Blocks(D, i) \cap Blocks(D, j) = {}

DiskOK(D) == IsDisk(D) /\ Accounted(D)

\* An inode has one entry in itable, and a valid copy there is the dinode.
Coherent(T, D) ==
    /\ \A s \in Slot : T[s].ref > 0 =>
           /\ T[s].inum \in Inum
           /\ T[s].valid => /\ T[s].ino = D.inode[T[s].inum]
                            /\ D.inode[T[s].inum].type # "none"
    /\ \A s, t \in Slot : T[s].ref > 0 /\ T[t].ref > 0 /\ T[s].inum = T[t].inum => s = t

\* The locks a call has, and the one that iput() has when it frees an inode.
Keeps(p, s) == \/ pc[p] \in {"unlink2", "create2"} /\ s = cur[p]
               \/ pc[p] \in {"unlink3", "created"} /\ s = ip[p]
               \/ \E k \in DOMAIN todo[p] : todo[p][k] = Unlock(s)
Frees(p, s) == putting[p] = "free" /\ s = Todo(p)

Locks(p) ==
    /\ \A s \in Slot : holder[s] = p <=> Keeps(p, s) \/ Frees(p, s)
    /\ \A s \in Slot : ~(Keeps(p, s) /\ Frees(p, s))
    /\ \A k \in DOMAIN todo[p] : todo[p][k].do = "unlock" =>
           pc[p] = "user" /\ k + 1 \in DOMAIN todo[p] /\ todo[p][k + 1] = Put(todo[p][k].slot)
    /\ pc[p] \in {"unlink2", "create2"} => todo[p] = <<>>

\* What a call knows of the inodes it has locked, and create() of the one it made.
Stage(p) ==
    /\ pc[p] \in {"unlink2", "create2"}
          => itable[cur[p]].valid /\ disk.inode[Ino(cur[p])].type = "dir"
    /\ pc[p] = "unlink2" => Dirlookup(disk, Ino(cur[p]), Elem(rest[p])) # 0
    /\ pc[p] = "create2" => /\ disk.inode[Ino(ip[p])].type = Type(p)
                            /\ \A q \in Proc : ~Frees(q, ip[p])
    /\ pc[p] = "unlink3" => itable[ip[p]].valid
    /\ putting[p] = "free" => itable[Todo(p)].valid

DiskInv ==
    /\ RefInv
    /\ DiskOK(disk) /\ Coherent(itable, disk)
    /\ \A p \in Proc : Locks(p) /\ Stage(p)

-----------------------------------------------------------------------------
(* The blocks of an inode.                                                  *)

\* Assignments to the fields of a dinode and of the disk.
LEMMA NodFields ==
    ASSUME NEW t, NEW n, NEW a, NEW x
    PROVE  /\ [Nod(t, n, a) EXCEPT !.type = x] = Nod(x, n, a)
           /\ [Nod(t, n, a) EXCEPT !.nlink = x] = Nod(t, x, a)
           /\ [Nod(t, n, a) EXCEPT !.addrs = x] = Nod(t, n, x)
           /\ Nod(t, n, a).type = t /\ Nod(t, n, a).nlink = n /\ Nod(t, n, a).addrs = a
  BY DEF Nod

\* The same of the disk.
LEMMA DskFields ==
    ASSUME NEW n, NEW b, NEW u, NEW c, NEW x
    PROVE  /\ [Dsk(n, b, u, c) EXCEPT !.inode = x] = Dsk(x, b, u, c)
           /\ [Dsk(n, b, u, c) EXCEPT !.ind = x] = Dsk(n, x, u, c)
           /\ [Dsk(n, b, u, c) EXCEPT !.used = x] = Dsk(n, b, x, c)
           /\ [Dsk(n, b, u, c) EXCEPT !.content = x] = Dsk(n, b, u, x)
           /\ Dsk(n, b, u, c).inode = n /\ Dsk(n, b, u, c).ind = b
           /\ Dsk(n, b, u, c).used = u /\ Dsk(n, b, u, c).content = c
  BY DEF Dsk

NodeSet(E, D, i, n)    == E = [D EXCEPT !.inode[i] = n]
ContentSet(E, D, i, c) == E = [D EXCEPT !.content[i] = c]

\* A disk with another dinode.
LEMMA SetNode ==
    ASSUME NEW D, IsDisk(D), NEW i, i \in Inum, NEW n, NEW E, NodeSet(E, D, i, n)
    PROVE  /\ E.ind = D.ind /\ E.used = D.used /\ E.content = D.content
           /\ E.inode[i] = n /\ \A j \in Inum : j # i => E.inode[j] = D.inode[j]
           /\ IsNode(n) /\ IsContent(n.type, D.content[i]) => IsDisk(E)
  <1> DEFINE N == [D.inode EXCEPT ![i] = n]
  <1>1. D = Dsk(D.inode, D.ind, D.used, D.content)  BY DEF IsDisk
  <1>2. D.inode = [j \in Inum |-> D.inode[j]]  BY DEF IsDisk
  <1>3. N = [j \in Inum |-> IF j = i THEN n ELSE D.inode[j]]  BY <1>2
  <1>4. E = [D EXCEPT !.inode = N]  BY DEF NodeSet
  <1> HIDE DEF N
  <1>5. E = Dsk(N, D.ind, D.used, D.content)  BY <1>1, <1>4, DskFields
  <1>6. /\ E.inode = N /\ E.ind = D.ind /\ E.used = D.used /\ E.content = D.content
    BY <1>5, DskFields
  <1>7. E.inode[i] = n /\ \A j \in Inum : j # i => E.inode[j] = D.inode[j]  BY <1>3, <1>6
  <1>8. ASSUME IsNode(n), IsContent(n.type, D.content[i]) PROVE IsDisk(E)
    <2>1. E = Dsk(E.inode, E.ind, E.used, E.content)  BY <1>5, <1>6
    <2>2. E.inode = [j \in Inum |-> E.inode[j]]  BY <1>3, <1>6
    <2>3. \A j \in Inum : IsNode(E.inode[j])  BY <1>7, <1>8 DEF IsDisk
    <2>4. \A j \in Inum : IsContent(E.inode[j].type, E.content[j])
      BY <1>6, <1>7, <1>8 DEF IsDisk
    <2>5. E.content = [j \in Inum |-> E.content[j]]  BY <1>6 DEF IsDisk
    <2>6. /\ E.ind \in [Block -> [0..(NINDIRECT - 1) -> 0..nblocks]] /\ E.used \subseteq Block
          /\ \A b \in Block \ E.used : E.ind[b] = NoBlocks
      BY <1>6 DEF IsDisk
    <2>7. QED  BY <2>1, <2>2, <2>3, <2>4, <2>5, <2>6 DEF IsDisk
  <1>9. QED  BY <1>6, <1>7, <1>8

\* A disk with another content of an inode.
LEMMA SetContent ==
    ASSUME NEW D, IsDisk(D), NEW i, i \in Inum, NEW c, NEW E, ContentSet(E, D, i, c)
    PROVE  /\ E.ind = D.ind /\ E.used = D.used /\ E.inode = D.inode
           /\ E.content[i] = c /\ \A j \in Inum : j # i => E.content[j] = D.content[j]
           /\ IsContent(D.inode[i].type, c) => IsDisk(E)
  <1> DEFINE C == [D.content EXCEPT ![i] = c]
  <1>1. D = Dsk(D.inode, D.ind, D.used, D.content)  BY DEF IsDisk
  <1>2. D.content = [j \in Inum |-> D.content[j]]  BY DEF IsDisk
  <1>3. C = [j \in Inum |-> IF j = i THEN c ELSE D.content[j]]  BY <1>2
  <1>4. E = [D EXCEPT !.content = C]  BY DEF ContentSet
  <1> HIDE DEF C
  <1>5. E = Dsk(D.inode, D.ind, D.used, C)  BY <1>1, <1>4, DskFields
  <1>6. /\ E.inode = D.inode /\ E.ind = D.ind /\ E.used = D.used /\ E.content = C
    BY <1>5, DskFields
  <1>7. E.content[i] = c /\ \A j \in Inum : j # i => E.content[j] = D.content[j]  BY <1>3, <1>6
  <1>8. ASSUME IsContent(D.inode[i].type, c) PROVE IsDisk(E)
    <2>1. E = Dsk(E.inode, E.ind, E.used, E.content)  BY <1>5, <1>6
    <2>2. E.content = [j \in Inum |-> E.content[j]]  BY <1>3, <1>6
    <2>3. \A j \in Inum : IsContent(E.inode[j].type, E.content[j])
      BY <1>6, <1>7, <1>8 DEF IsDisk
    <2>4. E.inode = [j \in Inum |-> E.inode[j]] /\ \A j \in Inum : IsNode(E.inode[j])
      BY <1>6 DEF IsDisk
    <2>5. /\ E.ind \in [Block -> [0..(NINDIRECT - 1) -> 0..nblocks]] /\ E.used \subseteq Block
          /\ \A b \in Block \ E.used : E.ind[b] = NoBlocks
      BY <1>6 DEF IsDisk
    <2>6. QED  BY <2>1, <2>2, <2>3, <2>4, <2>5 DEF IsDisk
  <1>9. QED  BY <1>6, <1>7, <1>8

\* A block hangs from an inode: a direct block, the indirect block, or one of its.
Hangs(D, i, b) ==
    \/ \E n \in 0..(NDIRECT - 1) : D.inode[i].addrs[n] = b
    \/ /\ D.inode[i].addrs[NDIRECT] # 0
       /\ \/ D.inode[i].addrs[NDIRECT] = b
          \/ \E n \in 0..(NINDIRECT - 1) : D.ind[D.inode[i].addrs[NDIRECT]][n] = b

\* Blocks() is the set of the blocks that hang from the inode.
LEMMA BlocksIs ==
    ASSUME NEW D, IsDisk(D), NEW i, i \in Inum
    PROVE  /\ \A b : b \in Blocks(D, i) <=> b # 0 /\ Hangs(D, i, b)
           /\ Blocks(D, i) \subseteq Block
  <1> DEFINE a == D.inode[i].addrs
  <1>1. /\ a \in [0..NDIRECT -> 0..nblocks] /\ NDIRECT \in 0..NDIRECT
        /\ 0..(NDIRECT - 1) \subseteq 0..NDIRECT /\ nblocks \in Nat
    BY InodeAssumption DEF InodeAssumption, IsDisk, IsNode
  <1>2. D.ind \in [Block -> [0..(NINDIRECT - 1) -> 0..nblocks]]  BY DEF IsDisk
  <1>3. a[NDIRECT] \in 0..nblocks /\ \A n \in 0..(NDIRECT - 1) : a[n] \in 0..nblocks  BY <1>1
  <1>4. \A x \in 0..nblocks : x # 0 => x \in Block  BY <1>1 DEF Block
  <1>5. a[NDIRECT] # 0 => /\ DOMAIN D.ind[a[NDIRECT]] = 0..(NINDIRECT - 1)
                          /\ \A n \in 0..(NINDIRECT - 1) : D.ind[a[NDIRECT]][n] \in 0..nblocks
    BY <1>2, <1>3, <1>4
  <1>6. \A b : b \in Blocks(D, i) <=> b # 0 /\ Hangs(D, i, b)
    BY <1>5 DEF Blocks, Hangs
  <1>7. ASSUME NEW b, b # 0, Hangs(D, i, b) PROVE b \in Block
    BY <1>3, <1>4, <1>5, <1>7 DEF Hangs
  <1>8. QED  BY <1>6, <1>7

\* The blocks depend on the addresses of the inode, and on its indirect block.
LEMMA BlocksSame ==
    ASSUME NEW D, NEW E, IsDisk(D), IsDisk(E), NEW i, i \in Inum,
           \A n \in 0..NDIRECT : E.inode[i].addrs[n] = D.inode[i].addrs[n],
           D.inode[i].addrs[NDIRECT] # 0
             => \A n \in 0..(NINDIRECT - 1) :
                  E.ind[D.inode[i].addrs[NDIRECT]][n] = D.ind[D.inode[i].addrs[NDIRECT]][n]
    PROVE  Blocks(E, i) = Blocks(D, i)
  <1>1. NDIRECT \in 0..NDIRECT /\ 0..(NDIRECT - 1) \subseteq 0..NDIRECT
    BY InodeAssumption DEF InodeAssumption
  <1>2. \A b : Hangs(E, i, b) <=> Hangs(D, i, b)  BY <1>1 DEF Hangs
  <1>3. QED  BY <1>2, BlocksIs

\* The bitmap and the inodes agree, block by block.
LEMMA AccountedIs ==
    ASSUME NEW D, Accounted(D)
    PROVE  /\ \A b : b \in D.used <=> \E i \in Alloc(D) : b \in Blocks(D, i)
           /\ \A i, j \in Alloc(D) : \A b : b \in Blocks(D, i) /\ b \in Blocks(D, j) => i = j
  BY DEF Accounted

\* And the other way round.
LEMMA AccountedFrom ==
    ASSUME NEW D,
           \A b : b \in D.used <=> \E i \in Alloc(D) : b \in Blocks(D, i),
           \A i, j \in Alloc(D) : \A b : b \in Blocks(D, i) /\ b \in Blocks(D, j) => i = j
    PROVE  Accounted(D)
  <1>1. D.used = UNION {Blocks(D, i) : i \in Alloc(D)}  OBVIOUS
  <1>2. ASSUME NEW i \in Alloc(D), NEW j \in Alloc(D), i # j
        PROVE  Blocks(D, i) \cap Blocks(D, j) = {}
    BY <1>2
  <1>3. QED  BY <1>1, <1>2 DEF Accounted

\* Nothing moves.
LEMMA AccountSame ==
    ASSUME NEW D, NEW E, Accounted(D), Alloc(E) = Alloc(D), E.used = D.used,
           \A j \in Alloc(D) : Blocks(E, j) = Blocks(D, j)
    PROVE  Accounted(E)
  <1>1. /\ \A b : b \in D.used <=> \E i \in Alloc(D) : b \in Blocks(D, i)
        /\ \A i, j \in Alloc(D) : \A b : b \in Blocks(D, i) /\ b \in Blocks(D, j) => i = j
    BY AccountedIs
  <1>2. QED  BY <1>1, AccountedFrom

\* An inode gets a block that was free.
LEMMA AccountAdd ==
    ASSUME NEW D, NEW E, Accounted(D), Alloc(E) = Alloc(D), NEW i, i \in Alloc(D),
           NEW b, b \notin D.used, E.used = D.used \cup {b},
           Blocks(E, i) = Blocks(D, i) \cup {b},
           \A j \in Alloc(D) : j # i => Blocks(E, j) = Blocks(D, j)
    PROVE  Accounted(E)
  <1>1. /\ \A x : x \in D.used <=> \E j \in Alloc(D) : x \in Blocks(D, j)
        /\ \A j, k \in Alloc(D) : \A x : x \in Blocks(D, j) /\ x \in Blocks(D, k) => j = k
    BY AccountedIs
  <1>2. ASSUME NEW x PROVE x \in E.used <=> \E j \in Alloc(E) : x \in Blocks(E, j)
    <2>1. CASE x = b  BY <2>1
    <2>2. CASE x # b
      <3>1. x \in E.used <=> x \in D.used  BY <2>2
      <3>2. \A j \in Alloc(D) : x \in Blocks(E, j) <=> x \in Blocks(D, j)  BY <2>2
      <3>3. QED  BY <1>1, <3>1, <3>2
    <2>3. QED  BY <2>1, <2>2
  <1>3. ASSUME NEW j \in Alloc(E), NEW k \in Alloc(E), NEW x, x \in Blocks(E, j), x \in Blocks(E, k)
        PROVE  j = k
    <2>1. CASE x = b
      <3>1. \A m \in Alloc(D) : x \notin Blocks(D, m)  BY <1>1, <2>1
      <3>2. j = i /\ k = i  BY <1>3, <3>1
      <3>3. QED  BY <3>2
    <2>2. CASE x # b
      <3>1. x \in Blocks(D, j) /\ x \in Blocks(D, k)  BY <1>3, <2>2
      <3>2. QED  BY <1>1, <3>1
    <2>3. QED  BY <2>1, <2>2
  <1>4. QED  BY <1>2, <1>3, AccountedFrom

\* An inode gives all its blocks back, and may be freed itself.
LEMMA AccountCut ==
    ASSUME NEW D, NEW E, Accounted(D), NEW i, i \in Alloc(D), Alloc(E) \subseteq Alloc(D),
           Alloc(D) \ {i} \subseteq Alloc(E),
           E.used = D.used \ Blocks(D, i), Blocks(E, i) = {},
           \A j \in Alloc(D) : j # i => Blocks(E, j) = Blocks(D, j)
    PROVE  Accounted(E)
  <1>1. /\ \A x : x \in D.used <=> \E j \in Alloc(D) : x \in Blocks(D, j)
        /\ \A j, k \in Alloc(D) : \A x : x \in Blocks(D, j) /\ x \in Blocks(D, k) => j = k
    BY AccountedIs
  <1>2. ASSUME NEW x PROVE x \in E.used <=> \E j \in Alloc(E) : x \in Blocks(E, j)
    <2>1. ASSUME x \in E.used PROVE \E j \in Alloc(E) : x \in Blocks(E, j)
      <3>1. PICK j \in Alloc(D) : x \in Blocks(D, j)  BY <1>1, <2>1
      <3>2. j # i  BY <2>1, <3>1
      <3>3. QED  BY <3>1, <3>2
    <2>2. ASSUME NEW j \in Alloc(E), x \in Blocks(E, j) PROVE x \in E.used
      <3>1. j # i /\ x \in Blocks(D, j)  BY <2>2
      <3>2. x \in D.used /\ x \notin Blocks(D, i)  BY <1>1, <3>1
      <3>3. QED  BY <3>2
    <2>3. QED  BY <2>1, <2>2
  <1>3. ASSUME NEW j \in Alloc(E), NEW k \in Alloc(E), NEW x, x \in Blocks(E, j), x \in Blocks(E, k)
        PROVE  j = k
    <2>1. j # i /\ k # i  BY <1>3
    <2>2. QED  BY <1>1, <1>3, <2>1
  <1>4. QED  BY <1>2, <1>3, AccountedFrom

-----------------------------------------------------------------------------
(* Writing to an inode.                                                     *)

\* From D to E, nothing but inode i changes, and it keeps its type and links.
Writes(D, E, i) ==
    /\ \A j \in Inum : j # i => E.inode[j] = D.inode[j] /\ E.content[j] = D.content[j]
    /\ E.inode[i].type = D.inode[i].type /\ E.inode[i].nlink = D.inode[i].nlink

\* Writing allocates and frees no inode.
LEMMA WritesAlloc ==
    ASSUME NEW D, NEW E, NEW i, i \in Inum, Writes(D, E, i)
    PROVE  Alloc(E) = Alloc(D)
  <1>1. \A j \in Inum : E.inode[j].type = D.inode[j].type  BY DEF Writes
  <1>2. QED  BY <1>1 DEF Alloc

\* Writing twice is writing.
LEMMA WritesTrans ==
    ASSUME NEW D, NEW E, NEW F, NEW i, i \in Inum, Writes(D, E, i), Writes(E, F, i)
    PROVE  Writes(D, F, i)
  BY DEF Writes

\* ip->addrs[n] = b
LEMMA SetAddrIs ==
    ASSUME NEW D, IsDisk(D), NEW i, i \in Inum, NEW n, n \in 0..NDIRECT, NEW b, b \in 0..nblocks,
           NEW E, E = SetAddr(D, i, n, b)
    PROVE  /\ IsDisk(E) /\ Writes(D, E, i)
           /\ E.ind = D.ind /\ E.used = D.used /\ E.content = D.content
           /\ E.inode[i].addrs[n] = b
           /\ \A m \in 0..NDIRECT : m # n => E.inode[i].addrs[m] = D.inode[i].addrs[m]
  <1> DEFINE N == D.inode[i]
             A == [N.addrs EXCEPT ![n] = b]
             M == [N EXCEPT !.addrs = A]
  <1>1. IsNode(N)  BY DEF IsDisk
  <1>2. NodeSet(E, D, i, M)  BY <1>1 DEF SetAddr, NodeSet, IsDisk, Dsk, IsNode, Nod
  <1>3. /\ A \in [0..NDIRECT -> 0..nblocks] /\ A[n] = b
        /\ \A m \in 0..NDIRECT : m # n => A[m] = N.addrs[m]
    BY <1>1 DEF IsNode
  <1>4. N = Nod(N.type, N.nlink, N.addrs) /\ IsContent(N.type, D.content[i])
    BY <1>1 DEF IsNode, IsDisk
  <1> HIDE DEF A, N
  <1>5. M = Nod(N.type, N.nlink, A)  BY <1>4, NodFields
  <1> HIDE DEF M
  <1>6. M.type = N.type /\ M.nlink = N.nlink /\ M.addrs = A  BY <1>5, NodFields
  <1>7. IsNode(M)  BY <1>1, <1>3, <1>5, <1>6 DEF IsNode
  <1>8. /\ E.ind = D.ind /\ E.used = D.used /\ E.content = D.content
        /\ E.inode[i] = M /\ \A j \in Inum : j # i => E.inode[j] = D.inode[j]
        /\ IsNode(M) /\ IsContent(M.type, D.content[i]) => IsDisk(E)
    BY <1>2, SetNode
  <1>9. IsDisk(E)  BY <1>4, <1>6, <1>7, <1>8
  <1>10. Writes(D, E, i)  BY <1>6, <1>8 DEF Writes, N
  <1>11. QED  BY <1>3, <1>6, <1>8, <1>9, <1>10 DEF N

\* Entry n of the indirect block a
LEMMA SetIndIs ==
    ASSUME NEW D, IsDisk(D), NEW a, a \in D.used, NEW n, n \in 0..(NINDIRECT - 1),
           NEW b, b \in 0..nblocks, NEW E, E = SetInd(D, a, n, b)
    PROVE  /\ IsDisk(E)
           /\ E.inode = D.inode /\ E.used = D.used /\ E.content = D.content
           /\ E.ind[a][n] = b
           /\ \A m \in 0..(NINDIRECT - 1) : m # n => E.ind[a][m] = D.ind[a][m]
           /\ \A c \in Block : c # a => E.ind[c] = D.ind[c]
  <1> DEFINE A == [D.ind[a] EXCEPT ![n] = b]
             N == [D.ind EXCEPT ![a] = A]
  <1>1. /\ D = Dsk(D.inode, D.ind, D.used, D.content) /\ a \in Block
        /\ D.ind \in [Block -> [0..(NINDIRECT - 1) -> 0..nblocks]]
    BY DEF IsDisk
  <1>2. D.ind[a] \in [0..(NINDIRECT - 1) -> 0..nblocks]  BY <1>1
  <1>3. /\ A \in [0..(NINDIRECT - 1) -> 0..nblocks] /\ A[n] = b
        /\ \A m \in 0..(NINDIRECT - 1) : m # n => A[m] = D.ind[a][m]
    BY <1>2
  <1>4. E = [D EXCEPT !.ind = N]  BY DEF SetInd
  <1> HIDE DEF A
  <1>5. /\ N \in [Block -> [0..(NINDIRECT - 1) -> 0..nblocks]] /\ N[a] = A
        /\ \A c \in Block : c # a => N[c] = D.ind[c]
    BY <1>1, <1>3
  <1> HIDE DEF N
  <1>6. E = Dsk(D.inode, N, D.used, D.content)  BY <1>1, <1>4, DskFields
  <1>7. E.inode = D.inode /\ E.ind = N /\ E.used = D.used /\ E.content = D.content
    BY <1>6, DskFields
  <1>8. IsDisk(E)
    <2>1. E = Dsk(E.inode, E.ind, E.used, E.content)  BY <1>6, <1>7
    <2>2. \A c \in Block \ E.used : E.ind[c] = NoBlocks  BY <1>5, <1>7 DEF IsDisk
    <2>3. QED  BY <1>5, <1>7, <2>1, <2>2 DEF IsDisk
  <1>9. QED  BY <1>3, <1>5, <1>7, <1>8

\* balloc() returns a free block, or 0 when there is none.
LEMMA BallocIs ==
    ASSUME NEW D, IsDisk(D), NEW R, R = Balloc(D)
    PROVE  /\ R.addr \in 0..nblocks /\ IsDisk(R.disk)
           /\ R.disk.inode = D.inode /\ R.disk.ind = D.ind /\ R.disk.content = D.content
           /\ R.addr = 0 => R.disk = D
           /\ R.addr # 0 => /\ R.addr \in Block \ D.used /\ R.disk.used = D.used \cup {R.addr}
                            /\ D.ind[R.addr] = NoBlocks
  <1> DEFINE b == Least(Block \ D.used)
             U == D.used \cup {b}
             E == [D EXCEPT !.used = U]
  <1>1. nblocks \in Nat  BY InodeAssumption DEF InodeAssumption
  <1>2. CASE D.used = Block
    <2>1. R = [disk |-> D, addr |-> 0]  BY <1>2 DEF Balloc
    <2>2. R.disk = D /\ R.addr = 0  BY <2>1
    <2>3. QED  BY <1>1, <2>2
  <1>3. CASE D.used # Block
    <2>1. R = [disk |-> E, addr |-> b]  BY <1>3 DEF Balloc
    <2>2. D.used \subseteq Block /\ D = Dsk(D.inode, D.ind, D.used, D.content)  BY DEF IsDisk
    <2>3. Block \ D.used # {} /\ Block \ D.used \subseteq Nat
      <3>1. Block \ D.used # {}  BY <1>3, <2>2
      <3>2. Block \subseteq Nat  BY <1>1 DEF Block
      <3>3. QED  BY <3>1, <3>2
    <2>4. b \in Block \ D.used  BY <2>3, LeastIs
    <2> HIDE DEF b
    <2>5. b \in 0..nblocks /\ b # 0  BY <1>1, <2>4 DEF Block
    <2>6. U \subseteq Block  BY <2>2, <2>4
    <2>7. U = D.used \cup {b}  OBVIOUS
    <2> HIDE DEF U
    <2>8. E = Dsk(D.inode, D.ind, U, D.content)  BY <2>2, DskFields
    <2> HIDE DEF E
    <2>9. E.inode = D.inode /\ E.ind = D.ind /\ E.used = U /\ E.content = D.content
      BY <2>8, DskFields
    <2>10. IsDisk(E)
      <3>1. E = Dsk(E.inode, E.ind, E.used, E.content)  BY <2>8, <2>9
      <3>2. \A c \in Block \ E.used : E.ind[c] = NoBlocks  BY <2>7, <2>9 DEF IsDisk
      <3>3. QED  BY <2>6, <2>9, <3>1, <3>2 DEF IsDisk
    <2>11. D.ind[b] = NoBlocks  BY <2>4 DEF IsDisk
    <2>12. R.disk = E /\ R.addr = b  BY <2>1
    <2>13. QED  BY <2>4, <2>5, <2>7, <2>9, <2>10, <2>11, <2>12
  <1>4. QED  BY <1>2, <1>3

\* The inode's address, allocated if need be.
LEMMA DirectIs ==
    ASSUME NEW D, DiskOK(D), NEW i, i \in Alloc(D), NEW n, n \in 0..NDIRECT,
           NEW R, R = Direct(D, i, n)
    PROVE  /\ DiskOK(R.disk) /\ Writes(D, R.disk, i) /\ R.disk.content = D.content
           /\ R.addr \in 0..nblocks /\ (R.addr # 0 => R.disk.inode[i].addrs[n] = R.addr)
  <1> DEFINE a == D.inode[i].addrs
             B == Balloc(D)
             E == SetAddr(B.disk, i, n, B.addr)
  <1>1. i \in Inum /\ IsDisk(D) /\ Accounted(D)  BY DEF Alloc, DiskOK
  <1>2. a \in [0..NDIRECT -> 0..nblocks]  BY <1>1 DEF IsDisk, IsNode
  <1>3. /\ NDIRECT \in 0..NDIRECT /\ 0..(NDIRECT - 1) \subseteq 0..NDIRECT /\ nblocks \in Nat
        /\ \A m \in 0..NDIRECT : m = NDIRECT \/ m \in 0..(NDIRECT - 1)
        /\ NDIRECT \notin 0..(NDIRECT - 1)
    BY InodeAssumption DEF InodeAssumption
  <1>4. CASE a[n] # 0
    <2>1. R = [disk |-> D, addr |-> a[n]]  BY <1>4 DEF Direct
    <2>2. R.disk = D /\ R.addr = a[n]  BY <2>1
    <2>3. QED  BY <1>2, <2>2 DEF Writes
  <1>5. CASE a[n] = 0
    <2>1. R = [disk |-> E, addr |-> B.addr]  BY <1>5 DEF Direct
    <2>2. R.disk = E /\ R.addr = B.addr  BY <2>1
    <2>3. /\ B.addr \in 0..nblocks /\ IsDisk(B.disk)
          /\ B.disk.inode = D.inode /\ B.disk.ind = D.ind /\ B.disk.content = D.content
          /\ B.addr = 0 => B.disk = D
          /\ B.addr # 0 => /\ B.addr \in Block \ D.used /\ B.disk.used = D.used \cup {B.addr}
                           /\ D.ind[B.addr] = NoBlocks
      BY <1>1, BallocIs
    <2>4. /\ IsDisk(E) /\ Writes(B.disk, E, i)
          /\ E.ind = D.ind /\ E.used = B.disk.used /\ E.content = D.content
          /\ E.inode[i].addrs[n] = B.addr
          /\ \A m \in 0..NDIRECT : m # n => E.inode[i].addrs[m] = a[m]
      <3>1. PICK F, b : F = B.disk /\ b = B.addr  OBVIOUS
      <3>2. IsDisk(F) /\ b \in 0..nblocks /\ E = SetAddr(F, i, n, b)  BY <2>3, <3>1
      <3> HIDE DEF B, E
      <3>3. /\ IsDisk(E) /\ Writes(F, E, i)
            /\ E.ind = F.ind /\ E.used = F.used /\ E.content = F.content
            /\ E.inode[i].addrs[n] = b
            /\ \A m \in 0..NDIRECT : m # n => E.inode[i].addrs[m] = F.inode[i].addrs[m]
        BY ONLY <1>1, <3>2, n \in 0..NDIRECT, SetAddrIs
      <3>4. QED  BY <2>3, <3>1, <3>3
    <2> HIDE DEF B, E
    <2>5. Writes(D, E, i)  BY <2>3, <2>4 DEF Writes
    <2>6. Alloc(E) = Alloc(D)  BY <1>1, <2>5, WritesAlloc
    <2>7. ASSUME NEW j \in Alloc(D), j # i PROVE Blocks(E, j) = Blocks(D, j)
      <3>1. j \in Inum /\ E.inode[j] = D.inode[j]  BY <2>5, <2>7 DEF Writes, Alloc
      <3>2. QED  BY <1>1, <2>4, <3>1, BlocksSame
    <2>8. CASE B.addr = 0
      <3>1. \A m \in 0..NDIRECT : E.inode[i].addrs[m] = a[m]  BY <1>5, <2>4, <2>8
      <3>2. Blocks(E, i) = Blocks(D, i)  BY <1>1, <2>4, <3>1, BlocksSame
      <3>3. \A j \in Alloc(D) : Blocks(E, j) = Blocks(D, j)  BY <2>7, <3>2
      <3>4. E.used = D.used  BY <2>3, <2>4, <2>8
      <3>5. Accounted(E)  BY <1>1, <2>6, <3>3, <3>4, AccountSame
      <3>6. QED  BY <2>2, <2>3, <2>4, <2>5, <3>5 DEF DiskOK
    <2>9. CASE B.addr # 0
      <3> DEFINE b == B.addr
      <3>1. b \in Block \ D.used /\ E.used = D.used \cup {b} /\ D.ind[b] = NoBlocks
        BY <2>3, <2>4, <2>9
      <3>2. ASSUME NEW x, x # 0
            PROVE  Hangs(E, i, x) <=> Hangs(D, i, x) \/ x = b
        <4>1. CASE n = NDIRECT
          <5>1. \A m \in 0..(NDIRECT - 1) : E.inode[i].addrs[m] = a[m]
            BY <1>3, <2>4, <4>1
          <5>2. E.inode[i].addrs[NDIRECT] = b /\ a[NDIRECT] = 0  BY <1>5, <2>4, <4>1
          <5>3. \A m \in 0..(NINDIRECT - 1) : E.ind[b][m] = 0  BY <2>4, <3>1 DEF NoBlocks
          <5>4. QED  BY <2>9, <3>2, <5>1, <5>2, <5>3 DEF Hangs
        <4>2. CASE n # NDIRECT
          <5>1. n \in 0..(NDIRECT - 1) /\ E.inode[i].addrs[n] = b /\ a[n] = 0
            BY <1>3, <1>5, <2>4, <4>2
          <5>2. E.inode[i].addrs[NDIRECT] = a[NDIRECT]  BY <1>3, <2>4, <4>2
          <5>3. \A m \in 0..(NDIRECT - 1) : m # n => E.inode[i].addrs[m] = a[m]
            BY <1>3, <2>4
          <5>4. E.ind = D.ind  BY <2>4
          <5> HIDE DEF b
          <5>5. (\E m \in 0..(NDIRECT - 1) : E.inode[i].addrs[m] = x)
                  <=> (\E m \in 0..(NDIRECT - 1) : a[m] = x) \/ x = b
            BY <3>2, <5>1, <5>3
          <5>6. QED  BY <5>2, <5>4, <5>5 DEF Hangs
        <4>3. QED  BY <4>1, <4>2
      <3>3. Blocks(E, i) = Blocks(D, i) \cup {b}
        <4>1. \A x : x \in Blocks(D, i) <=> x # 0 /\ Hangs(D, i, x)  BY <1>1, BlocksIs
        <4>2. \A x : x \in Blocks(E, i) <=> x # 0 /\ Hangs(E, i, x)  BY <1>1, <2>4, BlocksIs
        <4>3. QED  BY <2>9, <3>2, <4>1, <4>2
      <3>4. Accounted(E)  BY <1>1, <2>6, <2>7, <3>1, <3>3, AccountAdd
      <3>5. QED  BY <2>2, <2>3, <2>4, <2>5, <3>4 DEF DiskOK
    <2>10. QED  BY <2>8, <2>9
  <1>6. QED  BY <1>4, <1>5

\* The block behind the indirect block, both allocated if need be.
LEMMA IndirectIs ==
    ASSUME NEW D, DiskOK(D), NEW i, i \in Alloc(D), NEW n, n \in 0..(NINDIRECT - 1),
           NEW R, R = Indirect(D, i, n)
    PROVE  /\ DiskOK(R.disk) /\ Writes(D, R.disk, i) /\ R.disk.content = D.content
           /\ R.addr \in 0..nblocks
  <1> DEFINE P == Direct(D, i, NDIRECT)
             F == P.disk
             a == P.addr
             B == Balloc(F)
             E == SetInd(B.disk, a, n, B.addr)
  <1>1. NDIRECT \in 0..NDIRECT /\ nblocks \in Nat /\ 0 \in 0..nblocks
    BY InodeAssumption DEF InodeAssumption
  <1>2. i \in Inum  BY DEF Alloc
  <1>3. /\ DiskOK(F) /\ Writes(D, F, i) /\ F.content = D.content
        /\ a \in 0..nblocks /\ (a # 0 => F.inode[i].addrs[NDIRECT] = a)
    BY <1>1, DirectIs
  <1>4. i \in Alloc(F)  BY <1>2, <1>3, WritesAlloc
  <1>5. CASE a = 0
    <2>1. R = [disk |-> F, addr |-> 0]  BY <1>5 DEF Indirect
    <2>2. R.disk = F /\ R.addr = 0  BY <2>1
    <2>3. QED  BY <1>1, <1>3, <2>2
  <1>6. CASE a # 0 /\ F.ind[a][n] # 0
    <2>1. R = [disk |-> F, addr |-> F.ind[a][n]]  BY <1>6 DEF Indirect
    <2>2. R.disk = F /\ R.addr = F.ind[a][n]  BY <2>1
    <2> HIDE DEF P, F, a
    <2>3. a \in Block  BY <1>1, <1>3, <1>6 DEF Block
    <2>4. F.ind[a] \in [0..(NINDIRECT - 1) -> 0..nblocks]  BY <1>3, <2>3 DEF DiskOK, IsDisk
    <2>5. F.ind[a][n] \in 0..nblocks  BY <2>4
    <2>6. QED  BY <1>3, <2>2, <2>5
  <1>7. CASE a # 0 /\ F.ind[a][n] = 0
    <2>1. R = [disk |-> E, addr |-> B.addr]  BY <1>7 DEF Indirect
    <2>2. R.disk = E /\ R.addr = B.addr  BY <2>1
    <2> HIDE DEF P, F, a
    <2>3. IsDisk(F) /\ Accounted(F) /\ a \in Block  BY <1>1, <1>3, <1>7 DEF Block, DiskOK
    <2>4. /\ B.addr \in 0..nblocks /\ IsDisk(B.disk)
          /\ B.disk.inode = F.inode /\ B.disk.ind = F.ind /\ B.disk.content = F.content
          /\ B.addr = 0 => B.disk = F
          /\ B.addr # 0 => /\ B.addr \in Block \ F.used /\ B.disk.used = F.used \cup {B.addr}
                           /\ F.ind[B.addr] = NoBlocks
      BY <2>3, BallocIs
    <2> HIDE DEF B
    <2>5. a \in Blocks(F, i) /\ a \in F.used
      <3>1. Hangs(F, i, a)  BY <1>3, <1>7 DEF Hangs
      <3>2. a \in Blocks(F, i)  BY <1>2, <1>7, <2>3, <3>1, BlocksIs
      <3>3. QED  BY <1>4, <2>3, <3>2, AccountedIs
    <2>6. a \in B.disk.used  BY <2>4, <2>5
    <2>7. /\ IsDisk(E)
          /\ E.inode = F.inode /\ E.used = B.disk.used /\ E.content = F.content
          /\ E.ind[a][n] = B.addr
          /\ \A m \in 0..(NINDIRECT - 1) : m # n => E.ind[a][m] = F.ind[a][m]
          /\ \A c \in Block : c # a => E.ind[c] = F.ind[c]
      <3>1. /\ IsDisk(E)
            /\ E.inode = B.disk.inode /\ E.used = B.disk.used /\ E.content = B.disk.content
            /\ E.ind[a][n] = B.addr
            /\ \A m \in 0..(NINDIRECT - 1) : m # n => E.ind[a][m] = B.disk.ind[a][m]
            /\ \A c \in Block : c # a => E.ind[c] = B.disk.ind[c]
        BY <2>4, <2>6, SetIndIs
      <3>2. QED  BY <2>4, <3>1
    <2> HIDE DEF E
    <2>8. Writes(D, E, i) /\ E.content = D.content  BY <1>3, <2>7 DEF Writes
    <2>9. Alloc(E) = Alloc(F)  BY <2>7 DEF Alloc
    <2>10. ASSUME NEW j \in Alloc(F), j # i PROVE Blocks(E, j) = Blocks(F, j)
      <3> DEFINE c == F.inode[j].addrs[NDIRECT]
      <3>1. j \in Inum  BY DEF Alloc
      <3>2. c \in 0..nblocks  BY <1>1, <2>3, <3>1 DEF IsDisk, IsNode
      <3>3. c # 0 => c \in Block /\ c # a
        <4> SUFFICES ASSUME c # 0 PROVE c \in Block /\ c # a  OBVIOUS
        <4>1. c \in Block  BY <1>1, <3>2 DEF Block
        <4>2. Hangs(F, j, c)  BY DEF Hangs
        <4>3. c \in Blocks(F, j)  BY <2>3, <3>1, <4>2, BlocksIs
        <4>4. c # a  BY <1>4, <2>3, <2>5, <2>10, <4>3, AccountedIs
        <4>5. QED  BY <4>1, <4>4
      <3>4. c # 0 => E.ind[c] = F.ind[c]  BY <2>7, <3>3
      <3>5. \A m \in 0..NDIRECT : E.inode[j].addrs[m] = F.inode[j].addrs[m]  BY <2>7
      <3>6. QED  BY <2>3, <2>7, <3>1, <3>4, <3>5, BlocksSame
    <2>11. CASE B.addr = 0
      <3>1. \A m \in 0..(NINDIRECT - 1) : E.ind[a][m] = F.ind[a][m]  BY <1>7, <2>7, <2>11
      <3>2. Blocks(E, i) = Blocks(F, i)  BY <1>2, <1>3, <1>7, <2>3, <2>7, <3>1, BlocksSame
      <3>3. \A j \in Alloc(F) : Blocks(E, j) = Blocks(F, j)  BY <2>10, <3>2
      <3>4. Accounted(E)  BY <2>3, <2>4, <2>7, <2>9, <2>11, <3>3, AccountSame
      <3>5. QED  BY <2>2, <2>4, <2>7, <2>8, <3>4 DEF DiskOK
    <2>12. CASE B.addr # 0
      <3> DEFINE b == B.addr
      <3>1. b \in Block \ F.used /\ E.used = F.used \cup {b}  BY <2>4, <2>7, <2>12
      <3>2. ASSUME NEW x, x # 0
            PROVE  Hangs(E, i, x) <=> Hangs(F, i, x) \/ x = b
        <4>1. F.inode[i].addrs[NDIRECT] = a /\ E.inode = F.inode  BY <1>3, <1>7, <2>7
        <4>2. (\E m \in 0..(NINDIRECT - 1) : E.ind[a][m] = x)
                <=> (\E m \in 0..(NINDIRECT - 1) : F.ind[a][m] = x) \/ x = b
          BY <1>7, <2>7, <3>2
        <4> HIDE DEF b
        <4>3. QED  BY <1>7, <4>1, <4>2 DEF Hangs
      <3>3. Blocks(E, i) = Blocks(F, i) \cup {b}
        <4>1. \A x : x \in Blocks(F, i) <=> x # 0 /\ Hangs(F, i, x)  BY <1>2, <2>3, BlocksIs
        <4>2. \A x : x \in Blocks(E, i) <=> x # 0 /\ Hangs(E, i, x)  BY <1>2, <2>7, BlocksIs
        <4>3. QED  BY <2>12, <3>2, <4>1, <4>2
      <3>4. Accounted(E)  BY <1>4, <2>3, <2>9, <2>10, <3>1, <3>3, AccountAdd
      <3>5. QED  BY <2>2, <2>4, <2>7, <2>8, <3>4 DEF DiskOK
    <2>13. QED  BY <2>11, <2>12
  <1>8. QED  BY <1>5, <1>6, <1>7

\* bmap()
LEMMA BmapIs ==
    ASSUME NEW D, DiskOK(D), NEW i, i \in Alloc(D), NEW bn, bn \in 0..(MAXFILE - 1),
           NEW R, R = Bmap(D, i, bn)
    PROVE  /\ DiskOK(R.disk) /\ Writes(D, R.disk, i) /\ R.disk.content = D.content
  <1>1. NDIRECT \in Nat /\ NINDIRECT \in Nat  BY InodeAssumption DEF InodeAssumption
  <1>2. CASE bn < NDIRECT
    <2>1. R = Direct(D, i, bn) /\ bn \in 0..NDIRECT  BY <1>1, <1>2 DEF Bmap, MAXFILE
    <2>2. QED  BY <2>1, DirectIs
  <1>3. CASE ~(bn < NDIRECT)
    <2>1. PICK n : n = bn - NDIRECT  OBVIOUS
    <2>2. n \in 0..(NINDIRECT - 1)  BY <1>1, <1>3, <2>1 DEF MAXFILE
    <2>3. R = Indirect(D, i, n)  BY <1>3, <2>1 DEF Bmap
    <2>4. QED  BY <2>2, <2>3, IndirectIs
  <1>4. QED  BY <1>2, <1>3

\* The block of a unit is within the file's largest size.
LEMMA InFile ==
    ASSUME NEW off, off \in Nat, NEW d, d \in Nat, d > 0, NEW M, M \in Nat, ~(off >= M * d)
    PROVE  off \div d \in 0..(M - 1)
  <1> DEFINE q == off \div d
  <1>1. q \in Nat /\ d * q <= off
    BY SMTT(30)
  <1>2. q < M  BY <1>1, SMTT(30)
  <1>3. QED  BY <1>1, <1>2

\* What writei() returns, and the unit it may write to an inode.
Res(d, k) == [disk |-> d, ok |-> k]
IsUnit(type, x) == /\ type = "dir" => x \in Entry
                   /\ type \in {"file", "dev"} => x = "data"

\* The fields of the result.
LEMMA ResFields == ASSUME NEW d, NEW k PROVE Res(d, k).disk = d /\ Res(d, k).ok = k
  BY DEF Res

\* The content with a unit written.
Written(c, off, x) == IF off = Len(c) THEN Append(c, x) ELSE [c EXCEPT ![off + 1] = x]

\* A unit is written in place or at the end.
LEMMA WrittenIs ==
    ASSUME NEW S, NEW c, c \in Seq(S), NEW off, off \in Nat, off <= Len(c), NEW x, x \in S
    PROVE  /\ Written(c, off, x) \in Seq(S)
           /\ Len(Written(c, off, x)) = IF off = Len(c) THEN Len(c) + 1 ELSE Len(c)
           /\ Written(c, off, x)[off + 1] = x
           /\ \A k \in 1..Len(c) : k # off + 1 => Written(c, off, x)[k] = c[k]
  <1>1. Len(c) \in Nat /\ DOMAIN c = 1..Len(c)  OBVIOUS
  <1>2. CASE off = Len(c)
    <2>1. Written(c, off, x) = Append(c, x)  BY <1>2 DEF Written
    <2>2. QED  BY <1>1, <1>2, <2>1
  <1>3. CASE off # Len(c)
    <2> DEFINE w == [c EXCEPT ![off + 1] = x]
    <2>1. Written(c, off, x) = w  BY <1>3 DEF Written
    <2>2. off + 1 \in 1..Len(c)
      <3>0. off \in Nat /\ off <= Len(c) /\ Len(c) \in Nat /\ off # Len(c)  BY <1>1, <1>3
      <3>1. off \in Nat /\ Len(c) \in Nat /\ off < Len(c)  BY ONLY <3>0
      <3>2. off + 1 \in Nat /\ 1 <= off + 1 /\ off + 1 <= Len(c)  BY ONLY <3>1
      <3>3. QED  BY ONLY <3>1, <3>2
    <2>3. w \in [1..Len(c) -> S]  BY <1>1, <2>2
    <2>4. /\ w[off + 1] = x /\ \A k \in 1..Len(c) : k # off + 1 => w[k] = c[k]
      BY <1>1, <2>2
    <2>5. w \in Seq(S) /\ Len(w) = Len(c)
      <3> HIDE DEF w
      <3>1. QED  BY <1>1, <2>3
    <2>6. QED  BY <1>3, <2>1, <2>4, <2>5
  <1>4. QED  BY <1>2, <1>3

\* writei()
LEMMA WriteiIs ==
    ASSUME NEW D, DiskOK(D), NEW i, i \in Alloc(D), NEW off, off \in Nat,
           NEW x, IsUnit(D.inode[i].type, x), NEW W, W = Writei(D, i, off, x)
    PROVE  /\ DiskOK(W.disk) /\ Writes(D, W.disk, i)
           /\ W.ok => off <= Len(D.content[i]) /\ W.disk.content[i] = Written(D.content[i], off, x)
           /\ ~W.ok => W.disk.content[i] = D.content[i]
  <1> DEFINE c == D.content[i]
             d == PerBlock(D, i)
             m == Bmap(D, i, off \div d)
  <1>1. i \in Inum /\ D.inode[i].type # "none" /\ IsDisk(D)  BY DEF Alloc, DiskOK
  <1>2. d \in Nat /\ d > 0  BY InodeAssumption DEF InodeAssumption, PerBlock
  <1>3. IsContent(D.inode[i].type, c) /\ D.inode[i].type \in {"none", "dir", "file", "dev"}
    BY <1>1 DEF IsDisk, IsNode
  <1>4. PICK S : c \in Seq(S) /\ x \in S /\ \A y : y \in Seq(S) => IsContent(D.inode[i].type, y)
    <2>1. CASE D.inode[i].type = "dir"
      BY <1>3, <2>1 DEF IsContent, IsUnit
    <2>2. CASE D.inode[i].type # "dir"
      <3>1. D.inode[i].type \in {"file", "dev"}  BY <1>1, <1>3, <2>2
      <3>2. c \in Seq({"data"}) /\ x \in {"data"}  BY <1>3, <3>1 DEF IsContent, IsUnit
      <3>3. \A y : y \in Seq({"data"}) => IsContent(D.inode[i].type, y)  BY <3>1 DEF IsContent
      <3>4. QED  BY <3>2, <3>3
    <2>3. QED  BY <2>1, <2>2
  <1>5. Len(c) \in Nat  BY <1>4
  <1>6. PICK no, yes : no = FALSE /\ yes = TRUE  OBVIOUS
  <1>7. \/ W = Res(D, no)
        \/ /\ ~(off > Len(c)) /\ ~(off >= MAXFILE * d)
           /\ \/ W = Res(m.disk, no)
              \/ W = Res([m.disk EXCEPT !.content[i] = Written(c, off, x)], yes)
    BY <1>6, Zenon DEF Writei, Res, Written
  <1>8. ~no /\ yes  BY <1>6, Zenon
  <1>9. CASE W = Res(D, no)
    <2>1. W.disk = D /\ W.ok = no  BY <1>9, ResFields
    <2>2. ~W.ok  BY <1>8, <2>1, Zenon
    <2>3. QED  BY <2>1, <2>2 DEF Writes
  <1>10. CASE ~(off > Len(c)) /\ ~(off >= MAXFILE * d)
    <2>1. MAXFILE \in Nat  BY InodeAssumption DEF InodeAssumption, MAXFILE
    <2> HIDE DEF d
    <2>2. off \div d \in 0..(MAXFILE - 1)  BY <1>2, <1>10, <2>1, InFile
    <2>3. /\ DiskOK(m.disk) /\ Writes(D, m.disk, i) /\ m.disk.content = D.content
      BY <2>2, BmapIs
    <2> HIDE DEF m
    <2>4. CASE W = Res(m.disk, no)
      <3>1. W.disk = m.disk /\ W.ok = no  BY <2>4, ResFields
      <3>2. ~W.ok  BY <1>8, <3>1, Zenon
      <3>3. QED  BY <2>3, <3>1, <3>2
    <2>5. CASE W = Res([m.disk EXCEPT !.content[i] = Written(c, off, x)], yes)
      <3> DEFINE w == Written(c, off, x)
                 E == [m.disk EXCEPT !.content[i] = w]
      <3>1. off <= Len(c)  BY <1>5, <1>10
      <3>2. w \in Seq(S)  BY <1>4, <3>1, WrittenIs
      <3>3. W.disk = E /\ W.ok = yes  BY <2>5, ResFields
      <3>4. W.ok  BY <1>8, <3>3, Zenon
      <3> HIDE DEF w
      <3>5. ContentSet(E, m.disk, i, w)  BY DEF ContentSet
      <3>6. m.disk.inode[i].type = D.inode[i].type  BY <2>3 DEF Writes
      <3>7. IsContent(m.disk.inode[i].type, w)  BY <1>4, <3>2, <3>6
      <3> HIDE DEF E
      <3>8. IsDisk(m.disk) /\ Accounted(m.disk)  BY <2>3 DEF DiskOK
      <3>9. /\ E.ind = m.disk.ind /\ E.used = m.disk.used /\ E.inode = m.disk.inode
            /\ E.content[i] = w /\ \A j \in Inum : j # i => E.content[j] = m.disk.content[j]
            /\ IsDisk(E)
        BY <1>1, <3>5, <3>7, <3>8, SetContent
      <3>10. Alloc(E) = Alloc(m.disk)  BY <3>9 DEF Alloc
      <3>11. ASSUME NEW j \in Alloc(m.disk) PROVE Blocks(E, j) = Blocks(m.disk, j)
        <4>1. j \in Inum  BY DEF Alloc
        <4>2. QED  BY <3>8, <3>9, <4>1, BlocksSame
      <3>12. Accounted(E)  BY <3>8, <3>9, <3>10, <3>11, AccountSame
      <3>13. Writes(D, E, i)  BY <2>3, <3>9 DEF Writes
      <3>14. QED  BY <3>1, <3>3, <3>4, <3>9, <3>12, <3>13 DEF DiskOK, w
    <2>6. QED  BY <1>7, <1>9, <2>4, <2>5
  <1>11. QED  BY <1>7, <1>9, <1>10

\* Another dinode with the same type and blocks.
LEMMA SetLinks ==
    ASSUME NEW D, DiskOK(D), NEW i, i \in Inum, NEW n, IsNode(n),
           n.type = D.inode[i].type, n.addrs = D.inode[i].addrs,
           NEW E, NodeSet(E, D, i, n)
    PROVE  /\ DiskOK(E) /\ E.content = D.content /\ E.inode[i] = n
           /\ \A j \in Inum : j # i => E.inode[j] = D.inode[j]
  <1>1. IsDisk(D) /\ Accounted(D)  BY DEF DiskOK
  <1>2. IsContent(n.type, D.content[i])  BY <1>1 DEF IsDisk
  <1>3. /\ E.ind = D.ind /\ E.used = D.used /\ E.content = D.content
        /\ E.inode[i] = n /\ \A j \in Inum : j # i => E.inode[j] = D.inode[j]
        /\ IsDisk(E)
    BY <1>1, <1>2, SetNode
  <1>4. \A j \in Inum : E.inode[j].type = D.inode[j].type  BY <1>3
  <1>5. Alloc(E) = Alloc(D)  BY <1>4 DEF Alloc
  <1>6. ASSUME NEW j \in Alloc(D) PROVE Blocks(E, j) = Blocks(D, j)
    <2>1. j \in Inum  BY DEF Alloc
    <2>2. \A k \in 0..NDIRECT : E.inode[j].addrs[k] = D.inode[j].addrs[k]  BY <1>3, <2>1
    <2>3. QED  BY <1>1, <1>3, <2>1, <2>2, BlocksSame
  <1>7. Accounted(E)  BY <1>1, <1>3, <1>5, <1>6, AccountSame
  <1>8. QED  BY <1>3, <1>7 DEF DiskOK

\* The link count of an inode.
LinksSet(E, D, i, k) == E = [D EXCEPT !.inode[i].nlink = k]

\* A disk with another link count.
LEMMA SetNlink ==
    ASSUME NEW D, DiskOK(D), NEW i, i \in Inum, NEW k, k \in Int, NEW E, LinksSet(E, D, i, k)
    PROVE  /\ DiskOK(E) /\ E.content = D.content /\ E.inode[i].nlink = k
           /\ E.inode[i].type = D.inode[i].type
           /\ \A j \in Inum : j # i => E.inode[j] = D.inode[j]
  <1> DEFINE N == D.inode[i]
             n == [N EXCEPT !.nlink = k]
  <1>1. IsNode(N)  BY DEF DiskOK, IsDisk
  <1>2. NodeSet(E, D, i, n)  BY DEF LinksSet, NodeSet, DiskOK, IsDisk, Dsk
  <1>3. N = Nod(N.type, N.nlink, N.addrs)  BY <1>1 DEF IsNode
  <1> HIDE DEF N
  <1>4. n = Nod(N.type, k, N.addrs)  BY <1>3, NodFields
  <1> HIDE DEF n
  <1>5. n.type = N.type /\ n.nlink = k /\ n.addrs = N.addrs  BY <1>4, NodFields
  <1>6. IsNode(n)  BY <1>1, <1>4, <1>5 DEF IsNode
  <1>7. /\ DiskOK(E) /\ E.content = D.content /\ E.inode[i] = n
        /\ \A j \in Inum : j # i => E.inode[j] = D.inode[j]
    BY <1>2, <1>5, <1>6, SetLinks DEF N
  <1>8. QED  BY <1>5, <1>7 DEF N

\* One link more or less.
LEMMA NlinkIs ==
    ASSUME NEW D, DiskOK(D), NEW i, i \in Inum, NEW k, k \in Int
    PROVE  /\ DiskOK(NlinkPlus(D, i, k)) /\ NlinkPlus(D, i, k).content = D.content
           /\ NlinkPlus(D, i, k).inode[i].nlink = D.inode[i].nlink + k
           /\ NlinkPlus(D, i, k).inode[i].type = D.inode[i].type
           /\ \A j \in Inum : j # i => NlinkPlus(D, i, k).inode[j] = D.inode[j]
           /\ DiskOK(NlinkLess(D, i)) /\ NlinkLess(D, i).content = D.content
           /\ NlinkLess(D, i).inode[i].nlink = D.inode[i].nlink - 1
           /\ NlinkLess(D, i).inode[i].type = D.inode[i].type
           /\ \A j \in Inum : j # i => NlinkLess(D, i).inode[j] = D.inode[j]
  <1>1. D.inode[i].nlink \in Int  BY DEF DiskOK, IsDisk, IsNode
  <1>2. PICK a, b : a = D.inode[i].nlink + k /\ b = D.inode[i].nlink - 1  OBVIOUS
  <1>3. a \in Int /\ b \in Int  BY <1>1, <1>2
  <1>4. LinksSet(NlinkPlus(D, i, k), D, i, a)  BY <1>2 DEF LinksSet, NlinkPlus
  <1>5. LinksSet(NlinkLess(D, i), D, i, b)  BY <1>2 DEF LinksSet, NlinkLess
  <1> DEFINE P == NlinkPlus(D, i, k)
             L == NlinkLess(D, i)
  <1> HIDE DEF P, L
  <1>6. /\ DiskOK(P) /\ P.content = D.content /\ P.inode[i].nlink = a
        /\ P.inode[i].type = D.inode[i].type /\ \A j \in Inum : j # i => P.inode[j] = D.inode[j]
    BY <1>3, <1>4, SetNlink DEF P
  <1>7. /\ DiskOK(L) /\ L.content = D.content /\ L.inode[i].nlink = b
        /\ L.inode[i].type = D.inode[i].type /\ \A j \in Inum : j # i => L.inode[j] = D.inode[j]
    BY <1>3, <1>5, SetNlink DEF L
  <1>8. QED  BY <1>2, <1>6, <1>7 DEF P, L

\* The inode i of D is cut to nothing, and gets the type t.
Cut(E, D, i, t) ==
    E = Dsk([D.inode EXCEPT ![i] = Nod(t, D.inode[i].nlink, FreeInode.addrs)],
            [b \in Block |-> IF b \in Blocks(D, i) THEN NoBlocks ELSE D.ind[b]],
            D.used \ Blocks(D, i), [D.content EXCEPT ![i] = <<>>])

Becomes(t, D, i) == t \in {"none", D.inode[i].type}

\* Cutting an inode keeps the accounts.
LEMMA CutIs ==
    ASSUME NEW D, DiskOK(D), NEW i, i \in Alloc(D), NEW t, Becomes(t, D, i),
           NEW E, Cut(E, D, i, t)
    PROVE  /\ DiskOK(E) /\ E.content[i] = <<>> /\ E.inode[i].type = t
           /\ E.inode[i].nlink = D.inode[i].nlink
           /\ \A j \in Inum : j # i => E.inode[j] = D.inode[j] /\ E.content[j] = D.content[j]
  <1> DEFINE n == Nod(t, D.inode[i].nlink, FreeInode.addrs)
             N == [D.inode EXCEPT ![i] = n]
             C == [D.content EXCEPT ![i] = <<>>]
             U == D.used \ Blocks(D, i)
             I == [b \in Block |-> IF b \in Blocks(D, i) THEN NoBlocks ELSE D.ind[b]]
  <1>1. i \in Inum /\ IsDisk(D) /\ Accounted(D)  BY DEF Alloc, DiskOK
  <1>2. E.inode = N /\ E.ind = I /\ E.used = U /\ E.content = C
    BY DskFields DEF Cut
  <1>3. E = Dsk(E.inode, E.ind, E.used, E.content)  BY <1>2 DEF Cut
  <1>4. IsNode(D.inode[i]) /\ nblocks \in Nat
    BY <1>1, InodeAssumption DEF IsDisk, InodeAssumption
  <1>5. n.type = t /\ n.nlink = D.inode[i].nlink /\ n.addrs = FreeInode.addrs  BY NodFields
  <1>6. /\ FreeInode.addrs = [k \in 0..NDIRECT |-> 0]
        /\ FreeInode.addrs \in [0..NDIRECT -> 0..nblocks]
    BY <1>4 DEF FreeInode
  <1>7. IsNode(n)  BY <1>4, <1>5, <1>6 DEF IsNode, Becomes
  <1> HIDE DEF n
  <1>8. /\ N = [j \in Inum |-> IF j = i THEN n ELSE D.inode[j]]
        /\ C = [j \in Inum |-> IF j = i THEN <<>> ELSE D.content[j]]
    BY <1>1 DEF IsDisk
  <1> HIDE DEF N, C
  <1>9. /\ E.inode[i] = n /\ E.content[i] = <<>>
        /\ \A j \in Inum : j # i => E.inode[j] = D.inode[j] /\ E.content[j] = D.content[j]
    BY <1>1, <1>2, <1>8
  <1>10. IsDisk(E)
    <2>1. E.inode = [j \in Inum |-> E.inode[j]] /\ E.content = [j \in Inum |-> E.content[j]]
      BY <1>2, <1>8
    <2>2. \A j \in Inum : IsNode(E.inode[j])  BY <1>1, <1>7, <1>9 DEF IsDisk
    <2>3. ASSUME NEW j \in Inum PROVE IsContent(E.inode[j].type, E.content[j])
      <3>1. CASE j = i
        <4>1. <<>> \in Seq(Entry) /\ <<>> \in Seq({"data"})  OBVIOUS
        <4>2. QED  BY <1>9, <3>1, <4>1 DEF IsContent
      <3>2. CASE j # i  BY <1>1, <1>9, <3>2 DEF IsDisk
      <3>3. QED  BY <3>1, <3>2
    <2>4. NoBlocks \in [0..(NINDIRECT - 1) -> 0..nblocks]  BY <1>4 DEF NoBlocks
    <2>5. E.ind \in [Block -> [0..(NINDIRECT - 1) -> 0..nblocks]]
      BY <1>1, <1>2, <2>4 DEF IsDisk
    <2>6. E.used \subseteq Block  BY <1>1, <1>2 DEF IsDisk
    <2>7. \A b \in Block \ E.used : E.ind[b] = NoBlocks  BY <1>1, <1>2 DEF IsDisk
    <2>8. QED  BY <1>3, <2>1, <2>2, <2>3, <2>5, <2>6, <2>7 DEF IsDisk
  <1>11. Blocks(E, i) = {}
    <2>1. 0 \in 0..NDIRECT /\ NDIRECT \in 0..NDIRECT /\ 0..(NDIRECT - 1) \subseteq 0..NDIRECT
      BY InodeAssumption DEF InodeAssumption
    <2>2. \A k \in 0..NDIRECT : E.inode[i].addrs[k] = 0  BY <1>5, <1>6, <1>9
    <2>3. \A b : b # 0 => ~Hangs(E, i, b)  BY <2>1, <2>2 DEF Hangs
    <2>4. QED  BY <1>1, <1>10, <2>3, BlocksIs
  <1>12. ASSUME NEW j \in Alloc(D), j # i PROVE Blocks(E, j) = Blocks(D, j)
    <2> DEFINE c == D.inode[j].addrs[NDIRECT]
    <2>1. j \in Inum /\ NDIRECT \in 0..NDIRECT  BY InodeAssumption DEF Alloc, InodeAssumption
    <2>2. c \in 0..nblocks  BY <1>1, <2>1 DEF IsDisk, IsNode
    <2>3. c # 0 => c \in Block /\ c \notin Blocks(D, i)
      <3> SUFFICES ASSUME c # 0 PROVE c \in Block /\ c \notin Blocks(D, i)  OBVIOUS
      <3>1. Hangs(D, j, c)  BY DEF Hangs
      <3>2. c \in Blocks(D, j)  BY <1>1, <2>1, <3>1, BlocksIs
      <3>3. c \in Block  BY <1>1, <2>1, <3>2, BlocksIs
      <3>4. c \notin Blocks(D, i)  BY <1>1, <1>12, <3>2, AccountedIs
      <3>5. QED  BY <3>3, <3>4
    <2>4. c # 0 => \A k \in 0..(NINDIRECT - 1) : E.ind[c][k] = D.ind[c][k]  BY <1>2, <2>3
    <2>5. \A k \in 0..NDIRECT : E.inode[j].addrs[k] = D.inode[j].addrs[k]
      BY <1>9, <1>12, <2>1
    <2>6. QED  BY <1>1, <1>10, <2>1, <2>4, <2>5, BlocksSame
  <1>13. Alloc(E) \subseteq Alloc(D) /\ Alloc(D) \ {i} \subseteq Alloc(E)
    <2>1. \A j \in Inum : j # i => E.inode[j].type = D.inode[j].type  BY <1>9
    <2>2. QED  BY <1>1, <2>1 DEF Alloc
  <1>14. Accounted(E)  BY <1>1, <1>2, <1>11, <1>12, <1>13, AccountCut
  <1>15. QED  BY <1>5, <1>9, <1>10, <1>14 DEF DiskOK

\* itrunc(), alone and followed by ip->type = 0.
LEMMA ItruncIs ==
    ASSUME NEW D, DiskOK(D), NEW i, i \in Alloc(D)
    PROVE  /\ Cut(Itrunc(D, i), D, i, D.inode[i].type)
           /\ Cut([Itrunc(D, i) EXCEPT !.inode[i].type = "none"], D, i, "none")
  <1> DEFINE N == D.inode[i]
             M == [N EXCEPT !.addrs = FreeInode.addrs]
             I == [b \in Block |-> IF b \in Blocks(D, i) THEN NoBlocks ELSE D.ind[b]]
             C == [D.content EXCEPT ![i] = <<>>]
             U == D.used \ Blocks(D, i)
             E == Itrunc(D, i)
             n == N.nlink
             a == FreeInode.addrs
  <1>1. i \in Inum /\ IsDisk(D)  BY DEF Alloc, DiskOK
  <1>2. D.inode = [j \in Inum |-> D.inode[j]]  BY <1>1 DEF IsDisk
  <1>3. N = Nod(N.type, n, N.addrs)  BY <1>1 DEF IsDisk, IsNode
  <1>4. E = Dsk([D.inode EXCEPT ![i] = M], I, U, C)  BY DEF Itrunc, Truncated, Dsk
  <1> HIDE DEF E, I, C, U, N, n, a
  <1>5. M = Nod(N.type, n, a)  BY <1>3, NodFields DEF a
  <1> HIDE DEF M
  <1>6. Cut(E, D, i, N.type)  BY <1>4, <1>5 DEF Cut, I, U, C, N, n, a
  <1> DEFINE P == [D.inode EXCEPT ![i] = M]
             Z == [M EXCEPT !.type = "none"]
  <1>7. Z = Nod("none", n, a)  BY <1>5, NodFields
  <1>8. P[i] = M  BY <1>1, <1>2
  <1>9. E.inode = P /\ E = Dsk(P, I, U, C)  BY <1>4, DskFields
  <1>10. [E EXCEPT !.inode[i].type = "none"] = [E EXCEPT !.inode = [P EXCEPT ![i] = Z]]
    BY <1>8, <1>9
  <1>11. [P EXCEPT ![i] = Z] = [D.inode EXCEPT ![i] = Z]  BY <1>1, <1>2
  <1> DEFINE Q == [D.inode EXCEPT ![i] = Z]
  <1> HIDE DEF Z, P, Q
  <1>12. [E EXCEPT !.inode = Q] = Dsk(Q, I, U, C)
    <2>1. [Dsk(P, I, U, C) EXCEPT !.inode = Q] = Dsk(Q, I, U, C)  BY ONLY DskFields
    <2>2. E = Dsk(P, I, U, C)  BY <1>9
    <2>3. QED  BY ONLY <2>1, <2>2
  <1>13. [E EXCEPT !.inode[i].type = "none"] = Dsk(Q, I, U, C)  BY <1>10, <1>11, <1>12 DEF Q
  <1>14. Cut([E EXCEPT !.inode[i].type = "none"], D, i, "none")
    BY <1>7, <1>13 DEF Cut, I, U, C, N, n, a, Q
  <1>15. QED  BY <1>6, <1>14 DEF E, N

\* ialloc(): a free inode gets a type.
LEMMA IallocIs ==
    ASSUME NEW D, DiskOK(D), NEW i, i \in Inum, D.inode[i].type = "none",
           NEW t, t \in {"dir", "file", "dev"}, NEW E, E = Ialloc(D, i, t)
    PROVE  /\ DiskOK(E) /\ E.content = D.content
           /\ E.inode[i].type = t /\ E.inode[i].nlink = 0
           /\ \A j \in Inum : j # i => E.inode[j] = D.inode[j]
  <1> DEFINE n == [FreeInode EXCEPT !.type = t]
  <1>1. IsDisk(D) /\ Accounted(D) /\ nblocks \in Nat
    BY InodeAssumption DEF DiskOK, InodeAssumption
  <1> DEFINE z == [k \in 0..NDIRECT |-> 0]
  <1>1a. FreeInode = Nod("none", 0, z)  BY DEF FreeInode, Nod
  <1>1b. z \in [0..NDIRECT -> 0..nblocks] /\ \A k \in 0..NDIRECT : z[k] = 0  BY <1>1
  <1> HIDE DEF z
  <1>1c. FreeInode.addrs = z  BY <1>1a, NodFields
  <1>2. FreeInode = Nod("none", 0, FreeInode.addrs) /\ \A k \in 0..NDIRECT : FreeInode.addrs[k] = 0
    BY <1>1c, <1>1b, <1>1a
  <1>3. n = Nod(t, 0, FreeInode.addrs)  BY <1>2, NodFields
  <1>4. NodeSet(E, D, i, n)  BY DEF Ialloc, NodeSet
  <1> HIDE DEF n
  <1>5. n.type = t /\ n.nlink = 0 /\ n.addrs = FreeInode.addrs  BY <1>3, NodFields
  <1>6. FreeInode.addrs \in [0..NDIRECT -> 0..nblocks]  BY <1>1c, <1>1b
  <1>7. IsNode(n)  BY <1>3, <1>5, <1>6 DEF IsNode
  <1>8. IsContent(n.type, D.content[i])
    <2>1. D.content[i] = <<>>  BY <1>1 DEF IsDisk, IsContent
    <2>2. <<>> \in Seq(Entry) /\ <<>> \in Seq({"data"})  OBVIOUS
    <2>3. QED  BY <1>5, <2>1, <2>2 DEF IsContent
  <1>9. /\ E.ind = D.ind /\ E.used = D.used /\ E.content = D.content
        /\ E.inode[i] = n /\ \A j \in Inum : j # i => E.inode[j] = D.inode[j]
        /\ IsDisk(E)
    BY <1>1, <1>4, <1>7, <1>8, SetNode
  <1>10. Alloc(E) = Alloc(D) \cup {i} /\ i \notin Alloc(D)
    <2>1. \A j \in Inum : j # i => E.inode[j].type = D.inode[j].type  BY <1>9
    <2>2. E.inode[i].type # "none"  BY <1>5, <1>9
    <2>3. QED  BY <2>1, <2>2 DEF Alloc
  <1>11. Blocks(E, i) = {}
    <2>1. NDIRECT \in 0..NDIRECT /\ 0..(NDIRECT - 1) \subseteq 0..NDIRECT
      BY InodeAssumption DEF InodeAssumption
    <2>2. \A k \in 0..NDIRECT : E.inode[i].addrs[k] = 0  BY <1>2, <1>5, <1>9
    <2>3. \A b : b # 0 => ~Hangs(E, i, b)  BY <2>1, <2>2 DEF Hangs
    <2>4. QED  BY <1>9, <2>3, BlocksIs
  <1>12. ASSUME NEW j \in Alloc(D) PROVE Blocks(E, j) = Blocks(D, j)
    <2>1. j \in Inum /\ j # i  BY <1>10 DEF Alloc
    <2>2. \A k \in 0..NDIRECT : E.inode[j].addrs[k] = D.inode[j].addrs[k]  BY <1>9, <2>1
    <2>3. QED  BY <1>1, <1>9, <2>1, <2>2, BlocksSame
  <1>13. Accounted(E)
    <2>1. /\ \A b : b \in D.used <=> \E j \in Alloc(D) : b \in Blocks(D, j)
          /\ \A j, k \in Alloc(D) : \A b : b \in Blocks(D, j) /\ b \in Blocks(D, k) => j = k
      BY <1>1, AccountedIs
    <2>2. \A b : b \in E.used <=> \E j \in Alloc(E) : b \in Blocks(E, j)
      BY <1>9, <1>10, <1>11, <1>12, <2>1
    <2>3. \A j, k \in Alloc(E) : \A b : b \in Blocks(E, j) /\ b \in Blocks(E, k) => j = k
      BY <1>10, <1>11, <1>12, <2>1
    <2>4. QED  BY <2>2, <2>3, AccountedFrom
  <1>14. QED  BY <1>5, <1>9, <1>13 DEF DiskOK

-----------------------------------------------------------------------------
(* Pointers are counted, and what is locked and valid is what is on disk.   *)

\* Whoever points to a slot is counted.
LEMMA HoldsOne ==
    ASSUME NEW f, NEW s, NEW p \in Proc, f[p] = s
    PROVE  Holds(f, s) >= 1
  <1>1. IsFiniteSet({q \in Proc : f[q] = s}) /\ Holds(f, s) \in Nat  BY HoldsType
  <1>2. p \in {q \in Proc : f[q] = s}  OBVIOUS
  <1>3. Holds(f, s) # 0  BY <1>1, <1>2, FS_EmptySet DEF Holds
  <1>4. QED  BY <1>1, <1>3

\* p points to s: in a call, as its directory or file, or in an iput() to come.
Points(p, s) == \/ s \in {cur[p], ip[p], cwd[p], fd[p]}
                \/ \E k \in DOMAIN todo[p] : todo[p][k] = Put(s)

\* A slot that some process points to has a reference, so iget() does not recycle it.
LEMMA Counted1 ==
    ASSUME RefInv, NEW p \in Proc, NEW s \in Slot, Points(p, s)
    PROVE  itable[s].ref > 0
  <1>1. itable[s].ref = Holds(cur, s) + Holds(ip, s) + Holds(cwd, s) + Holds(fd, s)
                 + Holds(PutAt(1), s) + Holds(PutAt(2), s) + Holds(PutAt(3), s)
    BY DEF RefInv, RefsExact
  <1>2. /\ Holds(cur, s) \in Nat /\ Holds(ip, s) \in Nat /\ Holds(cwd, s) \in Nat
        /\ Holds(fd, s) \in Nat /\ Holds(PutAt(1), s) \in Nat /\ Holds(PutAt(2), s) \in Nat
        /\ Holds(PutAt(3), s) \in Nat
    BY HoldsType
  <1>3. /\ cur[p] = s => Holds(cur, s) >= 1
        /\ ip[p] = s => Holds(ip, s) >= 1
        /\ cwd[p] = s => Holds(cwd, s) >= 1
        /\ fd[p] = s => Holds(fd, s) >= 1
    BY HoldsOne
  <1>4. ASSUME NEW k \in DOMAIN todo[p], todo[p][k] = Put(s)
        PROVE  k \in {1, 2, 3} /\ Holds(PutAt(k), s) >= 1
    <2>1. todo[p] \in Todos  BY DEF RefInv, ProcTypes
    <2>2. k \in {1, 2, 3}  BY <2>1 DEF Todos
    <2>3. PutAt(k)[p] = s  BY <1>4 DEF PutAt, Put
    <2>4. QED  BY <2>2, <2>3, HoldsOne
  <1>5. QED  BY ONLY <1>1, <1>2, <1>3, <1>4, Points(p, s) DEF Points

\* The pointer of a call and an iput() to come are two references.
LEMMA Counted2 ==
    ASSUME RefInv, NEW p \in Proc, NEW q \in Proc, NEW s \in Slot, ip[q] = s,
           todo[p] # <<>>, Head(todo[p]) = Put(s)
    PROVE  itable[s].ref > 1
  <1>1. itable[s].ref = Holds(cur, s) + Holds(ip, s) + Holds(cwd, s) + Holds(fd, s)
                 + Holds(PutAt(1), s) + Holds(PutAt(2), s) + Holds(PutAt(3), s)
    BY DEF RefInv, RefsExact
  <1>2. /\ Holds(cur, s) \in Nat /\ Holds(ip, s) \in Nat /\ Holds(cwd, s) \in Nat
        /\ Holds(fd, s) \in Nat /\ Holds(PutAt(1), s) \in Nat /\ Holds(PutAt(2), s) \in Nat
        /\ Holds(PutAt(3), s) \in Nat
    BY HoldsType
  <1>3. Holds(ip, s) >= 1  BY HoldsOne
  <1>4. PutAt(1)[p] = s
    <2>1. todo[p] \in Todos  BY DEF RefInv, ProcTypes
    <2>2. 1 \in DOMAIN todo[p] /\ todo[p][1] = Put(s)  BY <2>1 DEF Todos
    <2>3. QED  BY <2>2 DEF PutAt, Put
  <1>5. Holds(PutAt(1), s) >= 1  BY <1>4, HoldsOne
  <1>6. QED  BY ONLY <1>1, <1>2, <1>3, <1>5

\* Who has a lock points to the inode.
LEMMA LockPoints ==
    ASSUME RefInv, NEW p \in Proc, Locks(p), NEW s \in Slot, Keeps(p, s) \/ Frees(p, s)
    PROVE  Points(p, s)
  <1>1. CASE pc[p] \in {"unlink2", "create2"} /\ s = cur[p]  BY <1>1 DEF Points
  <1>2. CASE pc[p] \in {"unlink3", "created"} /\ s = ip[p]  BY <1>2 DEF Points
  <1>3. ASSUME NEW k \in DOMAIN todo[p], todo[p][k] = Unlock(s) PROVE Points(p, s)
    <2>1. todo[p][k].do = "unlock" /\ todo[p][k].slot = s  BY <1>3 DEF Unlock
    <2>2. k + 1 \in DOMAIN todo[p] /\ todo[p][k + 1] = Put(s)  BY <2>1 DEF Locks
    <2>3. QED  BY <2>2 DEF Points
  <1>4. CASE Frees(p, s)
    <2>1. putting[p] # "no" /\ s = Head(todo[p]).slot  BY <1>4 DEF Frees, Todo
    <2>2. todo[p] # <<>> /\ Head(todo[p]).do = "put"  BY <2>1 DEF RefInv, Place
    <2>3. todo[p] \in Todos  BY DEF RefInv, ProcTypes
    <2>4. 1 \in DOMAIN todo[p] /\ todo[p][1] = Head(todo[p]) /\ Head(todo[p]) \in Task
      BY <2>2, <2>3 DEF Todos
    <2>5. Head(todo[p]) = Put(s)  BY <2>1, <2>2, <2>4 DEF Task, Put
    <2>6. QED  BY <2>4, <2>5 DEF Points
  <1>5. QED  BY <1>1, <1>2, <1>3, <1>4 DEF Keeps

\* ilock() finds the dinode, and iupdate() writes what is there.
LEMMA OwnIs ==
    ASSUME DiskInv, NEW s \in Slot, itable[s].ref > 0
    PROVE  /\ Ino(s) \in Inum /\ Loaded(s) = disk.inode[Ino(s)] /\ Own(disk, s) = disk
           /\ IsNode(Loaded(s)) /\ (Loaded(s).type # "none" => Ino(s) \in Alloc(disk))
  <1>1. Ino(s) \in Inum /\ Loaded(s) = disk.inode[Ino(s)]
    BY DEF DiskInv, Coherent, Loaded, Ino
  <1>2. IsDisk(disk)  BY DEF DiskInv, DiskOK
  <1>3. disk = Dsk(disk.inode, disk.ind, disk.used, disk.content)
        /\ disk.inode = [i \in Inum |-> disk.inode[i]]
    BY <1>2 DEF IsDisk
  <1>4. [disk.inode EXCEPT ![Ino(s)] = disk.inode[Ino(s)]] = disk.inode  BY <1>1, <1>3
  <1>5. [disk EXCEPT !.inode = disk.inode] = disk
    <2> DEFINE n == disk.inode
               b == disk.ind
               u == disk.used
               c == disk.content
    <2>1. disk = Dsk(n, b, u, c)  BY <1>3
    <2> HIDE DEF n, b, u, c
    <2>2. [Dsk(n, b, u, c) EXCEPT !.inode = n] = Dsk(n, b, u, c)  BY ONLY DskFields
    <2>3. [disk EXCEPT !.inode = n] = disk  BY ONLY <2>1, <2>2
    <2>4. QED  BY <2>3 DEF n
  <1>6. Own(disk, s) = disk
    <2>1. Own(disk, s) = [disk EXCEPT !.inode = [disk.inode EXCEPT ![Ino(s)] = Loaded(s)]]
      BY DEF Own, Ino
    <2>2. QED  BY <1>1, <1>4, <1>5, <2>1
  <1>7. IsNode(disk.inode[Ino(s)])  BY <1>1, <1>2 DEF IsDisk
  <1>8. QED  BY <1>1, <1>6, <1>7 DEF Alloc

\* dirlookup() finds an entry that is in use.
LEMMA DirlookupIs ==
    ASSUME NEW D, IsDisk(D), NEW i, i \in Inum, D.inode[i].type = "dir", NEW name,
           NEW k, k = Dirlookup(D, i, name)
    PROVE  /\ k \in Nat
           /\ k # 0 => /\ k \in 1..Len(D.content[i]) /\ D.content[i][k].inum \in Inum
                       /\ D.content[i][k].name = name
           /\ k = 0 => \A m \in 1..Len(D.content[i]) :
                          D.content[i][m].inum = 0 \/ D.content[i][m].name # name
  <1> DEFINE c == D.content[i]
             at == {m \in DOMAIN c : c[m].inum # 0 /\ c[m].name = name}
  <1>1. c \in Seq(Entry)  BY DEF IsDisk, IsContent
  <1>2. DOMAIN c = 1..Len(c) /\ Len(c) \in Nat  BY <1>1
  <1>3. \A m \in 1..Len(c) : c[m].inum \in 0..(ninodes - 1)
    <2>1. \A m \in 1..Len(c) : c[m] \in Entry  BY <1>1
    <2>2. \A e \in Entry : e.inum \in 0..(ninodes - 1)  BY DEF Entry
    <2>3. QED  BY ONLY <2>1, <2>2
  <1>4. at \subseteq Nat  BY <1>2
  <1>5. k = IF at = {} THEN 0 ELSE Least(at)  BY DEF Dirlookup
  <1>6. CASE at = {}
    <2>1. k = 0  BY <1>5, <1>6
    <2>2. QED  BY <1>2, <1>6, <2>1
  <1>7. CASE at # {}
    <2>1. k \in at  BY <1>4, <1>5, <1>7, LeastIs
    <2>2. k \in 1..Len(c) /\ c[k].inum # 0 /\ c[k].name = name  BY <1>2, <2>1
    <2>3. c[k].inum \in Inum
      <3>1. ninodes \in Nat  BY InodeAssumption DEF InodeAssumption
      <3>2. \A j \in 0..(ninodes - 1) : j # 0 => j \in Inum  BY <3>1 DEF Inum
      <3>3. QED  BY ONLY <1>3, <2>2, <3>2
    <2>4. k # 0 /\ k \in Nat  BY <1>2, <2>2
    <2>5. QED  BY <2>2, <2>3, <2>4
  <1>8. QED  BY <1>6, <1>7

\* dirlink() looks for an entry that is not in use, or takes the place at the end.
LEMMA EmptyEntryIs ==
    ASSUME NEW D, IsDisk(D), NEW i, i \in Inum, D.inode[i].type = "dir",
           NEW k, k = EmptyEntry(D, i)
    PROVE  /\ k \in 1..(Len(D.content[i]) + 1)
           /\ k \in 1..Len(D.content[i]) => D.content[i][k].inum = 0
  <1> DEFINE c == D.content[i]
             at == {m \in DOMAIN c : c[m].inum = 0} \cup {Len(c) + 1}
  <1>1. c \in Seq(Entry)  BY DEF IsDisk, IsContent
  <1>2. DOMAIN c = 1..Len(c) /\ Len(c) \in Nat  BY <1>1
  <1>3. at \subseteq Nat /\ at # {}  BY <1>2
  <1>4. k \in at  BY <1>3, LeastIs DEF EmptyEntry
  <1>5. QED  BY <1>2, <1>4

\* dirlink()
LEMMA DirlinkIs ==
    ASSUME NEW D, DiskOK(D), NEW i, i \in Inum, D.inode[i].type = "dir",
           NEW name, name \in EntryNames, NEW inum, inum \in Inum,
           NEW W, W = Dirlink(D, i, name, inum)
    PROVE  DiskOK(W.disk) /\ Writes(D, W.disk, i)
  <1>1. i \in Alloc(D) /\ IsDisk(D)  BY DEF Alloc, DiskOK
  <1>2. CASE Dirlookup(D, i, name) # 0
    <2>1. PICK no : no = FALSE  OBVIOUS
    <2>2. W = Res(D, no)  BY <1>2, <2>1, Zenon DEF Dirlink, Res
    <2>3. W.disk = D  BY <2>2, ResFields
    <2>4. QED  BY <2>3 DEF Writes
  <1>3. CASE Dirlookup(D, i, name) = 0
    <2>1. PICK off : off = EmptyEntry(D, i) - 1  OBVIOUS
    <2>2. EmptyEntry(D, i) \in 1..(Len(D.content[i]) + 1)  BY <1>1, EmptyEntryIs
    <2>3. off \in Nat
      <3>1. D.content[i] \in Seq(Entry)  BY <1>1 DEF IsDisk, IsContent
      <3>2. Len(D.content[i]) \in Nat  BY <3>1
      <3>3. QED  BY ONLY <2>1, <2>2, <3>2
    <2> DEFINE x == [name |-> name, inum |-> inum]
    <2>4. x \in Entry  BY InodeAssumption DEF Entry, Inum, InodeAssumption
    <2>5. W = Writei(D, i, off, x)  BY <1>3, <2>1 DEF Dirlink
    <2> HIDE DEF x
    <2>6. IsUnit(D.inode[i].type, x)  BY <2>4 DEF IsUnit
    <2>7. DiskOK(D)  OBVIOUS
    <2>8. QED  BY ONLY <1>1, <2>3, <2>5, <2>6, <2>7, WriteiIs
  <1>4. QED  BY <1>2, <1>3
-----------------------------------------------------------------------------
(* What a step of one process does to the others: nothing.                  *)

\* Who points to a slot is counted in the next state, too.
LEMMA CountedAll ==
    RefInv => \A p \in Proc, s \in Slot : Points(p, s) => itable[s].ref > 0
  BY Counted1

\* The same of the state that a step reaches.
LEMMA CountedNext ==
    RefInv' => \A p \in Proc, s \in Slot : Points(p, s)' => itable'[s].ref > 0
  <1>1. (RefInv => \A p \in Proc, s \in Slot : Points(p, s) => itable[s].ref > 0)'
    BY CountedAll, PTL
  <1>2. QED  BY <1>1

\* A step of p that locks, reads or writes the inodes of the slots S:
\*  - nobody else has their locks, and no other allocated inode changes;
\*  - entries of itable keep their i-number, and copies not in S stay; those of S
\*    become the dinodes; a type changes when p frees the inode;
\*  - an entry that is taken is for an inode that had none;
\*  - locks of others stay, and p frees an inode only as its last reference.
Step(p, S) ==
    /\ Only(p) /\ S \subseteq Slot
    /\ \A s \in S : itable[s].ref > 0 /\ holder[s] \in {None, p}
    /\ \A i \in Inum : disk.inode[i].type # "none" /\ (\A s \in S : Ino(s) # i)
          => disk'.inode[i] = disk.inode[i] /\ disk'.content[i] = disk.content[i]
    /\ \A t \in Slot : itable[t].ref > 0 /\ itable'[t].ref > 0
          => /\ itable'[t].inum = itable[t].inum
             /\ t \notin S => /\ itable'[t].valid <=> itable[t].valid
                             /\ itable'[t].ino = itable[t].ino
    /\ \A s \in S : itable'[s].valid => /\ itable'[s].ino = disk'.inode[Ino(s)]
                                        /\ disk'.inode[Ino(s)].type # "none"
    /\ \A s \in S : Frees(p, s) \/ disk'.inode[Ino(s)].type = disk.inode[Ino(s)].type
    /\ \A t \in Slot : itable[t].ref = 0 /\ itable'[t].ref > 0
          => /\ itable'[t].inum \in Inum /\ ~itable'[t].valid
             /\ \A u \in Slot : /\ itable[u].ref > 0 => Ino(u) # itable'[t].inum
                                /\ itable[u].ref = 0 /\ itable'[u].ref > 0 => u = t
    /\ \A s \in Slot : \A q \in Proc : q # p => (holder'[s] = q <=> holder[s] = q)
    /\ \A s \in Slot : Frees(p, s)' => \/ Frees(p, s)
                                       \/ /\ todo[p] # <<>> /\ Head(todo[p]) = Put(s)
                                          /\ itable[s].ref = 1

\* Another process keeps what it has locked.
LEMMA StepOthers ==
    ASSUME DiskInv, NEW p \in Proc, NEW S, Step(p, S), RefInv', NEW q \in Proc, q # p
    PROVE  Locks(q)' /\ Stage(q)'
  <1>1. /\ pc'[q] = pc[q] /\ call'[q] = call[q] /\ rest'[q] = rest[q] /\ cur'[q] = cur[q]
        /\ ip'[q] = ip[q] /\ cwd'[q] = cwd[q] /\ fd'[q] = fd[q]
        /\ todo'[q] = todo[q] /\ putting'[q] = putting[q]
    BY DEF Step, Only
  <1>2. \A s : /\ Keeps(q, s)' <=> Keeps(q, s)
               /\ Frees(q, s)' <=> Frees(q, s)
               /\ Points(q, s)' <=> Points(q, s)
    BY <1>1 DEF Keeps, Frees, Points, Todo
  <1>3. RefInv /\ Locks(q) /\ Stage(q) /\ Coherent(itable, disk) /\ None \notin Proc
    BY FsAssumption DEF DiskInv, FsAssumption
  <1>4. Locks(q)'
    <2>1. \A s \in Slot : holder'[s] = q <=> holder[s] = q  BY DEF Step
    <2>2. QED  BY <1>1, <1>2, <1>3, <2>1 DEF Locks
  <1>5. ASSUME NEW s \in Slot, Points(q, s)
        PROVE  /\ itable[s].ref > 0 /\ itable'[s].ref > 0
               /\ itable[s].inum \in Inum /\ itable'[s].inum = itable[s].inum
    <2>1. itable[s].ref > 0  BY <1>3, <1>5, Counted1
    <2>2. itable'[s].ref > 0  BY <1>2, <1>5, CountedNext
    <2>3. QED  BY <1>3, <2>1, <2>2 DEF Step, Coherent
  <1>6. ASSUME NEW s \in Slot, holder[s] = q, itable[s].valid
        PROVE  /\ itable'[s].valid /\ itable'[s].inum = itable[s].inum
               /\ disk'.inode[itable[s].inum].type = disk.inode[itable[s].inum].type
               /\ disk'.content[itable[s].inum] = disk.content[itable[s].inum]
    <2>1. Points(q, s)  BY <1>3, <1>6, LockPoints DEF Locks
    <2>2. /\ itable[s].ref > 0 /\ itable'[s].ref > 0
          /\ itable[s].inum \in Inum /\ itable'[s].inum = itable[s].inum
      BY <1>5, <2>1
    <2>3. s \notin S  BY <1>3, <1>6 DEF Step
    <2>4. disk.inode[itable[s].inum].type # "none"  BY <1>3, <1>6, <2>2 DEF Coherent
    <2>5. \A t \in S : Ino(t) # itable[s].inum
      BY <1>3, <2>2, <2>3 DEF Step, Coherent, Ino
    <2>6. QED  BY <1>6, <2>2, <2>3, <2>4, <2>5 DEF Step
  <1>7. cur[q] # 0 => cur[q] \in Slot  BY <1>3, PlaceFacts
  <1>8. ip[q] # 0 => ip[q] \in Slot  BY <1>3, PlaceFacts
  <1>9. Place(q) /\ Made(q) /\ ProcTypes  BY <1>3, PlaceFacts
  <1>10. ASSUME pc[q] \in {"unlink2", "create2"}
         PROVE  /\ itable'[cur[q]].valid /\ itable'[cur[q]].inum = itable[cur[q]].inum
                /\ disk'.inode[itable[cur[q]].inum].type = "dir"
                /\ disk'.content[itable[cur[q]].inum] = disk.content[itable[cur[q]].inum]
    <2>1. cur[q] \in Slot  BY <1>7, <1>9, <1>10 DEF Place
    <2>2. holder[cur[q]] = q  BY <1>3, <1>10, <2>1 DEF Locks, Keeps
    <2>3. itable[cur[q]].valid /\ disk.inode[itable[cur[q]].inum].type = "dir"
      BY <1>3, <1>10 DEF Stage, Ino
    <2>4. QED  BY <1>6, <2>1, <2>2, <2>3
  <1>11. ASSUME pc[q] = "unlink2"
         PROVE  Dirlookup(disk', itable'[cur[q]].inum, Elem(rest[q])) # 0
    <2>1. Dirlookup(disk, itable[cur[q]].inum, Elem(rest[q])) # 0
      BY <1>3, <1>11 DEF Stage, Ino
    <2>2. QED  BY <1>10, <1>11, <2>1 DEF Dirlookup
  <1>12. ASSUME pc[q] = "create2"
         PROVE  /\ disk'.inode[itable'[ip[q]].inum].type = Type(q)
                /\ \A r \in Proc : ~Frees(r, ip[q])'
    <2>1. ip[q] \in Slot  BY <1>8, <1>9, <1>12 DEF Place
    <2>2. /\ itable[ip[q]].ref > 0 /\ itable'[ip[q]].ref > 0
          /\ itable[ip[q]].inum \in Inum /\ itable'[ip[q]].inum = itable[ip[q]].inum
      BY <1>5, <2>1 DEF Points
    <2>3. disk.inode[itable[ip[q]].inum].type = Type(q) /\ \A r \in Proc : ~Frees(r, ip[q])
      BY <1>3, <1>12 DEF Stage, Ino
    <2>4. Type(q) # "none"  BY <1>9, <1>12 DEF Made, Makes, Type
    <2>5. disk'.inode[itable[ip[q]].inum].type = Type(q)
      <3>1. CASE \E s \in S : Ino(s) = itable[ip[q]].inum
        <4>1. PICK s \in S : Ino(s) = itable[ip[q]].inum  BY <3>1
        <4>2. s = ip[q]  BY <1>3, <2>1, <2>2, <4>1 DEF Step, Coherent, Ino
        <4>3. QED  BY <2>3, <4>1, <4>2 DEF Step, Ino
      <3>2. CASE \A s \in S : Ino(s) # itable[ip[q]].inum
        BY <2>2, <2>3, <2>4, <3>2 DEF Step
      <3>3. QED  BY <3>1, <3>2
    <2>6. ASSUME NEW r \in Proc, Frees(r, ip[q])' PROVE FALSE
      <3>1. CASE r = p
        <4>1. /\ todo[p] # <<>> /\ Head(todo[p]) = Put(ip[q]) /\ itable[ip[q]].ref = 1
          <5>1. PICK s \in Slot : s = ip[q]  BY <2>1
          <5>2. Frees(p, s)'  BY <1>1, <2>6, <3>1, <5>1 DEF Frees
          <5>3. ~Frees(p, s)  BY <2>3, <5>1
          <5>4. QED  BY <5>1, <5>2, <5>3 DEF Step
        <4>2. itable[ip[q]].ref > 1  BY <1>3, <2>1, <4>1, Counted2
        <4>3. QED  BY <4>1, <4>2
      <3>2. CASE r # p
        <4>1. putting'[r] = putting[r] /\ todo'[r] = todo[r]  BY <3>2 DEF Step, Only
        <4>2. Frees(r, ip[q])  BY <1>1, <2>6, <4>1 DEF Frees, Todo
        <4>3. QED  BY <2>3, <4>2
      <3>3. QED  BY <3>1, <3>2
    <2>7. QED  BY <2>2, <2>5, <2>6
  <1>13. ASSUME pc[q] = "unlink3" PROVE itable'[ip[q]].valid
    <2>1. ip[q] \in Slot  BY <1>8, <1>9, <1>13 DEF Place
    <2>2. holder[ip[q]] = q /\ itable[ip[q]].valid  BY <1>3, <1>13, <2>1 DEF Locks, Keeps, Stage
    <2>3. QED  BY <1>6, <2>1, <2>2
  <1>14. ASSUME putting[q] = "free" PROVE itable'[Todo(q)].valid
    <2>1. Todo(q) \in Slot
      <3>1. todo[q] \in Todos /\ todo[q] # <<>>  BY <1>9, <1>14 DEF ProcTypes, Place
      <3>2. Head(todo[q]) \in Task  BY <3>1 DEF Todos
      <3>3. QED  BY <3>2 DEF Todo, Task
    <2>2. holder[Todo(q)] = q /\ itable[Todo(q)].valid
      BY <1>3, <1>14, <2>1 DEF Locks, Frees, Stage
    <2>3. QED  BY <1>6, <2>1, <2>2
  <1>15. Stage(q)'
    <2>1. Type(q)' = Type(q) /\ Todo(q)' = Todo(q)  BY <1>1 DEF Type, Todo
    <2>2. pc'[q] \in {"unlink2", "create2"}
            => itable'[cur'[q]].valid /\ disk'.inode[itable'[cur'[q]].inum].type = "dir"
      BY <1>1, <1>10
    <2>3. pc'[q] = "unlink2" => Dirlookup(disk', itable'[cur'[q]].inum, Elem(rest'[q])) # 0
      BY <1>1, <1>11
    <2>4. pc'[q] = "create2" => /\ disk'.inode[itable'[ip'[q]].inum].type = Type(q)
                                /\ \A r \in Proc : ~Frees(r, ip[q])'
      BY <1>1, <1>12
    <2>5. /\ pc'[q] = "unlink3" => itable'[ip'[q]].valid
          /\ putting'[q] = "free" => itable'[Todo(q)].valid
      BY <1>1, <1>13, <1>14
    <2>6. QED  BY <1>1, <2>1, <2>2, <2>3, <2>4, <2>5 DEF Stage, Ino, Frees, Dirlookup
  <1>16. QED  BY <1>4, <1>15

\* The copies stay those of the dinodes.
LEMMA StepCoherent ==
    ASSUME DiskInv, NEW p \in Proc, NEW S, Step(p, S), RefInv'
    PROVE  Coherent(itable', disk')
  <1>1. Coherent(itable, disk)  BY DEF DiskInv
  <1>2. \A t \in Slot : itable[t].ref \in Nat  BY DEF DiskInv, RefInv, IsTable
  <1>3. ASSUME NEW t \in Slot, itable'[t].ref > 0
        PROVE  /\ itable'[t].inum \in Inum
               /\ itable'[t].valid => /\ itable'[t].ino = disk'.inode[itable'[t].inum]
                                      /\ disk'.inode[itable'[t].inum].type # "none"
    <2>1. CASE itable[t].ref = 0  BY <1>3, <2>1 DEF Step
    <2>2. CASE itable[t].ref > 0
      <3>1. itable[t].inum \in Inum /\ itable'[t].inum = itable[t].inum
        BY <1>1, <1>3, <2>2 DEF Step, Coherent
      <3>2. CASE t \in S  BY <3>1, <3>2 DEF Step, Ino
      <3>3. CASE t \notin S /\ itable'[t].valid
        <4>1. itable[t].valid /\ itable'[t].ino = itable[t].ino  BY <1>3, <2>2, <3>3 DEF Step
        <4>2. itable[t].ino = disk.inode[itable[t].inum] /\ disk.inode[itable[t].inum].type # "none"
          BY <1>1, <2>2, <4>1 DEF Coherent
        <4>3. \A s \in S : Ino(s) # itable[t].inum
          BY <1>1, <2>2, <3>3 DEF Step, Coherent, Ino
        <4>4. disk'.inode[itable[t].inum] = disk.inode[itable[t].inum]
          BY <3>1, <4>2, <4>3 DEF Step
        <4>5. QED  BY <3>1, <4>1, <4>2, <4>4
      <3>4. QED  BY <3>1, <3>2, <3>3
    <2>3. QED  BY <1>2, <2>1, <2>2
  <1>4. ASSUME NEW s \in Slot, NEW t \in Slot, itable'[s].ref > 0, itable'[t].ref > 0,
               itable'[s].inum = itable'[t].inum
        PROVE  s = t
    <2>1. CASE itable[s].ref = 0 /\ itable[t].ref = 0  BY <1>4, <2>1 DEF Step
    <2>2. CASE itable[s].ref > 0 /\ itable[t].ref > 0
      <3>1. itable[s].inum = itable[t].inum  BY <1>4, <2>2 DEF Step
      <3>2. QED  BY <1>1, <2>2, <3>1 DEF Coherent
    <2>3. CASE itable[s].ref > 0 /\ itable[t].ref = 0
      <3>1. Ino(s) # itable'[t].inum  BY <1>4, <2>3 DEF Step
      <3>2. itable'[s].inum = itable[s].inum  BY <1>4, <2>3 DEF Step
      <3>3. QED  BY <1>4, <3>1, <3>2 DEF Ino
    <2>4. CASE itable[s].ref = 0 /\ itable[t].ref > 0
      <3>1. Ino(t) # itable'[s].inum  BY <1>4, <2>4 DEF Step
      <3>2. itable'[t].inum = itable[t].inum  BY <1>4, <2>4 DEF Step
      <3>3. QED  BY <1>4, <3>1, <3>2 DEF Ino
    <2>5. QED  BY <1>2, <2>1, <2>2, <2>3, <2>4
  <1>5. QED  BY <1>3, <1>4 DEF Coherent

\* So what is left to show of a step is what it does to the disk and to p.
LEMMA DiskStep ==
    ASSUME DiskInv, NEW p \in Proc, NEW S, Step(p, S), RefInv', DiskOK(disk'),
           Locks(p)', Stage(p)'
    PROVE  DiskInv'
  <1>1. ASSUME NEW q \in Proc PROVE Locks(q)' /\ Stage(q)'
    <2>1. CASE q = p  BY <2>1
    <2>2. CASE q # p  BY <2>2, StepOthers
    <2>3. QED  BY <2>1, <2>2
  <1>2. Coherent(itable', disk')  BY StepCoherent
  <1>3. QED  BY <1>1, <1>2 DEF DiskInv
-----------------------------------------------------------------------------
(* The kinds of step.                                                       *)

\* p takes and releases locks that nobody else has, and frees no inode.
Quiet(p) ==
    /\ Only(p) /\ putting'[p] # "free"
    /\ \A s \in Slot : \A q \in Proc : q # p => (holder'[s] = q <=> holder[s] = q)

\* What p may lock: inodes it points to that nobody else has locked.
Mine(p, s) == s \in Slot /\ itable[s].ref > 0 /\ holder[s] \in {None, p}

\* Only inode i is written, and keeps its type.
Wrote(i) ==
    /\ \A j \in Inum : j # i /\ disk.inode[j].type # "none"
          => disk'.inode[j] = disk.inode[j] /\ disk'.content[j] = disk.content[j]
    /\ disk'.inode[i].type = disk.inode[i].type

\* p reads and writes nothing.
LEMMA StepKeep ==
    ASSUME DiskInv, NEW p \in Proc, Quiet(p), disk' = disk, itable' = itable
    PROVE  Step(p, {})
  BY DEF Quiet, Step, Frees

\* ilock() of s, and perhaps a write.
LEMMA StepLoad ==
    ASSUME DiskInv, NEW p \in Proc, Quiet(p), NEW s, Mine(p, s), Wrote(Ino(s)),
           NEW n, itable' = Load(itable, s, n), n = disk'.inode[Ino(s)],
           disk.inode[Ino(s)].type # "none"
    PROVE  Step(p, {s})
  <1>1. IsTable(itable) /\ s \in Slot  BY DEF DiskInv, RefInv, Mine
  <1>2. /\ \A t \in Slot : /\ itable'[t].inum = itable[t].inum /\ itable'[t].ref = itable[t].ref
                           /\ t # s => /\ itable'[t].valid = itable[t].valid
                                       /\ itable'[t].ino = itable[t].ino
        /\ itable'[s].valid /\ itable'[s].ino = n
    BY <1>1, LoadIs
  <1>3. \A t \in Slot : itable[t].ref \in Nat  BY <1>1 DEF IsTable
  <1>4. disk'.inode[Ino(s)].type # "none"  BY DEF Wrote
  <1>5. \A t \in Slot : ~(itable[t].ref = 0 /\ itable'[t].ref > 0)  BY <1>2, <1>3
  <1>6. QED  BY <1>1, <1>2, <1>4, <1>5 DEF Quiet, Step, Frees, Mine, Wrote

\* iget() of i, an entry of T, which differs from itable in valid copies only.
LEMMA IgetTable ==
    ASSUME DiskInv, NEW T, IsTable(T), NEW i, i \in Inum, ~NoSlot(i),
           \A t \in Slot : T[t].ref = itable[t].ref /\ T[t].inum = itable[t].inum,
           NEW I, I = Iget(T, i)
    PROVE  /\ IgetSlot(i) \in Slot /\ I[IgetSlot(i)].inum = i /\ I[IgetSlot(i)].ref > 0
           /\ \A t \in Slot : /\ itable[t].ref > 0 => /\ I[t].inum = itable[t].inum
                                                      /\ I[t].valid <=> T[t].valid
                                                      /\ I[t].ino = T[t].ino
                              /\ itable[t].ref = 0 /\ I[t].ref > 0
                                   => /\ t = IgetSlot(i) /\ I[t].inum = i /\ ~I[t].valid
                                      /\ \A u \in Slot : itable[u].ref > 0 => Ino(u) # i
  <1> DEFINE r == IgetSlot(i)
  <1>1. IsTable(itable)  BY DEF DiskInv, RefInv
  <1>2. /\ IsTable(Iget(T, i)) /\ IgetSlot(i) \in Slot
        /\ IF Entries(i) = {} THEN itable[IgetSlot(i)].ref = 0 /\ ~Iget(T, i)[IgetSlot(i)].valid
           ELSE /\ IgetSlot(i) \in Entries(i)
                /\ Iget(T, i)[IgetSlot(i)].valid = T[IgetSlot(i)].valid
        /\ Iget(T, i)[IgetSlot(i)].inum = i
        /\ \A t \in Slot : /\ Iget(T, i)[t].ref = itable[t].ref + Is(IgetSlot(i), t)
                           /\ Iget(T, i)[t].ino = T[t].ino
                           /\ t # IgetSlot(i) => /\ Iget(T, i)[t].inum = itable[t].inum
                                                 /\ Iget(T, i)[t].valid = T[t].valid
    BY <1>1, IgetIs
  <1>3. /\ r \in Slot /\ I[r].inum = i
        /\ Entries(i) = {} => itable[r].ref = 0 /\ ~I[r].valid
        /\ Entries(i) # {} => r \in Entries(i) /\ I[r].valid = T[r].valid
        /\ \A t \in Slot : /\ I[t].ref = itable[t].ref + Is(r, t)
                           /\ I[t].ino = T[t].ino
                           /\ t # r => I[t].inum = itable[t].inum /\ I[t].valid = T[t].valid
    BY <1>2
  <1> HIDE DEF r
  <1>4. \A t \in Slot : itable[t].ref \in Nat  BY <1>1 DEF IsTable
  <1>5. I[r].ref > 0  BY <1>3, <1>4 DEF Is
  <1>6. ASSUME NEW t \in Slot, itable[t].ref > 0
        PROVE  I[t].inum = itable[t].inum /\ (I[t].valid <=> T[t].valid) /\ I[t].ino = T[t].ino
    <2>1. CASE t # r  BY <1>3, <2>1
    <2>2. CASE t = r
      <3>1. Entries(i) # {}  BY <1>3, <1>6, <2>2
      <3>2. r \in Entries(i)  BY <1>3, <3>1
      <3>3. itable[r].inum = i  BY <3>2 DEF Entries
      <3>4. QED  BY <1>3, <2>2, <3>1, <3>3
    <2>3. QED  BY <2>1, <2>2
  <1>7. ASSUME NEW t \in Slot, itable[t].ref = 0, I[t].ref > 0
        PROVE  /\ t = r /\ I[t].inum = i /\ ~I[t].valid
               /\ \A u \in Slot : itable[u].ref > 0 => Ino(u) # i
    <2>1. t = r
      <3>1. t # r => Is(r, t) = 0  BY DEF Is
      <3>2. QED  BY <1>3, <1>7, <3>1
    <2>2. r \notin Entries(i)  BY <1>7, <2>1 DEF Entries
    <2>3. Entries(i) = {}  BY <1>3, <2>2
    <2>4. \A u \in Slot : itable[u].ref > 0 => Ino(u) # i  BY <2>3 DEF Entries, Ino
    <2>5. QED  BY <1>3, <2>1, <2>3, <2>4
  <1>8. QED  BY <1>3, <1>5, <1>6, <1>7 DEF r

\* iget() alone
LEMMA StepIget ==
    ASSUME DiskInv, NEW p \in Proc, Quiet(p), disk' = disk, NEW i, i \in Inum, ~NoSlot(i),
           itable' = Iget(itable, i)
    PROVE  Step(p, {})
  <1>1. IsTable(itable)  BY DEF DiskInv, RefInv
  <1>2. \A t \in Slot : /\ itable[t].ref > 0 => /\ itable'[t].inum = itable[t].inum
                                                /\ itable'[t].valid <=> itable[t].valid
                                                /\ itable'[t].ino = itable[t].ino
                        /\ itable[t].ref = 0 /\ itable'[t].ref > 0
                             => /\ t = IgetSlot(i) /\ itable'[t].inum = i /\ ~itable'[t].valid
                                /\ \A u \in Slot : itable[u].ref > 0 => Ino(u) # i
    BY <1>1, IgetTable
  <1>3. QED  BY <1>2 DEF Quiet, Step, Frees

\* idup(), and iput() when it only drops the reference
LEMMA StepRef ==
    ASSUME DiskInv, NEW p \in Proc, Quiet(p), disk' = disk,
           \A t \in Slot : itable'[t].ref > 0 =>
               /\ itable[t].ref > 0 /\ itable'[t].inum = itable[t].inum
               /\ itable'[t].valid = itable[t].valid /\ itable'[t].ino = itable[t].ino
    PROVE  Step(p, {})
  BY DEF Quiet, Step, Frees

\* Every allocated inode is as it was.
AllocKept == \A j \in Inum : disk.inode[j].type # "none"
    => disk'.inode[j] = disk.inode[j] /\ disk'.content[j] = disk.content[j]

\* iget() has an entry for i.
Got(i) == IgetSlot(i) \in Slot /\ itable'[IgetSlot(i)].inum = i

\* ilock() of s and iget() of i, which may be allocated in the same step
LEMMA StepLoadIget ==
    ASSUME DiskInv, NEW p \in Proc, Quiet(p), NEW s, Mine(p, s), NEW i, i \in Inum, ~NoSlot(i),
           itable' = Iget(Load(itable, s, Loaded(s)), i),
           disk.inode[Ino(s)].type # "none", AllocKept
    PROVE  /\ Step(p, {s}) /\ itable'[s].valid /\ itable'[s].inum = itable[s].inum
           /\ Got(i)
  <1> DEFINE T == Load(itable, s, Loaded(s))
  <1>1. IsTable(itable) /\ s \in Slot /\ itable[s].ref > 0  BY DEF DiskInv, RefInv, Mine
  <1>2. /\ IsTable(T)
        /\ \A t \in Slot : /\ T[t].inum = itable[t].inum /\ T[t].ref = itable[t].ref
                           /\ t # s => T[t].valid = itable[t].valid /\ T[t].ino = itable[t].ino
        /\ T[s].valid /\ T[s].ino = Loaded(s)
    BY <1>1, LoadIs
  <1> HIDE DEF T
  <1>3. itable' = Iget(T, i)  BY DEF T
  <1>4. /\ IgetSlot(i) \in Slot /\ itable'[IgetSlot(i)].inum = i
        /\ \A t \in Slot : /\ itable[t].ref > 0 => /\ itable'[t].inum = itable[t].inum
                                                   /\ itable'[t].valid <=> T[t].valid
                                                   /\ itable'[t].ino = T[t].ino
                           /\ itable[t].ref = 0 /\ itable'[t].ref > 0
                                => /\ t = IgetSlot(i) /\ itable'[t].inum = i /\ ~itable'[t].valid
                                   /\ \A u \in Slot : itable[u].ref > 0 => Ino(u) # i
    BY <1>2, <1>3, IgetTable
  <1>5. Ino(s) \in Inum /\ Loaded(s) = disk.inode[Ino(s)]  BY <1>1, OwnIs
  <1>6. disk'.inode[Ino(s)] = disk.inode[Ino(s)]  BY <1>5 DEF AllocKept
  <1>7. itable'[s].valid /\ itable'[s].ino = disk'.inode[Ino(s)] /\ itable'[s].inum = itable[s].inum
    BY <1>1, <1>2, <1>4, <1>5, <1>6
  <1>8. \A t \in Slot : itable[t].ref > 0 /\ itable'[t].ref > 0
          => /\ itable'[t].inum = itable[t].inum
             /\ t \notin {s} => /\ itable'[t].valid <=> itable[t].valid
                               /\ itable'[t].ino = itable[t].ino
    BY <1>2, <1>4
  <1>9. Step(p, {s})  BY <1>1, <1>4, <1>6, <1>7, <1>8 DEF Quiet, Step, Frees, Mine, AllocKept
  <1>10. QED  BY <1>4, <1>7, <1>9 DEF Got

\* Only the inodes i and j are written, and keep their types.
Wrote2(i, j) ==
    /\ \A k \in Inum : k # i /\ k # j
          => disk'.inode[k] = disk.inode[k] /\ disk'.content[k] = disk.content[k]
    /\ disk'.inode[i].type = disk.inode[i].type /\ disk'.inode[j].type = disk.inode[j].type

\* Two inodes are locked and written.
LEMMA StepLoadTwice ==
    ASSUME DiskInv, NEW p \in Proc, Quiet(p), NEW s, Mine(p, s), NEW d, Mine(p, d), s # d,
           NEW n, NEW m, itable' = Load(Load(itable, s, n), d, m),
           n = disk'.inode[Ino(s)], m = disk'.inode[Ino(d)],
           disk.inode[Ino(s)].type # "none", disk.inode[Ino(d)].type # "none",
           Wrote2(Ino(s), Ino(d))
    PROVE  /\ Step(p, {s, d}) /\ itable'[s].valid /\ itable'[d].valid
           /\ itable'[s].inum = itable[s].inum /\ itable'[d].inum = itable[d].inum
  <1> DEFINE T == Load(itable, s, n)
  <1>1. IsTable(itable) /\ s \in Slot /\ d \in Slot  BY DEF DiskInv, RefInv, Mine
  <1>2. /\ IsTable(T)
        /\ \A t \in Slot : /\ T[t].inum = itable[t].inum /\ T[t].ref = itable[t].ref
                           /\ t # s => T[t].valid = itable[t].valid /\ T[t].ino = itable[t].ino
        /\ T[s].valid /\ T[s].ino = n
    BY <1>1, LoadIs
  <1> HIDE DEF T
  <1>3. itable' = Load(T, d, m)  BY DEF T
  <1>4. /\ \A t \in Slot : /\ itable'[t].inum = T[t].inum /\ itable'[t].ref = T[t].ref
                           /\ t # d => itable'[t].valid = T[t].valid /\ itable'[t].ino = T[t].ino
        /\ itable'[d].valid /\ itable'[d].ino = m
    BY <1>1, <1>2, <1>3, LoadIs
  <1>5. /\ itable'[s].valid /\ itable'[d].valid /\ itable'[s].ino = n /\ itable'[d].ino = m
        /\ \A t \in Slot : /\ itable'[t].inum = itable[t].inum /\ itable'[t].ref = itable[t].ref
                           /\ t # s /\ t # d => /\ itable'[t].valid = itable[t].valid
                                                /\ itable'[t].ino = itable[t].ino
    BY <1>1, <1>2, <1>4
  <1>6. \A t \in Slot : itable[t].ref \in Nat  BY <1>1 DEF IsTable
  <1>7. \A t \in Slot : ~(itable[t].ref = 0 /\ itable'[t].ref > 0)  BY <1>5, <1>6
  <1>8. /\ {s, d} \subseteq Slot
        /\ \A t \in {s, d} : itable[t].ref > 0 /\ holder[t] \in {None, p}
    BY <1>1 DEF Mine
  <1>9. /\ \A i \in Inum : disk.inode[i].type # "none" /\ (\A t \in {s, d} : Ino(t) # i)
              => disk'.inode[i] = disk.inode[i] /\ disk'.content[i] = disk.content[i]
        /\ \A t \in {s, d} : disk'.inode[Ino(t)].type = disk.inode[Ino(t)].type
    BY DEF Wrote2
  <1>10. \A t \in {s, d} : itable'[t].valid => /\ itable'[t].ino = disk'.inode[Ino(t)]
                                               /\ disk'.inode[Ino(t)].type # "none"
    BY <1>5, <1>9
  <1>11. \A t \in Slot : ~Frees(p, t)'  BY DEF Quiet, Frees
  <1>12. Step(p, {s, d})
    <2>1. PICK S : S = {s, d}  OBVIOUS
    <2>2. \A t \in Slot : itable[t].ref > 0 /\ itable'[t].ref > 0
            => /\ itable'[t].inum = itable[t].inum
               /\ t \notin S => /\ itable'[t].valid <=> itable[t].valid
                               /\ itable'[t].ino = itable[t].ino
      BY <1>5, <2>1
    <2>3. Step(p, S)  BY ONLY <1>7, <1>8, <1>9, <1>10, <1>11, <2>1, <2>2, Quiet(p) DEF Quiet, Step
    <2>4. QED  BY <2>1, <2>3
  <1>13. QED  BY <1>1, <1>5, <1>12
-----------------------------------------------------------------------------
(* What a step does to the process that takes it.                           *)

Locking == {"unlink2", "create2", "unlink3", "created"}
Puts(t) == \A k \in DOMAIN t : t[k].do = "put"

\* The lists of iput() calls.
LEMMA PutsLists ==
    ASSUME NEW a, NEW b
    PROVE  Puts(<<>>) /\ Puts(<<Put(a)>>) /\ Puts(<<Put(a), Put(b)>>)
  <1>1. Put(a).do = "put" /\ Put(b).do = "put"  BY DEF Put
  <1>2. Puts(<<>>)  BY DEF Puts
  <1>3. Puts(<<Put(a)>>)  BY <1>1 DEF Puts
  <1>4. Puts(<<Put(a), Put(b)>>)  BY <1>1 DEF Puts
  <1>5. QED  BY <1>2, <1>3, <1>4

\* A call that is not at such a place, and has only iput() calls to make, has no lock.
LEMMA BareBefore ==
    ASSUME DiskInv, NEW p \in Proc, pc[p] \notin Locking, todo[p] = <<>>
    PROVE  \A s \in Slot : holder[s] # p
  <1>1. putting[p] = "no" /\ Locks(p)  BY NoTasks DEF DiskInv
  <1>2. \A s \in Slot : ~Keeps(p, s)  BY DEF Keeps, Locking
  <1>3. \A s \in Slot : ~Frees(p, s)  BY <1>1 DEF Frees
  <1>4. QED  BY <1>1, <1>2, <1>3 DEF Locks

\* A call that reaches such a place, with iput() calls to make and no lock, owes no lock.
LEMMA BareAfter ==
    ASSUME NEW p \in Proc, pc'[p] \notin Locking, putting'[p] # "free", Puts(todo'[p]),
           \A s \in Slot : holder'[s] # p
    PROVE  Locks(p)' /\ Stage(p)'
  <1>1. \A s : Unlock(s).do # "put"  BY DEF Unlock
  <1>2. \A s \in Slot : ~Keeps(p, s)'  BY <1>1 DEF Keeps, Locking, Puts
  <1>3. \A s \in Slot : ~Frees(p, s)'  BY DEF Frees
  <1>4. \A k \in DOMAIN todo'[p] : todo'[p][k].do # "unlock"  BY DEF Puts
  <1>5. Locks(p)'  BY <1>2, <1>3, <1>4 DEF Locks, Locking
  <1>6. Stage(p)'  BY DEF Stage, Locking
  <1>7. QED  BY <1>5, <1>6

\* A step of a call from one such place to another.
LEMMA BareStep ==
    ASSUME DiskInv, NEW p \in Proc, pc[p] \notin Locking, todo[p] = <<>>, Only(p),
           pc'[p] \notin Locking, Puts(todo'[p]), putting'[p] = putting[p], holder' = holder
    PROVE  Quiet(p) /\ Locks(p)' /\ Stage(p)'
  <1>1. putting[p] = "no"  BY NoTasks DEF DiskInv
  <1>2. \A s \in Slot : holder[s] # p  BY BareBefore
  <1>3. Locks(p)' /\ Stage(p)'  BY <1>1, <1>2, BareAfter
  <1>4. QED  BY <1>1, <1>3 DEF Quiet

\* The same when the call returns.
LEMMA BareReturn ==
    ASSUME DiskInv, NEW p \in Proc, pc[p] \notin Locking, todo[p] = <<>>,
           NEW t \in Todos, Puts(t), Return(p, t), Kept(p), putting'[p] = putting[p],
           holder' = holder
    PROVE  Quiet(p) /\ Locks(p)' /\ Stage(p)'
  <1>1. RefInv  BY DEF DiskInv
  <1>2. CallVars(p, "user", 0, 0, t)  BY <1>1, ReturnIs
  <1>3. Only(p) /\ pc'[p] = "user" /\ todo'[p] = t  BY <1>2 DEF CallVars, Kept, Only
  <1>4. pc'[p] \notin Locking  BY <1>3 DEF Locking
  <1>5. QED  BY <1>3, <1>4, BareStep

\* The same when namex() or dirlink() fails.
LEMMA BareFailed ==
    ASSUME DiskInv, NEW p \in Proc, pc[p] \notin Locking, todo[p] = <<>>,
           NEW t \in Todos, Puts(t), Failed(p, t), UNCHANGED <<cwd, fd, putting>>,
           holder' = holder
    PROVE  Quiet(p) /\ Locks(p)' /\ Stage(p)'
  <1>1. RefInv /\ holder \in [Slot -> Proc \cup {None}]  BY DEF DiskInv, RefInv, ProcTypes
  <1>2. Kept(p)  BY <1>1, KeptIs
  <1>3. PICK l, i : CallVars(p, l, 0, i, t) /\ l \in {"linkbad", "user"}
    BY <1>1, FailedIs
  <1>4. Only(p) /\ pc'[p] = l /\ todo'[p] = t  BY <1>2, <1>3 DEF CallVars, Kept, Only
  <1>5. pc'[p] \notin Locking  BY <1>3, <1>4 DEF Locking
  <1>6. QED  BY <1>4, <1>5, BareStep

\* The same when namex() succeeds.
LEMMA BareFound ==
    ASSUME DiskInv, NEW p \in Proc, pc[p] \in {"namei", "parent"}, todo[p] = <<>>,
           Found(p), UNCHANGED <<cwd, fd, putting>>, holder' = holder
    PROVE  Quiet(p) /\ Locks(p)' /\ Stage(p)'
  <1>1. RefInv /\ holder \in [Slot -> Proc \cup {None}]  BY DEF DiskInv, RefInv, ProcTypes
  <1>2. Kept(p)  BY <1>1, KeptIs
  <1>3. /\ CallVars(p, pc'[p], cur[p], ip[p], <<>>)
        /\ pc'[p] \in {"open", "chdir", "link1", "link2", "unlink1", "create1"}
    <2>1. /\ CallVars(p, pc'[p], cur[p], ip[p], <<>>)
          /\ pc[p] = "namei" => pc'[p] \in {"open", "chdir", "link1"}
          /\ pc[p] = "parent" => pc'[p] \in {"link2", "unlink1", "create1"}
      BY <1>1, FoundIs
    <2>2. QED  BY <2>1
  <1>4. Only(p) /\ todo'[p] = <<>>  BY <1>2, <1>3 DEF CallVars, Kept, Only
  <1>5. pc'[p] \notin Locking /\ pc[p] \notin Locking  BY <1>3 DEF Locking
  <1>6. Puts(todo'[p])  BY <1>4, PutsLists
  <1>7. QED  BY <1>4, <1>5, <1>6, BareStep

\* What p points to and finds unlocked, it may lock.
LEMMA MineIs ==
    ASSUME DiskInv, NEW p \in Proc, NEW s, s \in {cur[p], ip[p], fd[p]}, s # 0, Free(s)
    PROVE  /\ Mine(p, s) /\ s \in Slot /\ itable[s].ref > 0
           /\ Ino(s) \in Inum /\ Loaded(s) = disk.inode[Ino(s)] /\ Own(disk, s) = disk
           /\ (Loaded(s).type # "none" => Ino(s) \in Alloc(disk))
  <1>1. RefInv  BY DEF DiskInv
  <1>2. s \in Slot  BY <1>1, PlaceFacts
  <1>3. Points(p, s)  BY DEF Points
  <1>4. itable[s].ref > 0  BY <1>1, <1>2, <1>3, Counted1
  <1>5. Mine(p, s)  BY <1>2, <1>4 DEF Mine, Free
  <1>6. QED  BY <1>2, <1>4, <1>5, OwnIs

\* A step that only loads s.
LEMMA LoadOnly ==
    ASSUME DiskInv, NEW p \in Proc, Quiet(p), Locks(p)', Stage(p)', RefInv', NEW s, Mine(p, s),
           disk' = disk, NEW n, n = disk.inode[Ino(s)], n.type # "none",
           itable' = Load(itable, s, n)
    PROVE  DiskInv'
  <1>1. Wrote(Ino(s))  BY DEF Wrote
  <1>2. Step(p, {s})  BY <1>1, StepLoad
  <1>3. DiskOK(disk')  BY DEF DiskInv
  <1>4. QED  BY <1>2, <1>3, DiskStep
-----------------------------------------------------------------------------
(* Every action keeps the invariant: path names, open(), chdir().           *)

\* The first steps of namex()
LEMMA DiskNamex ==
    ASSUME DiskInv, NEW p \in Proc, todo[p] = <<>>, pc[p] \notin Locking, NEW path,
           NEW l \in {"namei", "parent"}, Namex(p, path, l),
           \A q \in Proc : q # p => call'[q] = call[q],
           UNCHANGED <<disk, holder, ip, cwd, fd, putting>>, RefInv'
    PROVE  DiskInv'
  <1>1. RefInv /\ ProcTypes /\ cwd[p] \in Slot /\ IsTable(itable)  BY PlaceFacts DEF DiskInv
  <1>2. PICK c, r : /\ cur' = [cur EXCEPT ![p] = c] /\ rest' = [rest EXCEPT ![p] = r]
                    /\ Then(p, l, <<>>)
    BY Zenon DEF Namex
  <1>3. Only(p) /\ pc'[p] = l /\ todo'[p] = <<>>  BY <1>1, <1>2 DEF ProcTypes, Then, Only
  <1>4. pc'[p] \notin Locking /\ Puts(todo'[p])  BY <1>3, PutsLists DEF Locking
  <1>5. Quiet(p) /\ Locks(p)' /\ Stage(p)'  BY <1>3, <1>4, BareStep
  <1>6. Step(p, {})
    <2>1. CASE Absolute(path)
      <3>1. ~NoSlot(ROOTINO) /\ itable' = Iget(itable, ROOTINO)  BY <2>1 DEF Namex
      <3>2. ROOTINO \in Inum
        BY FsAssumption, InodeAssumption DEF FsAssumption, InodeAssumption, ROOTINO, Inum
      <3>3. QED  BY <1>5, <3>1, <3>2, StepIget
    <2>2. CASE ~Absolute(path)
      <3>1. itable' = [itable EXCEPT ![cwd[p]].ref = itable[cwd[p]].ref + 1]
        BY <2>2 DEF Namex
      <3>2. PICK n : n = itable[cwd[p]].ref + 1  OBVIOUS
      <3>3. Counted(itable', itable, cwd[p], n)  BY <3>1, <3>2 DEF Counted
      <3>4. /\ \A t \in Slot : /\ t # cwd[p] => itable'[t].ref = itable[t].ref
                               /\ itable'[t].inum = itable[t].inum
                               /\ itable'[t].valid = itable[t].valid
                               /\ itable'[t].ino = itable[t].ino
        BY ONLY <1>1, <3>3, SetRef
      <3>5. itable[cwd[p]].ref > 0
        <4>1. Points(p, cwd[p])  BY DEF Points
        <4>2. QED  BY <1>1, <4>1, Counted1
      <3>6. QED  BY <1>5, <3>4, <3>5, StepRef
    <2>3. QED  BY <2>1, <2>2
  <1>7. DiskOK(disk')  BY DEF DiskInv
  <1>8. QED  BY <1>5, <1>6, <1>7, DiskStep

\* A system call starts with namei() or nameiparent(): no lock, no write.
LEMMA DiskSyscall ==
    ASSUME DiskInv, NEW p \in Proc, NEW c \in Call[p], Syscall(p, c) PROVE DiskInv'
  <1>1. PICK l : /\ Namex(p, c.path, l)
                 /\ l = IF c.op \in {"open", "trunc", "chdir", "link"} THEN "namei" ELSE "parent"
    BY Zenon DEF Syscall
  <1>2. /\ pc[p] = "user" /\ todo[p] = <<>> /\ call' = [call EXCEPT ![p] = c]
        /\ UNCHANGED <<disk, holder, ip, cwd, fd, putting>>
    BY DEF Syscall, At
  <1>3. RefInv /\ ProcTypes  BY DEF DiskInv, RefInv
  <1>4. \A q \in Proc : q # p => call'[q] = call[q]  BY <1>2, <1>3 DEF ProcTypes
  <1>5. l \in {"namei", "parent"} /\ pc[p] \notin Locking  BY <1>1, <1>2 DEF Locking
  <1>6. RefInv'  BY <1>3, RefSyscall
  <1>7. QED  BY <1>1, <1>2, <1>4, <1>5, <1>6, DiskNamex

\* The second walk of sys_link(), to the parent of the new name.
LEMMA DiskLinkParent == ASSUME DiskInv, NEW p \in Proc, LinkParent(p) PROVE DiskInv'
  <1>1. /\ pc[p] = "link" /\ todo[p] = <<>> /\ Namex(p, call[p].new, "parent")
        /\ UNCHANGED <<disk, holder, call, ip, cwd, fd, putting>>
    BY DEF LinkParent, At
  <1>2. pc[p] \notin Locking /\ RefInv  BY <1>1 DEF Locking, DiskInv
  <1>3. RefInv'  BY <1>2, RefLinkParent
  <1>4. QED  BY <1>1, <1>2, <1>3, DiskNamex

\* One element of a path
LEMMA DiskWalk == ASSUME DiskInv, NEW p \in Proc, Walk(p) PROVE DiskInv'
  <1> DEFINE s == cur[p]
             n == Loaded(s)
             k == Dirlookup(disk, Ino(s), Elem(rest[p]))
             i == disk.content[Ino(s)][k].inum
             bad == n.type # "dir" \/ (k = 0 /\ ~(pc[p] = "parent" /\ Len(rest[p]) = 1))
             last == pc[p] = "parent" /\ Len(rest[p]) = 1
  <1>1. /\ pc[p] \in {"namei", "parent"} /\ todo[p] = <<>> /\ rest[p] # <<>>
        /\ UNCHANGED <<disk, holder, cwd, fd, putting>> /\ Free(s) /\ n.type # "none"
    BY DEF Walk, At, Ilock
  <1>2. /\ bad => itable' = Load(itable, s, n) /\ Failed(p, <<Put(s)>>)
        /\ ~bad /\ last => itable' = Load(itable, s, n) /\ Found(p)
        /\ ~bad /\ ~last => /\ ~NoSlot(i)
                            /\ itable' = Iget(Load(itable, s, n), i)
                            /\ cur' = [cur EXCEPT ![p] = IgetSlot(i)]
                            /\ rest' = [rest EXCEPT ![p] = Rest(@)]
                            /\ Then(p, pc[p], <<Put(s)>>)
                            /\ UNCHANGED <<call, ip>>
    BY DEF Walk
  <1>3. ~bad => n.type = "dir"  OBVIOUS
  <1>4. ~bad /\ ~last => k # 0  OBVIOUS
  <1> HIDE DEF i, k, bad, last
  <1>5. RefInv /\ ProcTypes /\ Place(p) /\ DiskOK(disk)  BY DEF DiskInv, RefInv
  <1>6. s # 0 /\ pc[p] \notin Locking  BY <1>1, <1>5 DEF Place, Locking
  <1>7. Mine(p, s) /\ s \in Slot /\ Ino(s) \in Inum /\ n = disk.inode[Ino(s)]
    BY <1>1, <1>6, MineIs
  <1>8. <<Put(s)>> \in Todos /\ Puts(<<Put(s)>>)  BY <1>7, PutsOfLists, PutsLists
  <1>9. RefInv'  BY <1>5, RefWalk
  <1> HIDE DEF n
  <1>10. CASE bad
    <2>1. PICK t : t = <<Put(s)>>  OBVIOUS
    <2>2. t \in Todos /\ Puts(t) /\ Failed(p, t)
      BY <1>2, <1>8, <1>10, <2>1 DEF Failed, Return, Then, Forget
    <2>3. Quiet(p) /\ Locks(p)' /\ Stage(p)'  BY <1>1, <1>6, <2>2, BareFailed
    <2>4. QED  BY <1>1, <1>2, <1>7, <1>9, <1>10, <2>3, LoadOnly
  <1>11. CASE ~bad /\ last
    <2>1. Quiet(p) /\ Locks(p)' /\ Stage(p)'  BY <1>1, <1>2, <1>11, BareFound
    <2>2. QED  BY <1>1, <1>2, <1>7, <1>9, <1>11, <2>1, LoadOnly
  <1>12. CASE ~bad /\ ~last
    <2>1. Only(p) /\ pc'[p] = pc[p] /\ todo'[p] = <<Put(s)>>
      BY <1>1, <1>2, <1>5, <1>12 DEF ProcTypes, Then, Only
    <2>2. Quiet(p) /\ Locks(p)' /\ Stage(p)'  BY <1>1, <1>6, <1>8, <2>1, BareStep
    <2>3. i \in Inum
      <3>1. disk.inode[Ino(s)].type = "dir" /\ IsDisk(disk)
        BY <1>3, <1>5, <1>7, <1>12 DEF DiskOK
      <3>2. k # 0  BY <1>4, <1>12
      <3>3. QED  BY <1>7, <3>1, <3>2, DirlookupIs DEF k, i
    <2>4. ~NoSlot(i) /\ itable' = Iget(Load(itable, s, Loaded(s)), i)  BY <1>2, <1>12 DEF n
    <2>5. Step(p, {s})
      <3>1. AllocKept  BY <1>1 DEF AllocKept
      <3>2. QED  BY <1>1, <1>7, <2>2, <2>3, <2>4, <3>1, StepLoadIget
    <2>6. DiskOK(disk')  BY <1>1, <1>5
    <2>7. QED  BY <1>9, <2>2, <2>5, <2>6, DiskStep
  <1>13. QED  BY <1>10, <1>11, <1>12

\* The end of a walk: namei() has its inode, or nameiparent() of no name fails.
LEMMA DiskWalkEnd == ASSUME DiskInv, NEW p \in Proc, WalkEnd(p) PROVE DiskInv'
  <1>1. /\ pc[p] \in {"namei", "parent"} /\ todo[p] = <<>>
        /\ pc[p] = "parent" => Failed(p, <<Put(cur[p])>>)
        /\ pc[p] # "parent" => Found(p)
        /\ UNCHANGED <<disk, itable, holder, cwd, fd, putting>>
    BY DEF WalkEnd, At, fsVars
  <1>2. RefInv /\ Place(p)  BY DEF DiskInv, RefInv
  <1>3. RefInv'  BY <1>2, RefWalkEnd
  <1>4. cur[p] # 0 /\ pc[p] \notin Locking  BY <1>1, <1>2 DEF Place, Locking
  <1>5. cur[p] \in Slot  BY <1>2, <1>4, PlaceFacts
  <1>6. Quiet(p) /\ Locks(p)' /\ Stage(p)'
    <2>1. CASE pc[p] = "parent"
      <3>1. PICK t : t = <<Put(cur[p])>>  OBVIOUS
      <3>2. t \in Todos /\ Puts(t)  BY <1>5, <3>1, PutsOfLists, PutsLists
      <3>3. Failed(p, t)  BY <1>1, <2>1, <3>1 DEF Failed, Return, Then, Forget
      <3>4. QED  BY <1>1, <1>4, <3>2, <3>3, BareFailed
    <2>2. CASE pc[p] # "parent"  BY <1>1, <2>2, BareFound
    <2>3. QED  BY <2>1, <2>2
  <1>7. Step(p, {})  BY <1>1, <1>6, StepKeep
  <1>8. DiskOK(disk')  BY <1>1 DEF DiskInv
  <1>9. QED  BY <1>3, <1>6, <1>7, <1>8, DiskStep

\* fileclose() of the last reference leaves an iput() to make.
LEMMA DiskFileClose == ASSUME DiskInv, NEW p \in Proc, FileClose(p) PROVE DiskInv'
  <1>1. /\ pc[p] = "user" /\ todo[p] = <<>> /\ todo' = [todo EXCEPT ![p] = <<Put(fd[p])>>]
        /\ fd' = [fd EXCEPT ![p] = 0]
        /\ UNCHANGED <<disk, itable, holder, pc, call, rest, cur, ip, cwd, putting>>
    BY DEF FileClose, At, callVars, fsVars, Forget
  <1>2. RefInv /\ ProcTypes  BY DEF DiskInv, RefInv
  <1>3. RefInv'  BY <1>2, RefFileClose
  <1>4. Only(p) /\ pc'[p] = "user" /\ todo'[p] = <<Put(fd[p])>>
    BY <1>1, <1>2 DEF ProcTypes, Only
  <1>5. Puts(todo'[p]) /\ pc[p] \notin Locking /\ pc'[p] \notin Locking
    BY <1>1, <1>4, PutsLists DEF Locking
  <1>6. Quiet(p) /\ Locks(p)' /\ Stage(p)'  BY <1>1, <1>4, <1>5, BareStep
  <1>7. Step(p, {})  BY <1>1, <1>6, StepKeep
  <1>8. DiskOK(disk')  BY <1>1 DEF DiskInv
  <1>9. QED  BY <1>3, <1>6, <1>7, <1>8, DiskStep

\* A step that writes to s.
LEMMA WriteOnly ==
    ASSUME DiskInv, NEW p \in Proc, Quiet(p), Locks(p)', Stage(p)', RefInv', NEW s, Mine(p, s),
           DiskOK(disk'), Wrote(Ino(s)), disk.inode[Ino(s)].type # "none",
           NEW n, n = disk'.inode[Ino(s)], itable' = Load(itable, s, n)
    PROVE  DiskInv'
  <1>1. Step(p, {s})  BY StepLoad
  <1>2. QED  BY <1>1, DiskStep

Freed(F, E, i) == F = [E EXCEPT !.inode[i].type = "none"]

\* itrunc(), and iput() when it frees the inode
LEMMA Truncates ==
    ASSUME NEW D, DiskOK(D), NEW i, i \in Alloc(D), NEW E, E = Itrunc(D, i),
           NEW F, Freed(F, E, i)
    PROVE  /\ DiskOK(E) /\ E.inode[i].type = D.inode[i].type
           /\ DiskOK(F) /\ F.inode[i].type = "none"
           /\ \A j \in Inum : j # i => /\ E.inode[j] = D.inode[j] /\ E.content[j] = D.content[j]
                                      /\ F.inode[j] = D.inode[j] /\ F.content[j] = D.content[j]
  <1>1. PICK t : t = D.inode[i].type  OBVIOUS
  <1>2. PICK n : n = "none"  OBVIOUS
  <1>3. Cut(E, D, i, t) /\ Cut(F, D, i, n)  BY <1>1, <1>2, ItruncIs DEF Freed
  <1>4. Becomes(t, D, i) /\ Becomes(n, D, i)  BY <1>1, <1>2 DEF Becomes
  <1>5. DiskOK(D) /\ i \in Alloc(D)  OBVIOUS
  <1>6. /\ DiskOK(E) /\ E.inode[i].type = t
        /\ \A j \in Inum : j # i => E.inode[j] = D.inode[j] /\ E.content[j] = D.content[j]
    BY ONLY <1>3, <1>4, <1>5, CutIs
  <1>7. /\ DiskOK(F) /\ F.inode[i].type = n
        /\ \A j \in Inum : j # i => F.inode[j] = D.inode[j] /\ F.content[j] = D.content[j]
    BY <1>3, <1>4, <1>5, CutIs
  <1>8. QED  BY <1>1, <1>2, <1>6, <1>7

\* chdir()
LEMMA DiskChdir == ASSUME DiskInv, NEW p \in Proc, Chdir(p) PROVE DiskInv'
  <1> DEFINE s == cur[p]
             n == Loaded(s)
  <1>1. /\ pc[p] = "chdir" /\ todo[p] = <<>> /\ itable' = Load(itable, s, n)
        /\ UNCHANGED <<disk, holder, fd, putting>> /\ Free(s) /\ n.type # "none"
        /\ n.type = "dir" => cwd' = [cwd EXCEPT ![p] = s] /\ Return(p, <<Put(cwd[p])>>)
        /\ n.type # "dir" => cwd' = cwd /\ Return(p, <<Put(s)>>)
    BY DEF Chdir, At, Ilock
  <1>2. RefInv /\ ProcTypes /\ Place(p)  BY DEF DiskInv, RefInv
  <1>3. s # 0 /\ pc[p] \notin Locking  BY <1>1, <1>2 DEF Place, Locking
  <1>4. Mine(p, s) /\ s \in Slot /\ n = disk.inode[Ino(s)]  BY <1>1, <1>3, MineIs
  <1>5. RefInv'  BY <1>2, RefChdir
  <1> HIDE DEF n
  <1>6. PICK u \in Slot : /\ Return(p, <<Put(u)>>)
                          /\ cwd' = cwd \/ cwd' = [cwd EXCEPT ![p] = s]
    BY <1>1, <1>2, <1>4, PlaceFacts
  <1>7. PICK t : t = <<Put(u)>>  OBVIOUS
  <1>8. t \in Todos /\ Puts(t) /\ Return(p, t)
    <2>1. t \in Todos /\ Puts(t)  BY <1>7, PutsOfLists, PutsLists
    <2>2. Return(p, t)  BY <1>6, <1>7 DEF Return, Then, Forget
    <2>3. QED  BY <2>1, <2>2
  <1>9. Kept(p)  BY <1>1, <1>2, <1>4, <1>6 DEF ProcTypes, Kept
  <1>10. Quiet(p) /\ Locks(p)' /\ Stage(p)'  BY <1>1, <1>3, <1>8, <1>9, BareReturn
  <1>11. QED  BY <1>1, <1>4, <1>5, <1>10, LoadOnly

\* open() of an inode that exists
LEMMA DiskOpen ==
    ASSUME DiskInv, NEW p \in Proc, NEW full \in BOOLEAN, Open(p, full) PROVE DiskInv'
  <1> DEFINE s == cur[p]
             n == Loaded(s)
             bad == (n.type = "dir" /\ call[p].op = "trunc") \/ fd[p] # 0 \/ full
             cut == call[p].op = "trunc" /\ n.type = "file" /\ ~bad
             E == Itrunc(Own(disk, s), Ino(s))
             D == IF cut THEN E ELSE disk
  <1>1. /\ pc[p] = "open" /\ todo[p] = <<>> /\ UNCHANGED <<holder, cwd, putting>>
        /\ Free(s) /\ n.type # "none"
        /\ bad => fd' = fd /\ Return(p, <<Put(s)>>)
        /\ ~bad => fd' = [fd EXCEPT ![p] = s] /\ Return(p, <<>>)
    BY DEF Open, At, Ilock
  <1>2. disk' = D /\ itable' = Load(itable, s, IF D = disk THEN n ELSE D.inode[Ino(s)])
    BY DEF Open
  <1> HIDE DEF bad, cut
  <1>3. RefInv /\ ProcTypes /\ Place(p) /\ DiskOK(disk)  BY DEF DiskInv, RefInv
  <1>4. s # 0 /\ pc[p] \notin Locking  BY <1>1, <1>3 DEF Place, Locking
  <1>5. /\ Mine(p, s) /\ s \in Slot /\ n = disk.inode[Ino(s)] /\ Own(disk, s) = disk
        /\ Ino(s) \in Alloc(disk) /\ Ino(s) \in Inum
    BY <1>1, <1>4, MineIs
  <1>6. RefInv'  BY <1>3, RefOpen
  <1>7. PICK t \in Todos : Puts(t) /\ Return(p, t)
    <2>1. PICK t : t = IF bad THEN <<Put(s)>> ELSE <<>>  OBVIOUS
    <2>2. t \in Todos /\ Puts(t)  BY <1>5, <2>1, PutsOfLists, PutsLists
    <2>3. Return(p, t)  BY <1>1, <2>1 DEF Return, Then, Forget
    <2>4. QED  BY <2>2, <2>3
  <1>8. Kept(p)
    <2>1. Slot \subseteq 0..NINODE  BY <1>3, PlaceFacts
    <2>2. fd' = fd \/ fd' = [fd EXCEPT ![p] = s]  BY <1>1
    <2>3. QED  BY <1>1, <1>3, <1>5, <2>1, <2>2 DEF ProcTypes, Kept
  <1>9. Quiet(p) /\ Locks(p)' /\ Stage(p)'  BY <1>1, <1>4, <1>7, <1>8, BareReturn
  <1>10. itable' = Load(itable, s, disk'.inode[Ino(s)])  BY <1>2, <1>5
  <1>11. DiskOK(disk') /\ Wrote(Ino(s))
    <2>1. CASE ~cut
      <3>1. disk' = disk  BY <1>2, <2>1
      <3>2. QED  BY <1>3, <3>1 DEF Wrote
    <2>2. CASE cut
      <3>1. disk' = Itrunc(disk, Ino(s))  BY <1>2, <1>5, <2>2
      <3>2. /\ DiskOK(disk') /\ disk'.inode[Ino(s)].type = disk.inode[Ino(s)].type
            /\ \A j \in Inum : j # Ino(s) => /\ disk'.inode[j] = disk.inode[j]
                                             /\ disk'.content[j] = disk.content[j]
        <4>1. PICK F : Freed(F, disk', Ino(s))  BY DEF Freed
        <4>2. QED  BY <1>3, <1>5, <3>1, <4>1, Truncates
      <3>3. QED  BY <3>2 DEF Wrote
    <2>3. QED  BY <2>1, <2>2
  <1>12. disk.inode[Ino(s)].type # "none"  BY <1>1, <1>5
  <1>13. QED  BY <1>5, <1>6, <1>9, <1>10, <1>11, <1>12, WriteOnly

\* write()
LEMMA DiskFileWrite == ASSUME DiskInv, NEW p \in Proc, FileWrite(p) PROVE DiskInv'
  <1> DEFINE s == fd[p]
             i == Ino(s)
  <1>1. /\ pc[p] = "user" /\ todo[p] = <<>> /\ s # 0 /\ Free(s) /\ Loaded(s).type = "file"
        /\ UNCHANGED <<holder, pc, call, rest, cur, ip, cwd, fd, todo, putting>>
    BY DEF FileWrite, At, callVars
  <1>2. PICK w, off : /\ w = Writei(Own(disk, s), i, off, "data") /\ off = Len(disk.content[i])
                      /\ disk' = w.disk /\ itable' = Load(itable, s, w.disk.inode[i])
    BY Zenon DEF FileWrite
  <1>3. RefInv /\ DiskOK(disk)  BY DEF DiskInv
  <1>4. /\ Mine(p, s) /\ s \in Slot /\ Loaded(s) = disk.inode[i] /\ Own(disk, s) = disk
        /\ i \in Alloc(disk) /\ i \in Inum
    BY <1>1, MineIs
  <1>5. off \in Nat
    <2>1. disk.content[i] \in Seq({"data"})  BY <1>1, <1>3, <1>4 DEF DiskOK, IsDisk, IsContent
    <2>2. QED  BY <1>2, <2>1
  <1>6. IsUnit(disk.inode[i].type, "data")  BY <1>1, <1>4 DEF IsUnit
  <1>7. w = Writei(disk, i, off, "data")  BY <1>2, <1>4
  <1>8. DiskOK(w.disk) /\ Writes(disk, w.disk, i)
    BY ONLY <1>3, <1>4, <1>5, <1>6, <1>7, WriteiIs
  <1>9. DiskOK(disk') /\ Wrote(i)  BY <1>2, <1>8 DEF Writes, Wrote
  <1>10. RefInv'  BY <1>3, RefFileWrite
  <1>11. Quiet(p) /\ Locks(p)' /\ Stage(p)'
    <2>1. Only(p) /\ pc[p] \notin Locking /\ pc'[p] \notin Locking  BY <1>1 DEF Only, Locking
    <2>2. Puts(todo'[p])  BY <1>1, PutsLists
    <2>3. QED  BY <1>1, <2>1, <2>2, BareStep
  <1>12. itable' = Load(itable, s, disk'.inode[Ino(s)])  BY <1>2
  <1>13. disk.inode[Ino(s)].type # "none"  BY <1>1, <1>4
  <1>14. QED  BY <1>4, <1>9, <1>10, <1>11, <1>12, <1>13, WriteOnly
-----------------------------------------------------------------------------
(* link(), and the ends of unlink() and create()                            *)

\* The lock that a call has at each place.
LEMMA HasLock ==
    ASSUME DiskInv, NEW p \in Proc, todo[p] = <<>>, pc[p] \in Locking
    PROVE  /\ pc[p] \in {"unlink3", "created"} => \A t \in Slot : holder[t] = p <=> t = ip[p]
           /\ pc[p] \in {"unlink2", "create2"} => \A t \in Slot : holder[t] = p <=> t = cur[p]
  <1>1. putting[p] = "no" /\ Locks(p)  BY NoTasks DEF DiskInv
  <1>2. \A t \in Slot : ~Frees(p, t)  BY <1>1 DEF Frees
  <1>3. \A t \in Slot : Keeps(p, t) <=> \/ pc[p] \in {"unlink2", "create2"} /\ t = cur[p]
                                        \/ pc[p] \in {"unlink3", "created"} /\ t = ip[p]
    BY DEF Keeps
  <1>4. QED  BY <1>1, <1>2, <1>3 DEF Locks

\* iunlock() of the only lock of a call
LEMMA Releases ==
    ASSUME RefInv, NEW p \in Proc, NEW s \in Slot, \A t \in Slot : holder[t] = p <=> t = s,
           holder' = [holder EXCEPT ![s] = None]
    PROVE  /\ \A t \in Slot : holder'[t] # p
           /\ \A t \in Slot : \A q \in Proc : q # p => (holder'[t] = q <=> holder[t] = q)
           /\ holder' \in [Slot -> Proc \cup {None}]
  <1>1. None \notin Proc /\ holder \in [Slot -> Proc \cup {None}]
    BY FsAssumption DEF FsAssumption, RefInv, ProcTypes
  <1>2. QED  BY <1>1

\* A call that has locked an inode it points to
LEMMA HeldIs ==
    ASSUME DiskInv, NEW p \in Proc, NEW s, s \in {cur[p], ip[p]}, s # 0, holder[s] = p
    PROVE  /\ Mine(p, s) /\ s \in Slot /\ itable[s].ref > 0
           /\ Ino(s) \in Inum /\ Loaded(s) = disk.inode[Ino(s)] /\ Own(disk, s) = disk
           /\ (itable[s].valid => Ino(s) \in Alloc(disk))
  <1>1. RefInv /\ Coherent(itable, disk)  BY DEF DiskInv
  <1>2. s \in Slot  BY <1>1, PlaceFacts
  <1>3. Points(p, s)  BY DEF Points
  <1>4. itable[s].ref > 0  BY <1>1, <1>2, <1>3, Counted1
  <1>5. Mine(p, s)  BY <1>2, <1>4 DEF Mine
  <1>6. Ino(s) \in Inum /\ Loaded(s) = disk.inode[Ino(s)] /\ Own(disk, s) = disk
    BY <1>2, <1>4, OwnIs
  <1>7. itable[s].valid => Ino(s) \in Alloc(disk)
    BY <1>1, <1>2, <1>4 DEF Coherent, Alloc, Ino
  <1>8. QED  BY <1>2, <1>4, <1>5, <1>6, <1>7

\* unlink() takes the link away, and returns.
LEMMA DiskUnlink3 == ASSUME DiskInv, NEW p \in Proc, Unlink3(p) PROVE DiskInv'
  <1> DEFINE s == ip[p]
             D == NlinkLess(Own(disk, s), Ino(s))
  <1>1. /\ pc[p] = "unlink3" /\ todo[p] = <<>> /\ UNCHANGED <<cwd, fd, putting>>
        /\ disk' = D /\ itable' = Load(itable, s, D.inode[Ino(s)])
        /\ holder' = [holder EXCEPT ![s] = None]
        /\ Return(p, <<Put(s)>>)
    BY DEF Unlink3, At
  <1>2. RefInv /\ DiskOK(disk) /\ Place(p) /\ Stage(p)  BY DEF DiskInv, RefInv
  <1>3. s # 0 /\ pc[p] \in Locking /\ itable[s].valid  BY <1>1, <1>2 DEF Place, Locking, Stage
  <1>4. s \in Slot  BY <1>2, <1>3, PlaceFacts
  <1>5. \A t \in Slot : holder[t] = p <=> t = s  BY <1>1, <1>3, HasLock
  <1>6. /\ Mine(p, s) /\ Ino(s) \in Inum /\ Own(disk, s) = disk /\ Ino(s) \in Alloc(disk)
    BY <1>3, <1>4, <1>5, HeldIs
  <1>7. disk' = NlinkLess(disk, Ino(s)) /\ itable' = Load(itable, s, disk'.inode[Ino(s)])
    BY <1>1, <1>6
  <1> HIDE DEF D
  <1>8. DiskOK(disk') /\ Wrote(Ino(s))
    <2>1. 0 \in Int  OBVIOUS
    <2>2. /\ DiskOK(NlinkLess(disk, Ino(s))) /\ NlinkLess(disk, Ino(s)).content = disk.content
          /\ NlinkLess(disk, Ino(s)).inode[Ino(s)].type = disk.inode[Ino(s)].type
          /\ \A j \in Inum : j # Ino(s) => NlinkLess(disk, Ino(s)).inode[j] = disk.inode[j]
      BY <1>2, <1>6, <2>1, NlinkIs
    <2>3. QED  BY <1>7, <2>2 DEF Wrote
  <1>9. /\ \A t \in Slot : holder'[t] # p
        /\ \A t \in Slot : \A q \in Proc : q # p => (holder'[t] = q <=> holder[t] = q)
        /\ holder' \in [Slot -> Proc \cup {None}]
    BY <1>1, <1>2, <1>4, <1>5, Releases
  <1>10. PICK t : t = <<Put(s)>>  OBVIOUS
  <1>11. t \in Todos /\ Puts(t)  BY <1>4, <1>10, PutsOfLists, PutsLists
  <1>12. CallVars(p, "user", 0, 0, t)
    <2>1. Return(p, t)  BY <1>1, <1>10 DEF Return, Then, Forget
    <2>2. QED  BY <1>2, <1>11, <2>1, ReturnIs
  <1>13. Only(p) /\ pc'[p] = "user" /\ todo'[p] = t  BY <1>1, <1>12 DEF CallVars, Only
  <1>14. putting'[p] = "no"  BY <1>1, <1>2, NoTasks
  <1>15. Quiet(p)  BY <1>9, <1>13, <1>14 DEF Quiet
  <1>16. Locks(p)' /\ Stage(p)'
    <2>1. pc'[p] \notin Locking  BY <1>13 DEF Locking
    <2>2. QED  BY <1>9, <1>11, <1>13, <1>14, <2>1, BareAfter
  <1>17. RefInv'  BY <1>2, RefUnlink3
  <1>18. disk.inode[Ino(s)].type # "none"  BY <1>6 DEF Alloc
  <1>19. QED  BY <1>6, <1>7, <1>8, <1>15, <1>16, <1>17, <1>18, WriteOnly

\* create() has returned.
LEMMA DiskCreated ==
    ASSUME DiskInv, NEW p \in Proc, NEW full \in BOOLEAN, Created(p, full) PROVE DiskInv'
  <1> DEFINE s == ip[p]
             opens == call[p].op = "create" /\ fd[p] = 0 /\ ~full
  <1>1. /\ pc[p] = "created" /\ todo[p] = <<>> /\ UNCHANGED <<disk, itable, cwd, putting>>
        /\ holder' = [holder EXCEPT ![s] = None]
        /\ opens => fd' = [fd EXCEPT ![p] = s] /\ Return(p, <<>>)
        /\ ~opens => fd' = fd /\ Return(p, <<Put(s)>>)
    BY DEF Created, At
  <1> HIDE DEF opens
  <1>2. RefInv /\ ProcTypes /\ Place(p)  BY DEF DiskInv, RefInv
  <1>3. s # 0 /\ pc[p] \in Locking  BY <1>1, <1>2 DEF Place, Locking
  <1>4. s \in Slot  BY <1>2, <1>3, PlaceFacts
  <1>5. \A t \in Slot : holder[t] = p <=> t = s  BY <1>1, <1>3, HasLock
  <1>6. /\ \A t \in Slot : holder'[t] # p
        /\ \A t \in Slot : \A q \in Proc : q # p => (holder'[t] = q <=> holder[t] = q)
        /\ holder' \in [Slot -> Proc \cup {None}]
    BY <1>1, <1>2, <1>4, <1>5, Releases
  <1>7. PICK t \in Todos : Puts(t) /\ Return(p, t)
    <2>1. PICK t : t = IF opens THEN <<>> ELSE <<Put(s)>>  OBVIOUS
    <2>2. t \in Todos /\ Puts(t)  BY <1>4, <2>1, PutsOfLists, PutsLists
    <2>3. Return(p, t)  BY <1>1, <2>1 DEF Return, Then, Forget
    <2>4. QED  BY <2>2, <2>3
  <1>8. CallVars(p, "user", 0, 0, t)  BY <1>2, <1>7, ReturnIs
  <1>9. \A q \in Proc : q # p => fd'[q] = fd[q]
    <2>1. fd' = fd \/ fd' = [fd EXCEPT ![p] = s]  BY <1>1
    <2>2. QED  BY <1>2, <2>1 DEF ProcTypes
  <1>10. Only(p) /\ pc'[p] = "user" /\ todo'[p] = t  BY <1>1, <1>8, <1>9 DEF CallVars, Only
  <1>11. putting'[p] = "no"  BY <1>1, <1>2, NoTasks
  <1>12. Quiet(p)  BY <1>6, <1>10, <1>11 DEF Quiet
  <1>13. Locks(p)' /\ Stage(p)'
    <2>1. pc'[p] \notin Locking  BY <1>10 DEF Locking
    <2>2. QED  BY <1>6, <1>7, <1>10, <1>11, <2>1, BareAfter
  <1>14. RefInv'  BY <1>2, RefCreated
  <1>15. Step(p, {})  BY <1>1, <1>12, StepKeep
  <1>16. DiskOK(disk')  BY <1>1 DEF DiskInv
  <1>17. QED  BY <1>13, <1>14, <1>15, <1>16, DiskStep

\* link() counts the link.
LEMMA DiskLink1 == ASSUME DiskInv, NEW p \in Proc, Link1(p) PROVE DiskInv'
  <1> DEFINE s == cur[p]
             dir == Loaded(s).type = "dir"
             D == NlinkPlus(Own(disk, s), Ino(s), 1)
  <1>1. /\ pc[p] = "link1" /\ todo[p] = <<>> /\ UNCHANGED <<holder, cwd, fd, putting>>
        /\ Free(s) /\ Loaded(s).type # "none"
        /\ dir => Return(p, <<Put(s)>>) /\ disk' = disk /\ itable' = Load(itable, s, Loaded(s))
        /\ ~dir => /\ ip' = [ip EXCEPT ![p] = s] /\ cur' = [cur EXCEPT ![p] = 0]
                   /\ Then(p, "link", <<>>) /\ UNCHANGED <<call, rest>>
                   /\ disk' = D /\ itable' = Load(itable, s, D.inode[Ino(s)])
    BY DEF Link1, At, Forget, Ilock
  <1> HIDE DEF dir
  <1>2. RefInv /\ ProcTypes /\ Place(p) /\ DiskOK(disk)  BY DEF DiskInv, RefInv
  <1>3. s # 0 /\ pc[p] \notin Locking  BY <1>1, <1>2 DEF Place, Locking
  <1>4. /\ Mine(p, s) /\ s \in Slot /\ Loaded(s) = disk.inode[Ino(s)] /\ Own(disk, s) = disk
        /\ Ino(s) \in Inum
    BY <1>1, <1>3, MineIs
  <1>5. RefInv'  BY <1>2, RefLink1
  <1>6. CASE dir
    <2>1. PICK t : t = <<Put(s)>>  OBVIOUS
    <2>2. t \in Todos /\ Puts(t)  BY <1>4, <2>1, PutsOfLists, PutsLists
    <2>3. Return(p, t)  BY <1>1, <1>6, <2>1 DEF Return, Then, Forget
    <2>4. Kept(p)  BY <1>1, <1>2, KeptIs DEF ProcTypes
    <2>5. Quiet(p) /\ Locks(p)' /\ Stage(p)'  BY <1>1, <1>3, <2>2, <2>3, <2>4, BareReturn
    <2>6. QED  BY <1>1, <1>4, <1>5, <1>6, <2>5, LoadOnly
  <1>7. CASE ~dir
    <2>1. Only(p) /\ pc'[p] = "link" /\ todo'[p] = <<>>
      BY <1>1, <1>2, <1>7 DEF ProcTypes, Then, Only
    <2>2. pc'[p] \notin Locking /\ Puts(todo'[p])  BY <2>1, PutsLists DEF Locking
    <2>3. Quiet(p) /\ Locks(p)' /\ Stage(p)'  BY <1>1, <1>3, <2>1, <2>2, BareStep
    <2>4. disk' = NlinkPlus(disk, Ino(s), 1) /\ itable' = Load(itable, s, disk'.inode[Ino(s)])
      BY <1>1, <1>4, <1>7
    <2>5. DiskOK(disk') /\ Wrote(Ino(s))
      <3>1. PICK k : k = 1  OBVIOUS
      <3>2. k \in Int  BY <3>1
      <3>3. /\ DiskOK(NlinkPlus(disk, Ino(s), k))
            /\ NlinkPlus(disk, Ino(s), k).content = disk.content
            /\ NlinkPlus(disk, Ino(s), k).inode[Ino(s)].type = disk.inode[Ino(s)].type
            /\ \A j \in Inum : j # Ino(s) => NlinkPlus(disk, Ino(s), k).inode[j] = disk.inode[j]
        BY <1>2, <1>4, <3>2, NlinkIs
      <3>4. QED  BY <2>4, <3>1, <3>3 DEF Wrote
    <2>6. QED  BY <1>1, <1>4, <1>5, <2>3, <2>4, <2>5, WriteOnly
  <1>8. QED  BY <1>6, <1>7

\* link() takes the count back.
LEMMA DiskLinkBad == ASSUME DiskInv, NEW p \in Proc, LinkBad(p) PROVE DiskInv'
  <1> DEFINE s == ip[p]
             D == NlinkLess(Own(disk, s), Ino(s))
  <1>1. /\ pc[p] = "linkbad" /\ todo[p] = <<>> /\ UNCHANGED <<holder, cwd, fd, putting>>
        /\ Free(s) /\ Loaded(s).type # "none"
        /\ disk' = D /\ itable' = Load(itable, s, D.inode[Ino(s)])
        /\ Return(p, <<Put(s)>>)
    BY DEF LinkBad, At, Ilock
  <1>2. RefInv /\ ProcTypes /\ Place(p) /\ DiskOK(disk)  BY DEF DiskInv, RefInv
  <1>3. s # 0 /\ pc[p] \notin Locking  BY <1>1, <1>2 DEF Place, Locking
  <1>4. /\ Mine(p, s) /\ s \in Slot /\ Loaded(s) = disk.inode[Ino(s)] /\ Own(disk, s) = disk
        /\ Ino(s) \in Inum
    BY <1>1, <1>3, MineIs
  <1>5. RefInv'  BY <1>2, RefLinkBad
  <1>6. disk' = NlinkLess(disk, Ino(s)) /\ itable' = Load(itable, s, disk'.inode[Ino(s)])
    BY <1>1, <1>4
  <1> HIDE DEF D
  <1>7. DiskOK(disk') /\ Wrote(Ino(s))
    <2>1. 0 \in Int  OBVIOUS
    <2>2. /\ DiskOK(NlinkLess(disk, Ino(s))) /\ NlinkLess(disk, Ino(s)).content = disk.content
          /\ NlinkLess(disk, Ino(s)).inode[Ino(s)].type = disk.inode[Ino(s)].type
          /\ \A j \in Inum : j # Ino(s) => NlinkLess(disk, Ino(s)).inode[j] = disk.inode[j]
      BY <1>2, <1>4, <2>1, NlinkIs
    <2>3. QED  BY <1>6, <2>2 DEF Wrote
  <1>8. Quiet(p) /\ Locks(p)' /\ Stage(p)'
    <2>1. PICK t : t = <<Put(s)>>  OBVIOUS
    <2>2. t \in Todos /\ Puts(t)  BY <1>4, <2>1, PutsOfLists, PutsLists
    <2>3. Return(p, t)  BY <1>1, <2>1 DEF Return, Then, Forget
    <2>4. Kept(p)  BY <1>1, <1>2, KeptIs DEF ProcTypes
    <2>5. QED  BY <1>1, <1>3, <2>2, <2>3, <2>4, BareReturn
  <1>9. QED  BY <1>1, <1>4, <1>5, <1>6, <1>7, <1>8, WriteOnly

\* The last element of a path that a call has
LEMMA LastElem ==
    ASSUME RefInv, NEW p \in Proc,
           pc[p] \in {"link2", "unlink1", "unlink2", "create1", "create2"}
    PROVE  Elem(rest[p]) \in EntryNames
  <1>1. rest[p] \in Seq(STRING) /\ Len(rest[p]) = 1  BY DEF RefInv, ProcTypes, Made
  <1>2. Elem(rest[p]) \in STRING  BY <1>1 DEF Elem
  <1>3. QED  BY <1>2 DEF EntryNames

\* Whatever a call points to has an i-number.
LEMMA PointsInum ==
    ASSUME DiskInv, NEW p \in Proc, NEW s, s \in {cur[p], ip[p]}, s # 0
    PROVE  s \in Slot /\ itable[s].ref > 0 /\ Ino(s) \in Inum
  <1>1. RefInv  BY DEF DiskInv
  <1>2. s \in Slot  BY <1>1, PlaceFacts
  <1>3. Points(p, s)  BY DEF Points
  <1>4. itable[s].ref > 0  BY <1>1, <1>2, <1>3, Counted1
  <1>5. QED  BY <1>2, <1>4, OwnIs

\* link() writes the name.
LEMMA DiskLink2 == ASSUME DiskInv, NEW p \in Proc, Link2(p) PROVE DiskInv'
  <1> DEFINE s == cur[p]
  <1>1. PICK w : /\ w = Dirlink(Own(disk, s), Ino(s), Elem(rest[p]), Ino(ip[p]))
                 /\ disk' = w.disk /\ itable' = Load(itable, s, w.disk.inode[Ino(s)])
                 /\ w.ok => Return(p, <<Put(s), Put(ip[p])>>)
                 /\ ~w.ok => Failed(p, <<Put(s)>>)
    BY Zenon DEF Link2
  <1>2. /\ pc[p] = "link2" /\ todo[p] = <<>> /\ UNCHANGED <<holder, cwd, fd, putting>>
        /\ Free(s) /\ Loaded(s).type = "dir"
    BY DEF Link2, At, IsDir
  <1>3. RefInv /\ ProcTypes /\ Place(p) /\ DiskOK(disk)  BY DEF DiskInv, RefInv
  <1>4. s # 0 /\ ip[p] # 0 /\ pc[p] \notin Locking  BY <1>2, <1>3 DEF Place, Locking
  <1>5. /\ Mine(p, s) /\ s \in Slot /\ Loaded(s) = disk.inode[Ino(s)] /\ Own(disk, s) = disk
        /\ Ino(s) \in Inum
    BY <1>2, <1>4, MineIs
  <1>6. ip[p] \in Slot /\ Ino(ip[p]) \in Inum  BY <1>4, PointsInum
  <1>7. Elem(rest[p]) \in EntryNames  BY <1>2, <1>3, LastElem
  <1>8. DiskOK(w.disk) /\ Writes(disk, w.disk, Ino(s))
    <2>1. w = Dirlink(disk, Ino(s), Elem(rest[p]), Ino(ip[p]))  BY <1>1, <1>5
    <2>2. disk.inode[Ino(s)].type = "dir"  BY <1>2, <1>5
    <2>3. QED  BY ONLY <1>3, <1>5, <1>6, <1>7, <2>1, <2>2, DirlinkIs
  <1>9. DiskOK(disk') /\ Wrote(Ino(s))  BY <1>1, <1>8 DEF Writes, Wrote
  <1>10. RefInv'  BY <1>3, RefLink2
  <1>11. Quiet(p) /\ Locks(p)' /\ Stage(p)'
    <2>1. CASE w.ok
      <3>1. PICK t : t = <<Put(s), Put(ip[p])>>  OBVIOUS
      <3>2. t \in Todos /\ Puts(t)  BY <1>5, <1>6, <3>1, PutsOfLists, PutsLists
      <3>3. Return(p, t)  BY <1>1, <2>1, <3>1 DEF Return, Then, Forget
      <3>4. Kept(p)  BY <1>2, <1>3, KeptIs DEF ProcTypes
      <3>5. QED  BY <1>2, <1>4, <3>2, <3>3, <3>4, BareReturn
    <2>2. CASE ~w.ok
      <3>1. PICK t : t = <<Put(s)>>  OBVIOUS
      <3>2. t \in Todos /\ Puts(t)  BY <1>5, <3>1, PutsOfLists, PutsLists
      <3>3. Failed(p, t)  BY <1>1, <2>2, <3>1 DEF Failed, Return, Then, Forget
      <3>4. QED  BY <1>2, <1>4, <3>2, <3>3, BareFailed
    <2>3. QED  BY <2>1, <2>2
  <1>12. itable' = Load(itable, s, disk'.inode[Ino(s)])  BY <1>1
  <1>13. disk.inode[Ino(s)].type # "none"  BY <1>2, <1>5
  <1>14. QED  BY <1>5, <1>9, <1>10, <1>11, <1>12, <1>13, WriteOnly
-----------------------------------------------------------------------------
(* unlink() and create() find the inode and keep the lock of the directory. *)

\* ilock() of the only inode that a call has locked
LEMMA Acquires ==
    ASSUME RefInv, NEW p \in Proc, NEW s \in Slot, Free(s), \A t \in Slot : holder[t] # p,
           holder' = [holder EXCEPT ![s] = p]
    PROVE  /\ \A t \in Slot : holder'[t] = p <=> t = s
           /\ \A t \in Slot : \A q \in Proc : q # p => (holder'[t] = q <=> holder[t] = q)
           /\ holder' \in [Slot -> Proc \cup {None}]
  <1>1. None \notin Proc /\ holder \in [Slot -> Proc \cup {None}]
    BY FsAssumption DEF FsAssumption, RefInv, ProcTypes
  <1>2. QED  BY <1>1 DEF Free

\* The call has the lock of cur or of ip at the place where it is now.
LEMMA LockedCur ==
    ASSUME NEW p \in Proc, pc'[p] \in {"unlink2", "create2"}, putting'[p] # "free",
           todo'[p] = <<>>, \A t \in Slot : holder'[t] = p <=> t = cur'[p]
    PROVE  Locks(p)'
  <1>1. \A t \in Slot : Keeps(p, t)' <=> t = cur'[p]  BY DEF Keeps
  <1>2. \A t \in Slot : ~Frees(p, t)'  BY DEF Frees
  <1>3. QED  BY <1>1, <1>2 DEF Locks

\* The same of ip, with iput() calls to make after it.
LEMMA LockedIp ==
    ASSUME NEW p \in Proc, pc'[p] \in {"unlink3", "created"}, putting'[p] # "free",
           Puts(todo'[p]), \A t \in Slot : holder'[t] = p <=> t = ip'[p]
    PROVE  Locks(p)'
  <1>1. \A t : Unlock(t).do # "put"  BY DEF Unlock
  <1>2. \A t \in Slot : Keeps(p, t)' <=> t = ip'[p]  BY <1>1 DEF Keeps, Puts
  <1>3. \A t \in Slot : ~Frees(p, t)'  BY DEF Frees
  <1>4. \A k \in DOMAIN todo'[p] : todo'[p][k].do # "unlock"  BY DEF Puts
  <1>5. QED  BY <1>2, <1>3, <1>4 DEF Locks

\* create() of a name that exists
LEMMA DiskExists == ASSUME DiskInv, NEW p \in Proc, Exists(p) PROVE DiskInv'
  <1> DEFINE s == ip[p]
             n == Loaded(s)
             ok == call[p].op = "create" /\ n.type \in {"file", "dev"}
  <1>1. /\ pc[p] = "exists" /\ todo[p] = <<>> /\ UNCHANGED <<disk, cwd, fd, putting>>
        /\ Free(s) /\ n.type # "none" /\ itable' = Load(itable, s, n)
        /\ ok => /\ holder' = [holder EXCEPT ![s] = p] /\ Then(p, "created", <<>>)
                 /\ UNCHANGED <<call, rest, cur, ip>>
        /\ ~ok => Return(p, <<Put(s)>>) /\ holder' = holder
    BY DEF Exists, At, Ilock
  <1> HIDE DEF ok
  <1>2. RefInv /\ ProcTypes /\ Place(p)  BY DEF DiskInv, RefInv
  <1>3. s # 0 /\ pc[p] \notin Locking  BY <1>1, <1>2 DEF Place, Locking
  <1>4. Mine(p, s) /\ s \in Slot /\ n = disk.inode[Ino(s)]  BY <1>1, <1>3, MineIs
  <1>5. RefInv'  BY <1>2, RefExists
  <1> HIDE DEF n
  <1>6. CASE ~ok
    <2>1. PICK t : t = <<Put(s)>>  OBVIOUS
    <2>2. t \in Todos /\ Puts(t)  BY <1>4, <2>1, PutsOfLists, PutsLists
    <2>3. Return(p, t)  BY <1>1, <1>6, <2>1 DEF Return, Then, Forget
    <2>4. Kept(p)  BY <1>1, <1>2, <1>6, KeptIs DEF ProcTypes
    <2>5. Quiet(p) /\ Locks(p)' /\ Stage(p)'  BY <1>1, <1>3, <1>6, <2>2, <2>3, <2>4, BareReturn
    <2>6. QED  BY <1>1, <1>4, <1>5, <2>5, LoadOnly
  <1>7. CASE ok
    <2>1. \A t \in Slot : holder[t] # p  BY <1>1, <1>3, BareBefore
    <2>2. /\ \A t \in Slot : holder'[t] = p <=> t = s
          /\ \A t \in Slot : \A q \in Proc : q # p => (holder'[t] = q <=> holder[t] = q)
      BY <1>1, <1>2, <1>4, <1>7, <2>1, Acquires
    <2>3. Only(p) /\ pc'[p] = "created" /\ todo'[p] = <<>> /\ ip'[p] = s
      BY <1>1, <1>2, <1>7 DEF ProcTypes, Then, Only
    <2>4. putting'[p] = "no"  BY <1>1, <1>2, NoTasks
    <2>5. Quiet(p)  BY <2>2, <2>3, <2>4 DEF Quiet
    <2>6. Locks(p)'
      <3>1. Puts(todo'[p]) /\ pc'[p] \in Locking  BY <2>3, PutsLists DEF Locking
      <3>2. \A t \in Slot : holder'[t] = p <=> t = ip'[p]  BY <2>2, <2>3
      <3>3. QED  BY <2>3, <2>4, <3>1, <3>2, LockedIp
    <2>7. Stage(p)'  BY <2>3, <2>4 DEF Stage
    <2>8. QED  BY <1>1, <1>4, <1>5, <2>5, <2>6, <2>7, LoadOnly
  <1>8. QED  BY <1>6, <1>7

\* unlink() finds the name.
LEMMA DiskUnlink1 == ASSUME DiskInv, NEW p \in Proc, Unlink1(p) PROVE DiskInv'
  <1> DEFINE s == cur[p]
             k == Dirlookup(disk, Ino(s), Elem(rest[p]))
             i == disk.content[Ino(s)][k].inum
             bad == Elem(rest[p]) \in {".", ".."} \/ k = 0
  <1>1. /\ pc[p] = "unlink1" /\ todo[p] = <<>> /\ UNCHANGED <<disk, cwd, fd, putting>>
        /\ Free(s) /\ Loaded(s).type = "dir"
        /\ bad => itable' = Load(itable, s, Loaded(s)) /\ Return(p, <<Put(s)>>) /\ holder' = holder
        /\ ~bad => /\ ~NoSlot(i) /\ itable' = Iget(Load(itable, s, Loaded(s)), i)
                   /\ holder' = [holder EXCEPT ![s] = p] /\ ip' = [ip EXCEPT ![p] = IgetSlot(i)]
                   /\ Then(p, "unlink2", <<>>) /\ UNCHANGED <<call, rest, cur>>
    BY DEF Unlink1, At, IsDir
  <1>2. ~bad => k # 0  OBVIOUS
  <1> HIDE DEF i, k, bad
  <1>3. RefInv /\ ProcTypes /\ Place(p) /\ DiskOK(disk)  BY DEF DiskInv, RefInv
  <1>4. s # 0 /\ pc[p] \notin Locking  BY <1>1, <1>3 DEF Place, Locking
  <1>5. /\ Mine(p, s) /\ s \in Slot /\ Loaded(s) = disk.inode[Ino(s)] /\ Ino(s) \in Inum
    BY <1>1, <1>4, MineIs
  <1>6. RefInv'  BY <1>3, RefUnlink1
  <1>7. CASE bad
    <2>1. PICK t : t = <<Put(s)>>  OBVIOUS
    <2>2. t \in Todos /\ Puts(t)  BY <1>5, <2>1, PutsOfLists, PutsLists
    <2>3. Return(p, t)  BY <1>1, <1>7, <2>1 DEF Return, Then, Forget
    <2>4. Kept(p)  BY <1>1, <1>3, <1>7, KeptIs DEF ProcTypes
    <2>5. Quiet(p) /\ Locks(p)' /\ Stage(p)'  BY <1>1, <1>4, <1>7, <2>2, <2>3, <2>4, BareReturn
    <2>6. QED  BY <1>1, <1>5, <1>6, <1>7, <2>5, LoadOnly
  <1>8. CASE ~bad
    <2>1. \A t \in Slot : holder[t] # p  BY <1>1, <1>4, BareBefore
    <2>2. /\ \A t \in Slot : holder'[t] = p <=> t = s
          /\ \A t \in Slot : \A q \in Proc : q # p => (holder'[t] = q <=> holder[t] = q)
      BY <1>1, <1>3, <1>5, <1>8, <2>1, Acquires
    <2>3. /\ Only(p) /\ pc'[p] = "unlink2" /\ todo'[p] = <<>> /\ cur'[p] = s
          /\ rest'[p] = rest[p]
      BY <1>1, <1>3, <1>8 DEF ProcTypes, Then, Only
    <2>4. putting'[p] = "no"  BY <1>1, <1>3, NoTasks
    <2>5. Quiet(p)  BY <2>2, <2>3, <2>4 DEF Quiet
    <2>6. Locks(p)'
      <3>1. Puts(todo'[p]) /\ pc'[p] \in Locking  BY <2>3, PutsLists DEF Locking
      <3>2. \A t \in Slot : holder'[t] = p <=> t = cur'[p]  BY <2>2, <2>3
      <3>3. QED  BY <2>3, <2>4, <3>1, <3>2, LockedCur
    <2>7. i \in Inum
      <3>1. disk.inode[Ino(s)].type = "dir" /\ IsDisk(disk)  BY <1>1, <1>3, <1>5 DEF DiskOK
      <3>2. QED  BY <1>2, <1>5, <1>8, <3>1, DirlookupIs DEF k, i
    <2>8. Step(p, {s}) /\ itable'[s].valid /\ itable'[s].inum = Ino(s)
      <3>1. AllocKept  BY <1>1 DEF AllocKept
      <3>2. QED  BY <1>1, <1>5, <1>8, <2>5, <2>7, <3>1, StepLoadIget DEF Ino
    <2>9. Stage(p)'
      <3>1. Dirlookup(disk', itable'[s].inum, Elem(rest[p])) # 0
        BY <1>1, <1>2, <1>8, <2>8 DEF k, Dirlookup
      <3>2. disk'.inode[itable'[s].inum].type = "dir"  BY <1>1, <1>5, <2>8
      <3>3. Dirlookup(disk, itable[cur[p]].inum, Elem(rest[p]))' # 0
        BY <2>3, <3>1 DEF Dirlookup, Elem
      <3>4. QED  BY <2>3, <2>4, <2>8, <3>2, <3>3 DEF Stage, Ino
    <2>10. DiskOK(disk')  BY <1>1, <1>3
    <2>11. QED  BY <1>6, <2>6, <2>8, <2>9, <2>10, DiskStep
  <1>9. QED  BY <1>7, <1>8

\* An inode that iput() is freeing is not free yet.
LEMMA FreesIs ==
    ASSUME DiskInv, NEW q \in Proc, NEW r \in Slot, Frees(q, r)
    PROVE  /\ itable[r].ref > 0 /\ itable[r].valid /\ disk.inode[Ino(r)].type # "none"
           /\ holder[r] = q /\ Mine(q, r) /\ Ino(r) \in Alloc(disk)
           /\ Loaded(r) = disk.inode[Ino(r)] /\ Own(disk, r) = disk
  <1>1. RefInv /\ Locks(q) /\ Stage(q) /\ Coherent(itable, disk)  BY DEF DiskInv
  <1>2. Points(q, r)  BY <1>1, LockPoints
  <1>3. itable[r].ref > 0  BY <1>1, <1>2, Counted1
  <1>4. itable[r].valid  BY <1>1 DEF Stage, Frees
  <1>5. disk.inode[Ino(r)].type # "none" /\ Ino(r) \in Inum
    BY <1>1, <1>3, <1>4 DEF Coherent, Ino
  <1>6. holder[r] = q  BY <1>1 DEF Locks
  <1>7. Mine(q, r)  BY <1>3, <1>6 DEF Mine
  <1>8. Loaded(r) = disk.inode[Ino(r)] /\ Own(disk, r) = disk  BY <1>3, OwnIs
  <1>9. QED  BY <1>3, <1>4, <1>5, <1>6, <1>7, <1>8 DEF Alloc

\* create() finds the name, or allocates an inode.
LEMMA DiskCreate1 == ASSUME DiskInv, NEW p \in Proc, Create1(p) PROVE DiskInv'
  <1> DEFINE s == cur[p]
             k == Dirlookup(disk, Ino(s), Elem(rest[p]))
             i == IF k = 0 THEN Least(FreeInums(disk)) ELSE disk.content[Ino(s)][k].inum
             T == Load(itable, s, Loaded(s))
             full == k = 0 /\ FreeInums(disk) = {}
  <1>1. /\ pc[p] = "create1" /\ todo[p] = <<>> /\ UNCHANGED <<cwd, fd, putting>>
        /\ Free(s) /\ Loaded(s).type = "dir"
        /\ full => itable' = T /\ Return(p, <<Put(s)>>) /\ holder' = holder /\ disk' = disk
        /\ ~full => /\ ~NoSlot(i) /\ itable' = Iget(T, i) /\ ip' = [ip EXCEPT ![p] = IgetSlot(i)]
                    /\ UNCHANGED <<call, rest>>
                    /\ k # 0 => /\ cur' = [cur EXCEPT ![p] = 0] /\ Then(p, "exists", <<Put(s)>>)
                                /\ holder' = holder /\ disk' = disk
                    /\ k = 0 => /\ holder' = [holder EXCEPT ![s] = p]
                                /\ Then(p, "create2", <<>>) /\ cur' = cur
                                /\ disk' = Ialloc(disk, i, Type(p))
    BY DEF Create1, At, Forget, IsDir
  <1>2. RefInv /\ ProcTypes /\ Place(p) /\ Made(p) /\ DiskOK(disk)  BY DEF DiskInv, RefInv
  <1>3. s # 0 /\ pc[p] \notin Locking /\ call[p].op \in Makes
    BY <1>1, <1>2 DEF Place, Locking, Made
  <1>4. /\ Mine(p, s) /\ s \in Slot /\ Loaded(s) = disk.inode[Ino(s)] /\ Ino(s) \in Inum
    BY <1>1, <1>3, MineIs
  <1>5. RefInv'  BY <1>2, RefCreate1
  <1>6. ~full /\ k = 0 => i \in Inum /\ disk.inode[i].type = "none"
    <2> SUFFICES ASSUME ~full, k = 0 PROVE i \in FreeInums(disk)  BY DEF FreeInums
    <2>1. FreeInums(disk) \subseteq Nat
      BY InodeAssumption DEF FreeInums, Inum, InodeAssumption
    <2>2. QED  BY <2>1, LeastIs
  <1>7. ~full /\ k # 0 => i \in Inum
    <2>1. disk.inode[Ino(s)].type = "dir" /\ IsDisk(disk)  BY <1>1, <1>2, <1>4 DEF DiskOK
    <2>2. QED  BY <1>4, <2>1, DirlookupIs
  <1> HIDE DEF i, k, full
  <1>8. CASE full
    <2>1. PICK t : t = <<Put(s)>>  OBVIOUS
    <2>2. t \in Todos /\ Puts(t)  BY <1>4, <2>1, PutsOfLists, PutsLists
    <2>3. Return(p, t)  BY <1>1, <1>8, <2>1 DEF Return, Then, Forget
    <2>4. Kept(p)  BY <1>1, <1>2, <1>8, KeptIs DEF ProcTypes
    <2>5. Quiet(p) /\ Locks(p)' /\ Stage(p)'  BY <1>1, <1>3, <1>8, <2>2, <2>3, <2>4, BareReturn
    <2>6. QED  BY <1>1, <1>4, <1>5, <1>8, <2>5, LoadOnly
  <1>9. CASE ~full /\ k # 0
    <2>1. Only(p) /\ pc'[p] = "exists" /\ todo'[p] = <<Put(s)>>
      BY <1>1, <1>2, <1>9 DEF ProcTypes, Then, Only
    <2>2. pc'[p] \notin Locking /\ Puts(todo'[p])  BY <2>1, PutsLists DEF Locking
    <2>3. Quiet(p) /\ Locks(p)' /\ Stage(p)'  BY <1>1, <1>3, <1>9, <2>1, <2>2, BareStep
    <2>4. Step(p, {s})
      <3>1. AllocKept  BY <1>1, <1>9 DEF AllocKept
      <3>2. QED  BY <1>1, <1>4, <1>7, <1>9, <2>3, <3>1, StepLoadIget
    <2>5. DiskOK(disk')  BY <1>1, <1>2, <1>9
    <2>6. QED  BY <1>5, <2>3, <2>4, <2>5, DiskStep
  <1>10. CASE ~full /\ k = 0
    <2>0. PICK r : r = IgetSlot(i)  OBVIOUS
    <2>1. \A t \in Slot : holder[t] # p  BY <1>1, <1>3, BareBefore
    <2>2. /\ \A t \in Slot : holder'[t] = p <=> t = s
          /\ \A t \in Slot : \A q \in Proc : q # p => (holder'[t] = q <=> holder[t] = q)
      BY <1>1, <1>2, <1>4, <1>10, <2>1, Acquires
    <2>3. /\ Only(p) /\ pc'[p] = "create2" /\ todo'[p] = <<>> /\ cur'[p] = s /\ ip'[p] = r
          /\ call'[p] = call[p]
      BY <1>1, <1>2, <1>10, <2>0 DEF ProcTypes, Then, Only
    <2>4. putting'[p] = "no"  BY <1>1, <1>2, NoTasks
    <2>5. Quiet(p)  BY <2>2, <2>3, <2>4 DEF Quiet
    <2>6. Locks(p)'
      <3>1. \A t \in Slot : holder'[t] = p <=> t = cur'[p]  BY <2>2, <2>3
      <3>2. QED  BY <2>3, <2>4, <3>1, LockedCur
    <2>7. Type(p) \in {"dir", "file", "dev"}  BY <1>3 DEF Type, Makes
    <2>8. /\ DiskOK(disk') /\ disk'.content = disk.content /\ disk'.inode[i].type = Type(p)
          /\ \A j \in Inum : j # i => disk'.inode[j] = disk.inode[j]
      BY <1>1, <1>2, <1>6, <1>10, <2>7, IallocIs
    <2>9. AllocKept  BY <1>6, <1>10, <2>8 DEF AllocKept
    <2>10. /\ Step(p, {s}) /\ itable'[s].valid /\ itable'[s].inum = Ino(s)
           /\ r \in Slot /\ itable'[r].inum = i
      <3>1. ~NoSlot(i) /\ itable' = Iget(Load(itable, s, Loaded(s)), i)  BY <1>1, <1>10
      <3>2. disk.inode[Ino(s)].type # "none" /\ i \in Inum  BY <1>1, <1>4, <1>6, <1>10
      <3>3. /\ Step(p, {s}) /\ itable'[s].valid /\ itable'[s].inum = itable[s].inum
            /\ IgetSlot(i) \in Slot /\ itable'[IgetSlot(i)].inum = i
        <4>1. DiskInv /\ p \in Proc  OBVIOUS
        <4>2. Step(p, {s}) /\ itable'[s].valid /\ itable'[s].inum = itable[s].inum
          BY ONLY <1>4, <2>5, <2>9, <3>1, <3>2, <4>1, StepLoadIget
        <4>3. Got(i)
          BY ONLY <1>4, <2>5, <2>9, <3>1, <3>2, <4>1, StepLoadIget
        <4>4. QED  BY <4>2, <4>3 DEF Got
      <3>4. QED  BY <2>0, <3>3 DEF Ino
    <2>11. ASSUME NEW q \in Proc PROVE ~Frees(q, ip[p])'
      <3> SUFFICES ASSUME Frees(q, ip[p])' PROVE FALSE  OBVIOUS
      <3>1. q # p  BY <2>4 DEF Frees
      <3>2. Frees(q, r)  BY <2>3, <3>1 DEF Frees, Only, Todo
      <3>3. itable[r].ref > 0 /\ disk.inode[Ino(r)].type # "none"  BY <2>10, <3>2, FreesIs
      <3>4. itable'[r].ref > 0
        <4>1. Points(p, r)'  BY <2>3 DEF Points
        <4>2. QED  BY <1>5, <2>10, <4>1, CountedNext
      <3>5. Ino(r) = i  BY <2>10, <3>3, <3>4 DEF Step, Ino
      <3>6. QED  BY <1>6, <1>10, <3>3, <3>5
    <2>12. Stage(p)'
      <3>1. disk'.inode[itable'[s].inum].type = "dir"  BY <1>1, <1>4, <2>9, <2>10 DEF AllocKept
      <3>2. Type(p)' = Type(p)  BY <2>3 DEF Type
      <3>3. disk'.inode[itable'[r].inum].type = Type(p)'  BY <2>8, <2>10, <3>2
      <3>4. QED  BY <2>3, <2>4, <2>10, <2>11, <3>1, <3>3 DEF Stage, Ino
    <2>13. QED  BY <1>5, <2>6, <2>8, <2>10, <2>12, DiskStep
  <1>11. QED  BY <1>8, <1>9, <1>10

-----------------------------------------------------------------------------
(* iunlock() and iput()                                                     *)

\* The tasks after the first one.
LEMMA TailIs ==
    ASSUME NEW t \in Todos, t # <<>>
    PROVE  /\ Len(t) \in Nat /\ Len(t) <= 3 /\ Len(t) >= 1 /\ DOMAIN t = 1..Len(t)
           /\ Head(t) = t[1] /\ Head(t) \in Task
           /\ DOMAIN Tail(t) = 1..(Len(t) - 1)
           /\ \A k \in 1..(Len(t) - 1) : Tail(t)[k] = t[k + 1]
  <1>1. t \in Seq(Task) /\ Len(t) \in Nat /\ Len(t) # 0 /\ Len(t) <= 3
    BY EmptySeq DEF Todos
  <1>2. QED  BY <1>1

\* A task that is done releases its lock, if it has one.
LEMMA KeepsTail ==
    ASSUME RefInv, NEW p \in Proc, Locks(p), todo[p] # <<>>, todo'[p] = Tail(todo[p]),
           pc'[p] = pc[p], cur'[p] = cur[p], ip'[p] = ip[p]
    PROVE  /\ \A s : Keeps(p, s) <=> Keeps(p, s)' \/ Head(todo[p]) = Unlock(s)
           /\ \A s : Head(todo[p]) = Unlock(s) => ~Keeps(p, s)' /\ pc[p] = "user"
           /\ pc[p] \notin {"unlink2", "create2"}
           /\ \A k \in DOMAIN todo'[p] : todo'[p][k].do = "unlock" =>
                 /\ pc'[p] = "user" /\ k + 1 \in DOMAIN todo'[p]
                 /\ todo'[p][k + 1] = Put(todo'[p][k].slot)
  <1> DEFINE t == todo[p]
             u == todo'[p]
             n == Len(todo[p])
  <1>1. t \in Todos  BY DEF RefInv, ProcTypes
  <1>2. /\ n \in Nat /\ n <= 3 /\ n >= 1 /\ DOMAIN t = 1..n /\ Head(t) = t[1]
        /\ DOMAIN u = 1..(n - 1) /\ \A k \in 1..(n - 1) : u[k] = t[k + 1]
    BY <1>1, TailIs
  <1>3. /\ \A k \in DOMAIN t : t[k].do = "unlock" =>
              pc[p] = "user" /\ k + 1 \in DOMAIN t /\ t[k + 1] = Put(t[k].slot)
        /\ pc[p] \in {"unlink2", "create2"} => t = <<>>
    BY DEF Locks
  <1> HIDE DEF t, u, n
  <1>4. \A s : Unlock(s).do = "unlock" /\ Put(s).do = "put" /\ Unlock(s) # Put(s)
    BY DEF Unlock, Put
  <1>5. \A s : (\E k \in DOMAIN t : t[k] = Unlock(s))
                 <=> (\E k \in DOMAIN u : u[k] = Unlock(s)) \/ Head(t) = Unlock(s)
    <2> SUFFICES ASSUME NEW s
                 PROVE  (\E k \in DOMAIN t : t[k] = Unlock(s))
                          <=> (\E k \in DOMAIN u : u[k] = Unlock(s)) \/ Head(t) = Unlock(s)
      OBVIOUS
    <2>1. ASSUME NEW k \in DOMAIN t, t[k] = Unlock(s), k # 1
          PROVE  \E m \in DOMAIN u : u[m] = Unlock(s)
      <3>1. k - 1 \in DOMAIN u /\ u[k - 1] = t[k]  BY <1>2, <2>1
      <3>2. QED  BY <2>1, <3>1
    <2>2. ASSUME NEW m \in DOMAIN u, u[m] = Unlock(s)
          PROVE  \E k \in DOMAIN t : t[k] = Unlock(s)
      <3>1. m + 1 \in DOMAIN t /\ u[m] = t[m + 1]  BY <1>2
      <3>2. QED  BY <2>2, <3>1
    <2>3. 1 \in DOMAIN t  BY <1>2
    <2>4. QED  BY <1>2, <2>1, <2>2, <2>3
  <1>6. ASSUME NEW s, Head(t) = Unlock(s), NEW k \in DOMAIN u, u[k] = Unlock(s) PROVE FALSE
    <2>1. 1 \in DOMAIN t /\ t[1].do = "unlock"  BY <1>2, <1>4, <1>6
    <2>2. 2 \in DOMAIN t /\ t[2] = Put(t[1].slot)  BY <1>3, <2>1
    <2>3. k + 1 \in DOMAIN t /\ t[k + 1] = Unlock(s)  BY <1>2, <1>6
    <2>4. k + 1 # 2
      <3>1. t[2].do = "put"  BY <1>4, <2>2
      <3>2. QED  BY <1>4, <2>3, <3>1
    <2>5. k + 1 = 3  BY <1>2, <2>4
    <2>6. 3 + 1 \in DOMAIN t  BY <1>3, <1>4, <2>3, <2>5
    <2>7. QED  BY <1>2, <2>6
  <1>7. ASSUME NEW k \in DOMAIN u, u[k].do = "unlock"
        PROVE  pc[p] = "user" /\ k + 1 \in DOMAIN u /\ u[k + 1] = Put(u[k].slot)
    <2>1. k + 1 \in DOMAIN t /\ u[k] = t[k + 1]  BY <1>2
    <2>2. pc[p] = "user" /\ (k + 1) + 1 \in DOMAIN t /\ t[(k + 1) + 1] = Put(u[k].slot)
      BY <1>3, <1>7, <2>1
    <2>3. k + 1 \in DOMAIN u /\ u[k + 1] = t[(k + 1) + 1]  BY <1>2, <2>2
    <2>4. QED  BY <2>2, <2>3
  <1>8. \A s : Head(t) = Unlock(s) => pc[p] = "user"
    <2>1. 1 \in DOMAIN t  BY <1>2
    <2>2. QED  BY <1>2, <1>3, <1>4, <2>1
  <1>9. pc[p] \notin {"unlink2", "create2"}  BY <1>3 DEF t
  <1>10. \A s : Keeps(p, s) <=> \/ pc[p] \in {"unlink3", "created"} /\ s = ip[p]
                                \/ \E k \in DOMAIN t : t[k] = Unlock(s)
    BY <1>9 DEF Keeps, t
  <1>11. \A s : Keeps(p, s)' <=> \/ pc[p] \in {"unlink3", "created"} /\ s = ip[p]
                                 \/ \E k \in DOMAIN u : u[k] = Unlock(s)
    BY <1>9 DEF Keeps, u
  <1>12. \A s : Keeps(p, s) <=> Keeps(p, s)' \/ Head(t) = Unlock(s)
    BY <1>5, <1>10, <1>11
  <1>13. \A s : Head(t) = Unlock(s) => ~Keeps(p, s)' /\ pc[p] = "user"
    BY <1>6, <1>8, <1>11
  <1>14. QED  BY <1>7, <1>9, <1>12, <1>13 DEF t, u

\* iunlock()
LEMMA DiskIunlock == ASSUME DiskInv, NEW p \in Proc, Iunlock(p) PROVE DiskInv'
  <1> DEFINE s == Todo(p)
  <1>1. /\ todo[p] # <<>> /\ Head(todo[p]).do = "unlock" /\ putting[p] = "no"
        /\ todo' = [todo EXCEPT ![p] = Tail(todo[p])]
        /\ holder' = [holder EXCEPT ![s] = None]
        /\ UNCHANGED <<disk, itable, pc, call, rest, cur, ip, cwd, fd, putting>>
    BY DEF Iunlock, Doing, Done, callVars
  <1>2. RefInv /\ ProcTypes /\ Locks(p) /\ DiskOK(disk) /\ todo[p] \in Todos
    BY DEF DiskInv, RefInv, ProcTypes
  <1>3. todo'[p] = Tail(todo[p]) /\ \A q \in Proc : q # p => todo'[q] = todo[q]
    BY <1>1, <1>2 DEF ProcTypes
  <1>4. /\ \A t : Keeps(p, t) <=> Keeps(p, t)' \/ Head(todo[p]) = Unlock(t)
        /\ \A t : Head(todo[p]) = Unlock(t) => ~Keeps(p, t)' /\ pc[p] = "user"
        /\ pc[p] \notin {"unlink2", "create2"}
        /\ \A k \in DOMAIN todo'[p] : todo'[p][k].do = "unlock" =>
              /\ pc'[p] = "user" /\ k + 1 \in DOMAIN todo'[p]
              /\ todo'[p][k + 1] = Put(todo'[p][k].slot)
    BY <1>1, <1>2, <1>3, KeepsTail
  <1>5. s \in Slot /\ \A t : Head(todo[p]) = Unlock(t) <=> t = s
    <2>1. Head(todo[p]) \in Task  BY <1>1, <1>2, TailIs
    <2>2. QED  BY <1>1, <2>1 DEF Task, Unlock, Todo
  <1>6. \A t \in Slot : ~Frees(p, t) /\ ~Frees(p, t)'  BY <1>1 DEF Frees
  <1>7. \A t \in Slot : holder[t] = p <=> Keeps(p, t)  BY <1>2, <1>6 DEF Locks
  <1> HIDE DEF s
  <1>8. None \notin Proc /\ holder \in [Slot -> Proc \cup {None}]
    BY <1>2, FsAssumption DEF FsAssumption, ProcTypes
  <1>9. /\ \A t \in Slot : holder'[t] = p <=> holder[t] = p /\ t # s
        /\ \A t \in Slot : \A q \in Proc : q # p => (holder'[t] = q <=> holder[t] = q)
    BY <1>1, <1>4, <1>5, <1>7, <1>8
  <1>10. Locks(p)'
    <2>1. \A t \in Slot : holder'[t] = p <=> Keeps(p, t)'  BY <1>4, <1>5, <1>7, <1>9
    <2>2. QED  BY <1>1, <1>4, <1>6, <2>1 DEF Locks
  <1>11. Stage(p)'
    <2>1. pc'[p] = "user" /\ putting'[p] = "no"  BY <1>1, <1>4, <1>5
    <2>2. QED  BY <2>1 DEF Stage
  <1>12. Quiet(p)  BY <1>1, <1>3, <1>9 DEF Quiet, Only
  <1>13. RefInv'  BY <1>2, RefIunlock
  <1>14. Step(p, {})  BY <1>1, <1>12, StepKeep
  <1>15. DiskOK(disk')  BY <1>1, <1>2
  <1>16. QED  BY <1>10, <1>11, <1>13, <1>14, <1>15, DiskStep

\* iput() drops a reference.
LEMMA DiskIputDrop == ASSUME DiskInv, NEW p \in Proc, IputDrop(p) PROVE DiskInv'
  <1> DEFINE s == Todo(p)
  <1>1. /\ todo[p] # <<>> /\ Head(todo[p]).do = "put" /\ putting[p] # "free"
        /\ todo' = [todo EXCEPT ![p] = Tail(todo[p])] /\ putting' = [putting EXCEPT ![p] = "no"]
        /\ UNCHANGED <<disk, holder, pc, call, rest, cur, ip, cwd, fd>>
    BY DEF IputDrop, Doing, Done, callVars
  <1>2. Replaced(itable', itable, s, Dropped(itable[s]))  BY DEF IputDrop, Replaced
  <1>3. RefInv /\ ProcTypes /\ Locks(p) /\ Stage(p) /\ DiskOK(disk) /\ IsTable(itable)
    BY DEF DiskInv, RefInv
  <1>4. /\ todo'[p] = Tail(todo[p]) /\ putting'[p] = "no"
        /\ \A q \in Proc : q # p => todo'[q] = todo[q] /\ putting'[q] = putting[q]
    BY <1>1, <1>3 DEF ProcTypes
  <1>5. /\ \A t : Keeps(p, t) <=> Keeps(p, t)' \/ Head(todo[p]) = Unlock(t)
        /\ pc[p] \notin {"unlink2", "create2"}
        /\ \A k \in DOMAIN todo'[p] : todo'[p][k].do = "unlock" =>
              /\ pc'[p] = "user" /\ k + 1 \in DOMAIN todo'[p]
              /\ todo'[p][k + 1] = Put(todo'[p][k].slot)
    BY <1>1, <1>3, <1>4, KeepsTail
  <1>6. s \in Slot /\ itable[s].ref \in Nat /\ itable[s].ref >= 1  BY <1>1, <1>3, PutCounted
  <1>7. Head(todo[p]) = Put(s)
    <2>1. todo[p] \in Todos  BY <1>3 DEF ProcTypes
    <2>2. Head(todo[p]) \in Task  BY <1>1, <2>1, TailIs
    <2>3. QED  BY <1>1, <2>2 DEF Task, Put, Todo
  <1>8. \A t : Keeps(p, t)' <=> Keeps(p, t)
    <2>1. \A t : Head(todo[p]) # Unlock(t)  BY <1>7 DEF Put, Unlock
    <2>2. QED  BY <1>5, <2>1
  <1>9. /\ itable'[s].ref = itable[s].ref - 1
        /\ \A r \in Slot : r # s => itable'[r] = itable[r]
        /\ itable'[s].ref > 0 => /\ itable'[s].inum = itable[s].inum
                                 /\ itable'[s].valid = itable[s].valid
                                 /\ itable'[s].ino = itable[s].ino
    BY <1>2, <1>3, <1>6, DropIs
  <1>10. pc[p] = "unlink3" => itable'[ip[p]].valid
    <2> SUFFICES ASSUME pc[p] = "unlink3" PROVE itable'[ip[p]].valid  OBVIOUS
    <2>1. Place(p) /\ itable[ip[p]].valid  BY <1>3 DEF RefInv, Stage
    <2>2. ip[p] \in Slot  BY <1>3, <2>1, PlaceFacts DEF Place
    <2>3. CASE ip[p] = s
      <3>1. itable[s].ref > 1  BY <1>1, <1>3, <1>6, <1>7, <2>3, Counted2
      <3>2. QED  BY <1>6, <1>9, <2>1, <2>3, <3>1
    <2>4. CASE ip[p] # s  BY <1>9, <2>1, <2>2, <2>4
    <2>5. QED  BY <2>3, <2>4
  <1> HIDE DEF s
  <1>11. \A t \in Slot : ~Frees(p, t) /\ ~Frees(p, t)'  BY <1>1, <1>4 DEF Frees
  <1>12. Locks(p)'
    <2>1. \A t \in Slot : holder'[t] = p <=> Keeps(p, t)'  BY <1>1, <1>3, <1>8, <1>11 DEF Locks
    <2>2. QED  BY <1>1, <1>5, <1>11, <2>1 DEF Locks
  <1>13. Stage(p)'  BY <1>1, <1>4, <1>5, <1>10 DEF Stage
  <1>14. Quiet(p)  BY <1>1, <1>4 DEF Quiet, Only
  <1>15. RefInv'  BY <1>3, RefIputDrop
  <1>16. \A t \in Slot : itable'[t].ref > 0 =>
            /\ itable[t].ref > 0 /\ itable'[t].inum = itable[t].inum
            /\ itable'[t].valid = itable[t].valid /\ itable'[t].ino = itable[t].ino
    BY <1>6, <1>9
  <1>17. Step(p, {})  BY <1>1, <1>14, <1>16, StepRef
  <1>18. DiskOK(disk')  BY <1>1, <1>3
  <1>19. QED  BY <1>12, <1>13, <1>15, <1>17, <1>18, DiskStep

\* iput() takes the lock of an inode that it must free.
LEMMA DiskIputLock == ASSUME DiskInv, NEW p \in Proc, IputLock(p) PROVE DiskInv'
  <1> DEFINE s == Todo(p)
  <1>1. /\ todo[p] # <<>> /\ Head(todo[p]).do = "put" /\ putting[p] = "no"
        /\ itable[s].ref = 1 /\ itable[s].valid /\ Free(s)
        /\ holder' = [holder EXCEPT ![s] = p] /\ putting' = [putting EXCEPT ![p] = "free"]
        /\ UNCHANGED <<disk, itable, pc, call, rest, cur, ip, cwd, fd, todo>>
    BY DEF IputLock, Doing, MustFree, callVars
  <1>2. RefInv /\ ProcTypes /\ Locks(p) /\ Stage(p) /\ DiskOK(disk)  BY DEF DiskInv, RefInv
  <1>3. s \in Slot  BY <1>1, <1>2, PutCounted
  <1>4. Head(todo[p]) = Put(s)
    <2>1. todo[p] \in Todos  BY <1>2 DEF ProcTypes
    <2>2. Head(todo[p]) \in Task  BY <1>1, <2>1, TailIs
    <2>3. QED  BY <1>1, <2>2 DEF Task, Put, Todo
  <1>5. /\ \A t : Keeps(p, t)' <=> Keeps(p, t)
        /\ \A t : Frees(p, t)' <=> t = s
        /\ \A t : ~Frees(p, t)
    <2>1. putting'[p] = "free"  BY <1>1, <1>2 DEF ProcTypes
    <2>2. Todo(p)' = s  BY <1>1 DEF Todo
    <2>3. QED  BY <1>1, <2>1, <2>2 DEF Keeps, Frees
  <1>6. itable'[Todo(p)'].valid  BY <1>1 DEF Todo
  <1> HIDE DEF s
  <1>7. None \notin Proc /\ holder \in [Slot -> Proc \cup {None}] /\ holder[s] = None
    BY <1>1, <1>2, FsAssumption DEF FsAssumption, ProcTypes, Free
  <1>8. /\ \A t \in Slot : holder'[t] = p <=> holder[t] = p \/ t = s
        /\ \A t \in Slot : \A q \in Proc : q # p => (holder'[t] = q <=> holder[t] = q)
    BY <1>1, <1>3, <1>7
  <1>9. Locks(p)'
    <2>1. \A t \in Slot : holder[t] = p <=> Keeps(p, t)  BY <1>2, <1>5 DEF Locks
    <2>2. ~Keeps(p, s)  BY <1>3, <1>7, <2>1
    <2>3. QED  BY <1>1, <1>2, <1>5, <1>8, <2>1, <2>2 DEF Locks
  <1>10. Stage(p)'
    <2>1. pc[p] \notin {"unlink2", "create2"}  BY <1>1, <1>2 DEF Locks
    <2>2. QED  BY <1>1, <1>2, <1>6, <2>1 DEF Stage
  <1>11. Only(p)  BY <1>1, <1>2 DEF Only, ProcTypes
  <1>12. RefInv'  BY <1>2, RefIputLock
  <1>13. Step(p, {})
    <2>1. \A t \in Slot : Frees(p, t)' => \/ Frees(p, t)
                                          \/ /\ todo[p] # <<>> /\ Head(todo[p]) = Put(t)
                                             /\ itable[t].ref = 1
      BY <1>1, <1>4, <1>5
    <2>2. QED  BY <1>1, <1>8, <1>11, <2>1 DEF Step
  <1>14. DiskOK(disk')  BY <1>1, <1>2
  <1>15. QED  BY <1>9, <1>10, <1>12, <1>13, <1>14, DiskStep

\* iput() frees the inode.
LEMMA DiskIputFree == ASSUME DiskInv, NEW p \in Proc, IputFree(p) PROVE DiskInv'
  <1> DEFINE s == Todo(p)
  <1>1. /\ todo[p] # <<>> /\ Head(todo[p]).do = "put" /\ putting[p] = "free"
        /\ holder' = [holder EXCEPT ![s] = None] /\ putting' = [putting EXCEPT ![p] = "drop"]
        /\ UNCHANGED <<pc, call, rest, cur, ip, cwd, fd, todo>>
    BY DEF IputFree, Doing, callVars
  <1>2. PICK E : E = Itrunc(Own(disk, s), Ino(s)) /\ Freed(disk', E, Ino(s))
    BY DEF IputFree, Freed
  <1>3. PICK v : v = FALSE  OBVIOUS
  <1>4. Copied(itable', itable, s, v, FreeInode)  BY <1>3, Zenon DEF IputFree, Copied
  <1>5. RefInv /\ ProcTypes /\ Locks(p) /\ Stage(p) /\ DiskOK(disk) /\ IsTable(itable)
    BY DEF DiskInv, RefInv
  <1>6. s \in Slot /\ Frees(p, s) /\ \A t : Frees(p, t) => t = s
    BY <1>1, <1>5, PutCounted DEF Frees
  <1>7. /\ itable[s].ref > 0 /\ disk.inode[Ino(s)].type # "none"
        /\ holder[s] = p /\ Ino(s) \in Alloc(disk) /\ Own(disk, s) = disk
    BY <1>6, FreesIs
  <1>8. /\ \A t \in Slot : /\ itable'[t].inum = itable[t].inum /\ itable'[t].ref = itable[t].ref
                           /\ t # s => /\ itable'[t].valid = itable[t].valid
                                       /\ itable'[t].ino = itable[t].ino
        /\ ~itable'[s].valid
    <2>1. /\ \A t \in Slot : /\ itable'[t].inum = itable[t].inum /\ itable'[t].ref = itable[t].ref
                             /\ t # s => /\ itable'[t].valid = itable[t].valid
                                         /\ itable'[t].ino = itable[t].ino
          /\ itable'[s].valid = v
      BY <1>4, <1>5, <1>6, SetCopy
    <2>2. QED  BY <1>3, <2>1
  <1>9. /\ DiskOK(disk')
        /\ \A j \in Inum : j # Ino(s) => /\ disk'.inode[j] = disk.inode[j]
                                         /\ disk'.content[j] = disk.content[j]
    <2>1. E = Itrunc(disk, Ino(s))  BY <1>2, <1>7
    <2>2. QED  BY <1>2, <1>5, <1>7, <2>1, Truncates
  <1> HIDE DEF s
  <1>10. putting'[p] = "drop" /\ Only(p)  BY <1>1, <1>5 DEF ProcTypes, Only
  <1>11. None \notin Proc /\ holder \in [Slot -> Proc \cup {None}]
    BY <1>5, FsAssumption DEF FsAssumption, ProcTypes
  <1>12. /\ \A t \in Slot : holder'[t] = p <=> holder[t] = p /\ t # s
         /\ \A t \in Slot : \A q \in Proc : q # p => (holder'[t] = q <=> holder[t] = q)
    BY <1>1, <1>6, <1>7, <1>11
  <1>13. /\ \A t : Keeps(p, t)' <=> Keeps(p, t)
         /\ \A t : ~Frees(p, t)'
    BY <1>1, <1>10 DEF Keeps, Frees
  <1>14. ~Keeps(p, s)  BY <1>5, <1>6 DEF Locks
  <1>15. Locks(p)'
    <2>1. \A t \in Slot : holder'[t] = p <=> Keeps(p, t)'
      BY <1>5, <1>6, <1>12, <1>13, <1>14 DEF Locks
    <2>2. QED  BY <1>1, <1>5, <1>13, <2>1 DEF Locks
  <1>16. Stage(p)'
    <2>1. pc[p] \notin {"unlink2", "create2"}  BY <1>1, <1>5 DEF Locks
    <2>2. ASSUME pc[p] = "unlink3" PROVE itable'[ip[p]].valid
      <3>1. Place(p) /\ itable[ip[p]].valid  BY <1>5, <2>2 DEF RefInv, Stage
      <3>2. ip[p] \in Slot  BY <1>5, <2>2, <3>1, PlaceFacts DEF Place
      <3>3. ip[p] # s  BY <1>14, <2>2 DEF Keeps
      <3>4. QED  BY <1>8, <3>1, <3>2, <3>3
    <2>3. QED  BY <1>1, <1>10, <2>1, <2>2 DEF Stage
  <1>17. RefInv'  BY <1>5, RefIputFree
  <1>18. Step(p, {s})
    <2>1. \A t \in Slot : ~(itable[t].ref = 0 /\ itable'[t].ref > 0)
      BY <1>5, <1>8 DEF IsTable
    <2>2. QED  BY <1>6, <1>7, <1>8, <1>9, <1>10, <1>12, <1>13, <2>1 DEF Step
  <1>19. QED  BY <1>9, <1>15, <1>16, <1>17, <1>18, DiskStep

-----------------------------------------------------------------------------
(* unlink() and create() lock the inode when they have the directory.       *)

\* The two inodes of a call: the directory, which it has locked, and the inode.
LEMMA BothAre ==
    ASSUME DiskInv, NEW p \in Proc, pc[p] \in {"unlink2", "create2"}, todo[p] = <<>>, Free(ip[p])
    PROVE  /\ ip[p] \in Slot /\ cur[p] \in Slot /\ ip[p] # cur[p]
           /\ Mine(p, ip[p]) /\ Mine(p, cur[p])
           /\ Ino(ip[p]) \in Inum /\ Ino(cur[p]) \in Inum /\ Ino(ip[p]) # Ino(cur[p])
           /\ Loaded(ip[p]) = disk.inode[Ino(ip[p])]
           /\ Own(disk, ip[p]) = disk /\ Own(disk, cur[p]) = disk
           /\ disk.inode[Ino(cur[p])].type = "dir"
           /\ \A t \in Slot : holder[t] = p <=> t = cur[p]
  <1>1. RefInv /\ Place(p) /\ Stage(p) /\ Coherent(itable, disk)  BY DEF DiskInv, RefInv
  <1>2. ip[p] # 0 /\ cur[p] # 0 /\ pc[p] \in Locking  BY <1>1 DEF Place, Locking
  <1>3. /\ Mine(p, ip[p]) /\ ip[p] \in Slot /\ itable[ip[p]].ref > 0 /\ Ino(ip[p]) \in Inum
        /\ Loaded(ip[p]) = disk.inode[Ino(ip[p])] /\ Own(disk, ip[p]) = disk
    BY <1>2, MineIs
  <1>4. cur[p] \in Slot  BY <1>1, <1>2, PlaceFacts
  <1>5. \A t \in Slot : holder[t] = p <=> t = cur[p]  BY <1>2, HasLock
  <1>6. holder[cur[p]] = p  BY <1>4, <1>5
  <1>7. /\ Mine(p, cur[p]) /\ itable[cur[p]].ref > 0 /\ Ino(cur[p]) \in Inum
        /\ Own(disk, cur[p]) = disk
    BY <1>2, <1>6, HeldIs
  <1>8. ip[p] # cur[p]
    <2>1. None \notin Proc  BY FsAssumption DEF FsAssumption
    <2>2. QED  BY <1>6, <2>1 DEF Free
  <1>9. Ino(ip[p]) # Ino(cur[p])  BY <1>1, <1>3, <1>4, <1>7, <1>8 DEF Coherent, Ino
  <1>10. disk.inode[Ino(cur[p])].type = "dir"  BY <1>1 DEF Stage
  <1>11. QED  BY <1>3, <1>4, <1>5, <1>7, <1>8, <1>9, <1>10

\* It has done with the directory, and has the lock of the inode.
LEMMA SwapsLocks ==
    ASSUME DiskInv, NEW p \in Proc, pc[p] \in {"unlink2", "create2"}, todo[p] = <<>>, Free(ip[p]),
           holder' = [holder EXCEPT ![ip[p]] = p, ![cur[p]] = None],
           NEW l, l \in {"unlink3", "created"}, Then(p, l, <<Put(cur[p])>>),
           cur' = [cur EXCEPT ![p] = 0], UNCHANGED <<call, rest, ip, cwd, fd, putting>>
    PROVE  Quiet(p) /\ Locks(p)' /\ pc'[p] = l /\ putting'[p] = "no" /\ ip'[p] = ip[p]
  <1> DEFINE s == ip[p]
             d == cur[p]
  <1>1. RefInv /\ ProcTypes  BY DEF DiskInv, RefInv
  <1>2. s \in Slot /\ d \in Slot /\ s # d /\ \A t \in Slot : holder[t] = p <=> t = d
    BY BothAre
  <1>3. Only(p) /\ pc'[p] = l /\ todo'[p] = <<Put(d)>> /\ ip'[p] = s
    BY <1>1 DEF ProcTypes, Then, Only
  <1> HIDE DEF s, d
  <1>4. None \notin Proc /\ holder \in [Slot -> Proc \cup {None}]
    BY <1>1, FsAssumption DEF FsAssumption, ProcTypes
  <1>5. holder[s] = None /\ holder' = [holder EXCEPT ![s] = p, ![d] = None]
    BY DEF s, d, Free
  <1>6. /\ \A t \in Slot : holder'[t] = p <=> t = s
        /\ \A t \in Slot : \A q \in Proc : q # p => (holder'[t] = q <=> holder[t] = q)
    BY <1>2, <1>4, <1>5
  <1>7. putting'[p] = "no"  BY <1>1, NoTasks
  <1>8. Quiet(p)  BY <1>3, <1>6, <1>7 DEF Quiet
  <1>9. Locks(p)'
    <2>1. pc'[p] \in {"unlink3", "created"}  BY <1>3
    <2>2. Puts(todo'[p])  BY <1>3, PutsLists
    <2>3. \A t \in Slot : holder'[t] = p <=> t = ip'[p]  BY <1>3, <1>6
    <2>4. QED  BY <1>7, <2>1, <2>2, <2>3, LockedIp
  <1>10. QED  BY <1>3, <1>7, <1>8, <1>9 DEF s

\* It gives up: what it has locked is unlocked after the iput() of the inode.
LEMMA GivesUp ==
    ASSUME DiskInv, NEW p \in Proc, pc[p] \in {"unlink2", "create2"}, todo[p] = <<>>, Free(ip[p]),
           Return(p, <<Put(ip[p]), Unlock(cur[p]), Put(cur[p])>>),
           UNCHANGED <<holder, cwd, fd, putting>>
    PROVE  Quiet(p) /\ Locks(p)' /\ Stage(p)'
  <1> DEFINE s == ip[p]
             d == cur[p]
  <1>1. RefInv /\ ProcTypes  BY DEF DiskInv, RefInv
  <1>2. s \in Slot /\ d \in Slot /\ \A t \in Slot : holder[t] = p <=> t = d  BY BothAre
  <1>3. PICK t : t = <<Put(s), Unlock(d), Put(d)>>  OBVIOUS
  <1>4. Return(p, t)  BY <1>3 DEF Return, Then, Forget
  <1> HIDE DEF s, d
  <1>5. t \in Todos  BY <1>2, <1>3, PutsOfLists
  <1>6. CallVars(p, "user", 0, 0, t)  BY <1>1, <1>4, <1>5, ReturnIs
  <1>7. Only(p) /\ pc'[p] = "user" /\ todo'[p] = t  BY <1>6 DEF CallVars, Only
  <1>8. putting'[p] = "no"  BY <1>1, NoTasks
  <1>9. Quiet(p)  BY <1>7, <1>8 DEF Quiet
  <1>10. /\ DOMAIN t = 1..3 /\ t[1] = Put(s) /\ t[2] = Unlock(d) /\ t[3] = Put(d)
    BY <1>3
  <1>11. /\ Put(s).do = "put" /\ Put(d).do = "put" /\ Unlock(d).slot = d
         /\ \A u : Unlock(u).do = "unlock" /\ (Unlock(u) = Unlock(d) <=> u = d)
    BY DEF Put, Unlock
  <1>12. \A u : Keeps(p, u)' <=> u = d
    <2>1. \A u : Keeps(p, u)' <=> \E k \in DOMAIN t : t[k] = Unlock(u)  BY <1>7 DEF Keeps
    <2>2. \A u : (\E k \in DOMAIN t : t[k] = Unlock(u)) <=> u = d
      <3>1. ASSUME NEW u, NEW k \in DOMAIN t, t[k] = Unlock(u) PROVE u = d
        <4>1. k = 1 \/ k = 2 \/ k = 3  BY <1>10
        <4>2. t[k].do = "unlock"  BY <1>11, <3>1
        <4>3. k = 2  BY <1>10, <1>11, <4>1, <4>2
        <4>4. QED  BY <1>10, <1>11, <3>1, <4>3
      <3>2. 2 \in DOMAIN t  BY <1>10
      <3>3. QED  BY <1>10, <3>1, <3>2
    <2>3. QED  BY <2>1, <2>2
  <1>13. \A u : ~Frees(p, u)'  BY <1>8 DEF Frees
  <1>14. ASSUME NEW k \in DOMAIN t, t[k].do = "unlock"
         PROVE  k + 1 \in DOMAIN t /\ t[k + 1] = Put(t[k].slot)
    <2>1. k = 1 \/ k = 2 \/ k = 3  BY <1>10
    <2>2. k = 2  BY <1>10, <1>11, <1>14, <2>1
    <2>3. QED  BY <1>10, <1>11, <2>2
  <1>15. Locks(p)'
    <2>1. \A u \in Slot : holder'[u] = p <=> Keeps(p, u)'  BY <1>2, <1>12
    <2>2. QED  BY <1>7, <1>13, <1>14, <2>1 DEF Locks
  <1>16. Stage(p)'  BY <1>7, <1>8 DEF Stage
  <1>17. QED  BY <1>9, <1>15, <1>16

\* unlink() erases the name.
LEMMA DiskUnlink2 == ASSUME DiskInv, NEW p \in Proc, Unlink2(p) PROVE DiskInv'
  <1> DEFINE s == ip[p]
             d == cur[p]
             k == Dirlookup(disk, Ino(d), Elem(rest[p]))
             x == [name |-> "", inum |-> 0]
             w == Writei(Own(disk, d), Ino(d), k - 1, x)
             D == IF Loaded(s).type = "dir" THEN NlinkLess(w.disk, Ino(d)) ELSE w.disk
             may == MayUnlink(s)
  <1>1. /\ pc[p] = "unlink2" /\ todo[p] = <<>> /\ UNCHANGED <<cwd, fd, putting>>
        /\ Free(s) /\ Loaded(s).type # "none"
        /\ may => /\ holder' = [holder EXCEPT ![s] = p, ![d] = None]
                  /\ cur' = [cur EXCEPT ![p] = 0] /\ Then(p, "unlink3", <<Put(d)>>)
                  /\ UNCHANGED <<call, rest, ip>>
        /\ ~may => /\ itable' = Load(itable, s, Loaded(s)) /\ UNCHANGED <<disk, holder>>
                   /\ Return(p, <<Put(s), Unlock(d), Put(d)>>)
    BY DEF Unlink2, At, Forget, Ilock
  <1>2. may => /\ disk' = D
               /\ itable' = Load(Load(itable, s, Loaded(s)), d, D.inode[Ino(d)])
    BY Zenon DEF Unlink2
  <1> HIDE DEF may, x
  <1>3. RefInv /\ Stage(p) /\ DiskOK(disk)  BY DEF DiskInv
  <1>4. /\ s \in Slot /\ d \in Slot /\ s # d /\ Mine(p, s) /\ Mine(p, d)
        /\ Ino(s) \in Inum /\ Ino(d) \in Inum /\ Ino(s) # Ino(d)
        /\ Loaded(s) = disk.inode[Ino(s)] /\ Own(disk, d) = disk
        /\ disk.inode[Ino(d)].type = "dir"
    BY <1>1, BothAre
  <1>5. RefInv'  BY <1>3, RefUnlink2
  <1>6. CASE ~may
    <2>1. Quiet(p) /\ Locks(p)' /\ Stage(p)'  BY <1>1, <1>6, GivesUp
    <2>2. QED  BY <1>1, <1>4, <1>5, <1>6, <2>1, LoadOnly
  <1>7. CASE may
    <2>1. PICK off : off = k - 1  OBVIOUS
    <2>2. off \in Nat
      <3>1. k # 0  BY <1>1, <1>3 DEF Stage
      <3>2. IsDisk(disk)  BY <1>3 DEF DiskOK
      <3>3. k \in Nat  BY <1>4, <3>2, DirlookupIs
      <3>4. QED  BY <2>1, <3>1, <3>3
    <2> HIDE DEF k
    <2>3. w = Writei(disk, Ino(d), off, x)  BY <1>4, <2>1
    <2> HIDE DEF w
    <2>4. IsUnit(disk.inode[Ino(d)].type, x)
      <3>1. 0 \in 0..(ninodes - 1)
        BY FsAssumption, InodeAssumption DEF FsAssumption, InodeAssumption
      <3>2. x \in Entry
        <4>1. PICK e : e = ""  OBVIOUS
        <4>2. e \in EntryNames  BY <4>1 DEF EntryNames
        <4>3. x = [name |-> e, inum |-> 0]  BY <4>1 DEF x
        <4>4. QED  BY <3>1, <4>2, <4>3 DEF Entry
      <3>3. QED  BY <1>4, <3>2 DEF IsUnit
    <2>5. Ino(d) \in Alloc(disk)  BY <1>4 DEF Alloc
    <2>6. DiskOK(w.disk) /\ Writes(disk, w.disk, Ino(d))
      BY ONLY <1>3, <2>2, <2>3, <2>4, <2>5, WriteiIs
    <2>7. DiskOK(D) /\ D.inode[Ino(d)].type = "dir"
          /\ \A j \in Inum : j # Ino(d) => /\ D.inode[j] = disk.inode[j]
                                          /\ D.content[j] = disk.content[j]
      <3>1. CASE Loaded(s).type # "dir"
        <4>1. D = w.disk  BY <3>1
        <4>2. QED  BY <1>4, <2>6, <4>1 DEF Writes
      <3>2. CASE Loaded(s).type = "dir"
        <4>1. PICK V : V = w.disk  OBVIOUS
        <4>2. D = NlinkLess(V, Ino(d)) /\ DiskOK(V) /\ Writes(disk, V, Ino(d))
          BY <2>6, <3>2, <4>1
        <4> HIDE DEF D
        <4>3. PICK i, e : i = Ino(d) /\ e = 0  OBVIOUS
        <4>4. i \in Inum /\ e \in Int  BY <1>4, <4>3
        <4>5. /\ DiskOK(NlinkLess(V, i)) /\ NlinkLess(V, i).content = V.content
              /\ NlinkLess(V, i).inode[i].type = V.inode[i].type
              /\ \A j \in Inum : j # i => NlinkLess(V, i).inode[j] = V.inode[j]
          BY ONLY <4>2, <4>4, NlinkIs
        <4>6. QED  BY <1>4, <4>2, <4>3, <4>5 DEF Writes
      <3>3. QED  BY <3>1, <3>2
    <2> HIDE DEF D
    <2>8. disk' = D /\ itable' = Load(Load(itable, s, Loaded(s)), d, D.inode[Ino(d)])
      BY <1>2, <1>7
    <2>9. /\ Wrote2(Ino(s), Ino(d)) /\ disk'.inode[Ino(s)] = disk.inode[Ino(s)]
      BY <1>4, <2>7, <2>8 DEF Wrote2
    <2>10. /\ Quiet(p) /\ Locks(p)' /\ pc'[p] = "unlink3" /\ putting'[p] = "no" /\ ip'[p] = s
      BY <1>1, <1>7, SwapsLocks
    <2>11. Step(p, {s, d}) /\ itable'[s].valid
      <3>1. PICK n, m : n = disk'.inode[Ino(s)] /\ m = disk'.inode[Ino(d)]  OBVIOUS
      <3>2. itable' = Load(Load(itable, s, n), d, m)  BY <1>4, <2>8, <2>9, <3>1
      <3>3. disk.inode[Ino(s)].type # "none" /\ disk.inode[Ino(d)].type # "none"  BY <1>1, <1>4
      <3>4. QED  BY <1>4, <2>9, <2>10, <3>1, <3>2, <3>3, StepLoadTwice
    <2>12. Stage(p)'  BY <2>10, <2>11 DEF Stage
    <2>13. DiskOK(disk')  BY <2>7, <2>8
    <2>14. QED  BY <1>5, <2>10, <2>11, <2>12, <2>13, DiskStep
  <1>8. QED  BY <1>6, <1>7

\* dirlink() after a call that may have failed
LEMMA AndThenIs ==
    ASSUME NEW w, DiskOK(w.disk), NEW i, i \in Inum, w.disk.inode[i].type = "dir",
           NEW name, name \in EntryNames, NEW inum, inum \in Inum,
           NEW W, W = AndThen(w, i, name, inum)
    PROVE  DiskOK(W.disk) /\ Writes(w.disk, W.disk, i)
  <1>1. CASE ~w.ok
    <2>1. W = w  BY <1>1 DEF AndThen
    <2>2. QED  BY <2>1 DEF Writes
  <1>2. CASE w.ok
    <2>1. PICK D : D = w.disk  OBVIOUS
    <2>2. W = Dirlink(D, i, name, inum) /\ DiskOK(D) /\ D.inode[i].type = "dir"
      BY <1>2, <2>1 DEF AndThen
    <2>3. DiskOK(W.disk) /\ Writes(D, W.disk, i)  BY <2>2, DirlinkIs
    <2>4. QED  BY <2>1, <2>3
  <1>3. QED  BY <1>1, <1>2

\* Nothing but the inodes i and j changes, and they keep their types.
Both(D, E, i, j) ==
    /\ \A k \in Inum : k # i /\ k # j => E.inode[k] = D.inode[k] /\ E.content[k] = D.content[k]
    /\ E.inode[i].type = D.inode[i].type /\ E.inode[j].type = D.inode[j].type

\* A write to one of them
LEMMA BothWrite ==
    ASSUME NEW D, NEW E, NEW F, NEW i, i \in Inum, NEW j, j \in Inum, Both(D, E, i, j)
    PROVE  Writes(E, F, i) \/ Writes(E, F, j) => Both(D, F, i, j)
  <1>1. Writes(E, F, i) => Both(D, F, i, j)
    <2>1. CASE i = j  BY <2>1 DEF Both, Writes
    <2>2. CASE i # j  BY <2>2 DEF Both, Writes
    <2>3. QED  BY <2>1, <2>2
  <1>2. Writes(E, F, j) => Both(D, F, i, j)
    <2>1. CASE i = j  BY <2>1 DEF Both, Writes
    <2>2. CASE i # j  BY <2>2 DEF Both, Writes
    <2>3. QED  BY <2>1, <2>2
  <1>3. QED  BY <1>1, <1>2

\* An assignment to a link count
LEMMA BothLinks ==
    ASSUME NEW D, NEW E, DiskOK(E), NEW i, i \in Inum, NEW j, j \in Inum, Both(D, E, i, j),
           NEW m, m \in {i, j}, NEW k, k \in Int, NEW F, LinksSet(F, E, m, k)
    PROVE  DiskOK(F) /\ Both(D, F, i, j)
  <1>1. m \in Inum  OBVIOUS
  <1>2. /\ DiskOK(F) /\ F.content = E.content /\ F.inode[m].type = E.inode[m].type
        /\ \A n \in Inum : n # m => F.inode[n] = E.inode[n]
    BY <1>1, SetNlink
  <1>3. F.inode[i].type = E.inode[i].type /\ F.inode[j].type = E.inode[j].type
    BY <1>2
  <1>4. \A n \in Inum : n # i /\ n # j => F.inode[n] = E.inode[n] /\ F.content[n] = E.content[n]
    BY <1>2
  <1>5. QED  BY <1>2, <1>3, <1>4 DEF Both

\* What create() writes: the links of the inode i, its entries "." and "..",
\* its name in the directory j, and the links of i or of j.
LEMMA MadeIs ==
    ASSUME NEW D, DiskOK(D), NEW i, i \in Inum, NEW j, j \in Inum, i # j,
           D.inode[j].type = "dir", NEW type, type = D.inode[i].type, NEW name, name \in EntryNames,
           NEW L, LinksSet(L, D, i, 1),
           NEW m, type # "dir" => m.disk = L,
           type = "dir" => m = AndThen(Dirlink(L, i, ".", i), i, "..", j),
           NEW w, w = AndThen(m, j, name, i),
           NEW E, ~w.ok => LinksSet(E, w.disk, i, 0),
           w.ok => E = NlinkPlus(w.disk, j, IF type = "dir" THEN 1 ELSE 0)
    PROVE  DiskOK(E) /\ Both(D, E, i, j)
  <1>1. Both(D, D, i, j)  BY DEF Both
  <1>2. DiskOK(L) /\ Both(D, L, i, j)
    <2>1. 1 \in Int /\ i \in {i, j}  OBVIOUS
    <2>2. QED  BY <1>1, <2>1, BothLinks
  <1>3. DiskOK(m.disk) /\ Both(D, m.disk, i, j)
    <2>1. CASE type # "dir"
      <3>1. m.disk = L  BY <2>1
      <3>2. QED  BY <1>2, <3>1
    <2>2. CASE type = "dir"
      <3>1. PICK X : X = Dirlink(L, i, ".", i)  OBVIOUS
      <3>2. PICK dot, dots : dot = "." /\ dots = ".."  OBVIOUS
      <3>3. dot \in EntryNames /\ dots \in EntryNames  BY <3>2 DEF EntryNames
      <3>4. X = Dirlink(L, i, dot, i) /\ m = AndThen(X, i, dots, j)  BY <2>2, <3>1, <3>2
      <3>5. L.inode[i].type = "dir"  BY <1>2, <2>2 DEF Both
      <3>6. DiskOK(X.disk) /\ Writes(L, X.disk, i)
        BY ONLY <1>2, <3>3, <3>4, <3>5, i \in Inum, DirlinkIs
      <3>7. Both(D, X.disk, i, j) /\ X.disk.inode[i].type = "dir"
        <4>1. Both(D, X.disk, i, j)  BY <1>2, <3>6, BothWrite
        <4>2. QED  BY <2>2, <4>1 DEF Both
      <3>8. DiskOK(m.disk) /\ Writes(X.disk, m.disk, i)
        BY ONLY <3>3, <3>4, <3>6, <3>7, i \in Inum, j \in Inum, AndThenIs
      <3>9. Both(D, m.disk, i, j)  BY <3>7, <3>8, BothWrite
      <3>10. QED  BY <3>8, <3>9
    <2>3. QED  BY <2>1, <2>2
  <1>4. DiskOK(w.disk) /\ Both(D, w.disk, i, j)
    <2>1. m.disk.inode[j].type = "dir"  BY <1>3 DEF Both
    <2>2. DiskOK(w.disk) /\ Writes(m.disk, w.disk, j)  BY <1>3, <2>1, AndThenIs
    <2>3. Both(D, w.disk, i, j)  BY <1>3, <2>2, BothWrite
    <2>4. QED  BY <2>2, <2>3
  <1>5. PICK W : W = w.disk  OBVIOUS
  <1>6. DiskOK(W) /\ Both(D, W, i, j)  BY <1>4, <1>5
  <1>7. CASE ~w.ok
    <2>1. LinksSet(E, W, i, 0) /\ 0 \in Int /\ i \in {i, j}  BY <1>5, <1>7
    <2>2. QED  BY <1>6, <2>1, BothLinks
  <1>8. CASE w.ok
    <2>1. PICK n : n = IF type = "dir" THEN 1 ELSE 0  OBVIOUS
    <2>2. PICK a : a = W.inode[j].nlink + n  OBVIOUS
    <2>3. a \in Int
      <3>1. W.inode[j].nlink \in Int  BY <1>6 DEF DiskOK, IsDisk, IsNode
      <3>2. QED  BY <2>1, <2>2, <3>1
    <2>4. E = NlinkPlus(W, j, n)  BY <1>5, <1>8, <2>1
    <2>5. LinksSet(E, W, j, a) /\ j \in {i, j}  BY <2>2, <2>4 DEF LinksSet, NlinkPlus
    <2>6. QED  BY <1>6, <2>3, <2>5, BothLinks
  <1>9. QED  BY <1>7, <1>8

\* create() writes the inode and its name.
LEMMA DiskCreate2 == ASSUME DiskInv, NEW p \in Proc, Create2(p) PROVE DiskInv'
  <1> DEFINE s == ip[p]
             d == cur[p]
             D == [Own(Own(disk, d), s) EXCEPT !.inode[Ino(s)].nlink = 1]
             made == IF Type(p) # "dir" THEN [disk |-> D, ok |-> TRUE]
                     ELSE AndThen(Dirlink(D, Ino(s), ".", Ino(s)), Ino(s), "..", Ino(d))
             w == AndThen(made, Ino(d), Elem(rest[p]), Ino(s))
             E == IF ~w.ok THEN [w.disk EXCEPT !.inode[Ino(s)].nlink = 0]
                  ELSE NlinkPlus(w.disk, Ino(d), IF Type(p) = "dir" THEN 1 ELSE 0)
  <1>1. /\ pc[p] = "create2" /\ todo[p] = <<>> /\ UNCHANGED <<cwd, fd, putting>>
        /\ Free(s) /\ Loaded(s).type # "none"
    BY DEF Create2, At, Ilock
  <1>2. /\ disk' = E
        /\ itable' = Load(Load(itable, s, E.inode[Ino(s)]), d, E.inode[Ino(d)])
    BY Zenon DEF Create2
  <1>3. \/ /\ holder' = [holder EXCEPT ![s] = p, ![d] = None]
           /\ cur' = [cur EXCEPT ![p] = 0] /\ Then(p, "created", <<Put(d)>>)
           /\ UNCHANGED <<call, rest, ip>>
        \/ UNCHANGED holder /\ Return(p, <<Put(s), Unlock(d), Put(d)>>)
    BY Zenon DEF Create2, Forget
  <1>4. RefInv /\ Stage(p) /\ DiskOK(disk)  BY DEF DiskInv
  <1>5. /\ s \in Slot /\ d \in Slot /\ s # d /\ Mine(p, s) /\ Mine(p, d)
        /\ Ino(s) \in Inum /\ Ino(d) \in Inum /\ Ino(s) # Ino(d)
        /\ Loaded(s) = disk.inode[Ino(s)] /\ Own(disk, s) = disk /\ Own(disk, d) = disk
        /\ disk.inode[Ino(d)].type = "dir"
    BY <1>1, BothAre
  <1>6. disk.inode[Ino(s)].type = Type(p)  BY <1>1, <1>4 DEF Stage
  <1>7. DiskOK(E) /\ Both(disk, E, Ino(s), Ino(d))
    <2>1. LinksSet(D, disk, Ino(s), 1)  BY <1>5 DEF LinksSet
    <2> HIDE DEF D
    <2>2. /\ Type(p) # "dir" => made.disk = D
          /\ Type(p) = "dir"
               => made = AndThen(Dirlink(D, Ino(s), ".", Ino(s)), Ino(s), "..", Ino(d))
      <3>1. PICK yes : yes = TRUE  OBVIOUS
      <3>2. Type(p) # "dir" => made = Res(D, yes)  BY <3>1, Zenon DEF Res
      <3>3. Type(p) # "dir" => made.disk = D  BY <3>2, ResFields
      <3>4. Type(p) = "dir"
              => made = AndThen(Dirlink(D, Ino(s), ".", Ino(s)), Ino(s), "..", Ino(d))
        BY Zenon
      <3>5. QED  BY <3>3, <3>4
    <2> HIDE DEF made
    <2>3. /\ ~w.ok => LinksSet(E, w.disk, Ino(s), 0)
          /\ w.ok => E = NlinkPlus(w.disk, Ino(d), IF Type(p) = "dir" THEN 1 ELSE 0)
      BY DEF LinksSet
    <2>4. w = AndThen(made, Ino(d), Elem(rest[p]), Ino(s))  OBVIOUS
    <2> HIDE DEF w, E
    <2>5. Elem(rest[p]) \in EntryNames  BY <1>1, <1>4, LastElem
    <2>6. QED  BY ONLY <1>4, <1>5, <1>6, <2>1, <2>2, <2>3, <2>4, <2>5, MadeIs
  <1> HIDE DEF E, w, made, D
  <1>8. Wrote2(Ino(s), Ino(d))  BY <1>2, <1>7 DEF Wrote2, Both
  <1>9. RefInv'  BY <1>4, RefCreate2
  <1>10. Quiet(p) /\ Locks(p)' /\ Stage(p)'
    <2>1. CASE UNCHANGED holder /\ Return(p, <<Put(s), Unlock(d), Put(d)>>)
      BY <1>1, <2>1, GivesUp
    <2>2. CASE /\ holder' = [holder EXCEPT ![s] = p, ![d] = None]
               /\ cur' = [cur EXCEPT ![p] = 0] /\ Then(p, "created", <<Put(d)>>)
               /\ UNCHANGED <<call, rest, ip>>
      <3>1. Quiet(p) /\ Locks(p)' /\ pc'[p] = "created" /\ putting'[p] = "no"
        BY <1>1, <2>2, SwapsLocks
      <3>2. QED  BY <3>1 DEF Stage
    <2>3. QED  BY <1>3, <2>1, <2>2
  <1>11. Step(p, {s, d})
    <2>1. PICK n, m : n = disk'.inode[Ino(s)] /\ m = disk'.inode[Ino(d)]  OBVIOUS
    <2>2. itable' = Load(Load(itable, s, n), d, m)  BY <1>2, <2>1
    <2>3. disk.inode[Ino(s)].type # "none" /\ disk.inode[Ino(d)].type # "none"  BY <1>1, <1>5
    <2>4. QED  BY <1>5, <1>8, <1>10, <2>1, <2>2, <2>3, StepLoadTwice
  <1>12. DiskOK(disk')  BY <1>2, <1>7
  <1>13. QED  BY <1>9, <1>10, <1>11, <1>12, DiskStep

-----------------------------------------------------------------------------
(* The second part of the invariant holds of the disk that mkfs makes.      *)

\* The root directory has one block.
LEMMA RootIs ==
    /\ Root.type = "dir" /\ IsNode(Root)
    /\ Root.addrs[0] = 1 /\ \A k \in 0..NDIRECT : k # 0 => Root.addrs[k] = 0
  <1> DEFINE z == [k \in 0..NDIRECT |-> 0]
             a == [FreeInode.addrs EXCEPT ![0] = 1]
  <1>1. FreeInode.addrs = z  BY DEF FreeInode
  <1>2. NDIRECT \in Nat /\ nblocks \in Nat /\ nblocks > 0
    BY InodeAssumption, FsAssumption DEF InodeAssumption, FsAssumption
  <1>3. /\ a \in [0..NDIRECT -> 0..nblocks] /\ a[0] = 1
        /\ \A k \in 0..NDIRECT : k # 0 => a[k] = 0
    BY <1>1, <1>2
  <1>4. Root = Nod("dir", 1, a)  BY DEF Root, Nod
  <1> HIDE DEF a
  <1>5. Root.type = "dir" /\ Root.nlink = 1 /\ Root.addrs = a  BY <1>4, NodFields
  <1>6. IsNode(Root)  BY <1>3, <1>4, <1>5 DEF IsNode
  <1>7. QED  BY <1>3, <1>5, <1>6

\* A free inode has none.
LEMMA FreeInodeIs ==
    /\ FreeInode.type = "none" /\ IsNode(FreeInode)
  <1> DEFINE z == [k \in 0..NDIRECT |-> 0]
  <1>1. FreeInode = Nod("none", 0, z)  BY DEF FreeInode, Nod
  <1>2. z \in [0..NDIRECT -> 0..nblocks]  BY InodeAssumption DEF InodeAssumption
  <1> HIDE DEF z
  <1>3. FreeInode.type = "none" /\ FreeInode.nlink = 0 /\ FreeInode.addrs = z
    BY <1>1, NodFields
  <1>4. QED  BY <1>1, <1>2, <1>3 DEF IsNode

\* Its entries
LEMMA RootDirIs == RootDir \in Seq(Entry)
  <1> DEFINE n == (2 \div DPB + 1) * DPB
  <1>1. n \in Nat
    <2>1. DPB \in Nat /\ DPB > 0  BY InodeAssumption DEF InodeAssumption
    <2>2. PICK m : m = 2 \div DPB  OBVIOUS
    <2>3. m \in Nat  BY <2>1, <2>2
    <2>4. (m + 1) * DPB \in Nat  BY <2>1, <2>3
    <2>5. QED  BY <2>2, <2>4
  <1> DEFINE f(k) == CASE k = 1 -> [name |-> ".", inum |-> ROOTINO]
                       [] k = 2 -> [name |-> "..", inum |-> ROOTINO]
                       [] OTHER -> [name |-> "", inum |-> 0]
  <1>2. RootDir = [k \in 1..n |-> f(k)]  BY DEF RootDir
  <1> HIDE DEF n
  <1>3. ASSUME NEW k PROVE f(k) \in Entry
    <2>1. ROOTINO \in 0..(ninodes - 1) /\ 0 \in 0..(ninodes - 1)
      BY FsAssumption, InodeAssumption DEF FsAssumption, InodeAssumption, ROOTINO
    <2>2. "." \in EntryNames /\ ".." \in EntryNames /\ "" \in EntryNames  BY DEF EntryNames
    <2>3. /\ [name |-> ".", inum |-> ROOTINO] \in Entry
          /\ [name |-> "..", inum |-> ROOTINO] \in Entry
          /\ [name |-> "", inum |-> 0] \in Entry
      BY <2>1, <2>2 DEF Entry
    <2>4. CASE k = 1  BY <2>3, <2>4
    <2>5. CASE k # 1 /\ k = 2  BY <2>3, <2>5
    <2>6. CASE k # 1 /\ k # 2  BY <2>3, <2>6
    <2>7. QED  BY <2>4, <2>5, <2>6
  <1> HIDE DEF f
  <1>4. QED  BY <1>1, <1>2, <1>3

\* The disk that mkfs makes
LEMMA DiskStart == Init => DiskOK(disk)
  <1> SUFFICES ASSUME Init PROVE DiskOK(disk)  OBVIOUS
  <1> DEFINE N == [i \in Inum |-> IF i = ROOTINO THEN Root ELSE FreeInode]
             B == [b \in Block |-> NoBlocks]
             U == {1}
             C == [i \in Inum |-> IF i = ROOTINO THEN RootDir ELSE <<>>]
  <1>1. disk = Dsk(N, B, U, C)  BY DEF Init, Dsk
  <1>2. disk.inode = N /\ disk.ind = B /\ disk.used = U /\ disk.content = C
    <2> HIDE DEF N, B, U, C
    <2>1. QED  BY <1>1, DskFields
  <1>3. ROOTINO \in Inum /\ 1 \in Block /\ nblocks \in Nat /\ NDIRECT \in Nat /\ NDIRECT > 0
    BY FsAssumption, InodeAssumption DEF FsAssumption, InodeAssumption, ROOTINO, Inum, Block
  <1>4. /\ disk.inode[ROOTINO] = Root /\ disk.content[ROOTINO] = RootDir
        /\ \A i \in Inum : i # ROOTINO => disk.inode[i] = FreeInode /\ disk.content[i] = <<>>
        /\ \A b \in Block : disk.ind[b] = NoBlocks
    BY <1>2, <1>3
  <1>5. IsDisk(disk)
    <2>1. disk = Dsk(disk.inode, disk.ind, disk.used, disk.content)  BY <1>1, <1>2
    <2>2. /\ disk.inode = [i \in Inum |-> disk.inode[i]]
          /\ disk.content = [i \in Inum |-> disk.content[i]]
      BY <1>2
    <2>3. \A i \in Inum : IsNode(disk.inode[i])  BY <1>4, RootIs, FreeInodeIs
    <2>4. \A i \in Inum : IsContent(disk.inode[i].type, disk.content[i])
      BY <1>4, RootIs, FreeInodeIs, RootDirIs DEF IsContent
    <2>5. NoBlocks \in [0..(NINDIRECT - 1) -> 0..nblocks]  BY <1>3 DEF NoBlocks
    <2>6. disk.ind \in [Block -> [0..(NINDIRECT - 1) -> 0..nblocks]]  BY <1>2, <2>5
    <2>7. disk.used \subseteq Block /\ \A b \in Block \ disk.used : disk.ind[b] = NoBlocks
      BY <1>2, <1>3, <1>4
    <2>8. QED  BY <2>1, <2>2, <2>3, <2>4, <2>6, <2>7 DEF IsDisk
  <1>6. Alloc(disk) = {ROOTINO}  BY <1>3, <1>4, RootIs, FreeInodeIs DEF Alloc
  <1>7. \A b : b \in Blocks(disk, ROOTINO) <=> b = 1
    <2>1. \A b : b \in Blocks(disk, ROOTINO) <=> b # 0 /\ Hangs(disk, ROOTINO, b)
      BY <1>3, <1>5, BlocksIs
    <2>2. /\ 0 \in 0..(NDIRECT - 1) /\ 0..(NDIRECT - 1) \subseteq 0..NDIRECT
          /\ NDIRECT \in 0..NDIRECT /\ NDIRECT # 0
      BY <1>3
    <2>3. \A b : b # 0 => (Hangs(disk, ROOTINO, b) <=> b = 1)
      BY <1>4, <2>2, RootIs DEF Hangs
    <2>4. QED  BY <2>1, <2>3
  <1>8. Accounted(disk)
    <2>1. \A b : b \in disk.used <=> b = 1  BY <1>2
    <2>2. \A b : b \in disk.used <=> \E i \in Alloc(disk) : b \in Blocks(disk, i)
      BY <1>6, <1>7, <2>1
    <2>3. \A i, j \in Alloc(disk) : i = j  BY <1>6
    <2>4. QED  BY <2>2, <2>3, AccountedFrom
  <1>9. QED  BY <1>5, <1>8 DEF DiskOK

\* The state that the kernel starts in
LEMMA DiskInit == Init => DiskInv
  <1> SUFFICES ASSUME Init PROVE DiskInv  OBVIOUS
  <1>1. RefInv /\ DiskOK(disk)  BY RefInit, DiskStart
  <1>2. None \notin Proc /\ 1 \in Slot /\ ROOTINO \in Inum
    BY FsAssumption, InodeAssumption DEF FsAssumption, InodeAssumption, Slot, ROOTINO, Inum
  <1>3. ASSUME NEW s \in Slot
        PROVE  /\ ~itable[s].valid /\ (s # 1 => itable[s].ref = 0)
               /\ s = 1 => itable[s].inum = ROOTINO
    <2>1. PICK v : v = FALSE  OBVIOUS
    <2>2. FreeEntry = Ent(0, 0, v, FreeInode)  BY <2>1, Zenon DEF FreeEntry, Ent
    <2> DEFINE e1 == [FreeEntry EXCEPT !.inum = ROOTINO]
               e == [e1 EXCEPT !.ref = Cardinality(Proc)]
    <2>3. e1 = Ent(ROOTINO, 0, v, FreeInode)  BY <2>2, EntSet
    <2>4. itable[s] = IF s # 1 THEN FreeEntry ELSE e  BY DEF Init
    <2> HIDE DEF e1
    <2>5. e = Ent(ROOTINO, Cardinality(Proc), v, FreeInode)  BY <2>3, EntSet
    <2> HIDE DEF e
    <2>6. /\ FreeEntry.valid = v /\ FreeEntry.ref = 0 /\ e.valid = v /\ e.inum = ROOTINO
      BY <2>2, <2>5, EntSet
    <2>7. itable[s].valid = v /\ (s # 1 => itable[s].ref = 0)
          /\ (s = 1 => itable[s].inum = ROOTINO)
      BY <2>4, <2>6
    <2>8. QED  BY <2>1, <2>7
  <1>4. Coherent(itable, disk)  BY <1>2, <1>3 DEF Coherent
  <1>5. ASSUME NEW p \in Proc PROVE Locks(p) /\ Stage(p)
    <2>1. pc[p] = "user" /\ todo[p] = <<>> /\ putting[p] = "no" /\ \A s \in Slot : holder[s] = None
      BY DEF Init
    <2>2. \A s \in Slot : ~Keeps(p, s) /\ ~Frees(p, s) /\ holder[s] # p
      BY <1>2, <2>1 DEF Keeps, Frees
    <2>3. QED  BY <2>1, <2>2 DEF Locks, Stage
  <1>6. QED  BY <1>1, <1>4, <1>5 DEF DiskInv

\* A step that changes nothing
LEMMA DiskStutter == ASSUME DiskInv, UNCHANGED vars PROVE DiskInv'
  <1>1. /\ holder' = holder /\ pc' = pc /\ call' = call /\ rest' = rest /\ cur' = cur /\ ip' = ip
        /\ cwd' = cwd /\ fd' = fd /\ todo' = todo /\ putting' = putting /\ itable' = itable
        /\ disk' = disk
    BY DEF vars, fsVars, callVars
  <1>2. RefInv'  BY RefStutter DEF DiskInv
  <1>3. DiskOK(disk') /\ Coherent(itable', disk')  BY <1>1 DEF DiskInv
  <1>4. ASSUME NEW p \in Proc PROVE Locks(p)' /\ Stage(p)'
    <2>1. Locks(p) /\ Stage(p)  BY DEF DiskInv
    <2>2. \A q, s : (Keeps(q, s)' <=> Keeps(q, s)) /\ (Frees(q, s)' <=> Frees(q, s))
      BY <1>1 DEF Keeps, Frees, Todo
    <2>3. Locks(p)'  BY <1>1, <2>1, <2>2 DEF Locks
    <2>4. Type(p)' = Type(p) /\ Todo(p)' = Todo(p)  BY <1>1 DEF Type, Todo
    <2>5. Stage(p)'  BY <1>1, <2>1, <2>2, <2>4 DEF Stage, Ino, Dirlookup
    <2>6. QED  BY <2>3, <2>5
  <1>5. QED  BY <1>2, <1>3, <1>4 DEF DiskInv

\* Every step keeps the invariant.
LEMMA DiskNext == DiskInv /\ [Next]_vars => DiskInv'
  <1> SUFFICES ASSUME DiskInv, [Next]_vars PROVE DiskInv'  OBVIOUS
  <1>1. CASE UNCHANGED vars  BY <1>1, DiskStutter
  <1>2. ASSUME NEW p \in Proc, Iput(p) PROVE DiskInv'
    BY <1>2, DiskIunlock, DiskIputDrop, DiskIputLock, DiskIputFree DEF Iput
  <1>3. ASSUME NEW p \in Proc, Walk(p) \/ WalkEnd(p) \/ Chdir(p) PROVE DiskInv'
    BY <1>3, DiskWalk, DiskWalkEnd, DiskChdir
  <1>4. ASSUME NEW p \in Proc, NEW c \in Call[p], Syscall(p, c) PROVE DiskInv'
    BY <1>4, DiskSyscall
  <1>5. ASSUME NEW p \in Proc, NEW full \in BOOLEAN, Open(p, full) \/ Created(p, full)
        PROVE  DiskInv'
    BY <1>5, DiskOpen, DiskCreated
  <1>6. ASSUME NEW p \in Proc, FileWrite(p) \/ FileClose(p) PROVE DiskInv'
    BY <1>6, DiskFileWrite, DiskFileClose
  <1>7. ASSUME NEW p \in Proc, Link1(p) \/ LinkParent(p) \/ Link2(p) \/ LinkBad(p) PROVE DiskInv'
    BY <1>7, DiskLink1, DiskLinkParent, DiskLink2, DiskLinkBad
  <1>8. ASSUME NEW p \in Proc, Unlink1(p) \/ Unlink2(p) \/ Unlink3(p) PROVE DiskInv'
    BY <1>8, DiskUnlink1, DiskUnlink2, DiskUnlink3
  <1>9. ASSUME NEW p \in Proc, Create1(p) \/ Exists(p) \/ Create2(p) PROVE DiskInv'
    BY <1>9, DiskCreate1, DiskExists, DiskCreate2
  <1>10. QED  BY <1>1, <1>2, <1>3, <1>4, <1>5, <1>6, <1>7, <1>8, <1>9 DEF Next

\* The bitmap and the inodes agree: every block in use hangs from exactly one inode,
\* and every block that hangs from an inode is in use, for any number of processes,
\* inodes, blocks and slots, whether or not writes run out of blocks half-way.
THEOREM BlocksAreAccounted == Spec => []BlocksAccounted
  <1>1. DiskInv => BlocksAccounted
    BY DEF DiskInv, DiskOK, Accounted, Alloc, Allocated, BlocksAccounted
  <1>2. QED  BY <1>1, DiskInit, DiskNext, PTL DEF Spec
-----------------------------------------------------------------------------
(* iput() meets no free block and no lock.                                  *)

\* The iput() at the head of a list is a reference, and so is a lock.
LEMMA LockCounts ==
    ASSUME RefInv, NEW p \in Proc, NEW q \in Proc, NEW s \in Slot, Locks(q),
           todo[p] # <<>>, Head(todo[p]) = Put(s), putting[p] # "free",
           Keeps(q, s) \/ Frees(q, s)
    PROVE  itable[s].ref > 1
  <1>1. itable[s].ref = Holds(cur, s) + Holds(ip, s) + Holds(cwd, s) + Holds(fd, s)
                 + Holds(PutAt(1), s) + Holds(PutAt(2), s) + Holds(PutAt(3), s)
    BY DEF RefInv, RefsExact
  <1>2. /\ Holds(cur, s) \in Nat /\ Holds(ip, s) \in Nat /\ Holds(cwd, s) \in Nat
        /\ Holds(fd, s) \in Nat /\ Holds(PutAt(1), s) \in Nat /\ Holds(PutAt(2), s) \in Nat
        /\ Holds(PutAt(3), s) \in Nat
    BY HoldsType
  <1>3. ASSUME NEW r \in Proc, todo[r] # <<>>, Head(todo[r]) = Put(s)
        PROVE  PutAt(1)[r] = s
    <2>1. todo[r] \in Todos  BY DEF RefInv, ProcTypes
    <2>2. 1 \in DOMAIN todo[r] /\ todo[r][1] = Put(s)  BY <1>3, <2>1 DEF Todos
    <2>3. QED  BY <2>2 DEF PutAt, Put
  <1>4. Holds(PutAt(1), s) >= 1  BY <1>3, HoldsOne
  <1>5. CASE s = cur[q] \/ s = ip[q]
    <2>1. Holds(cur, s) >= 1 \/ Holds(ip, s) >= 1  BY <1>5, HoldsOne
    <2>2. QED  BY ONLY <1>1, <1>2, <1>4, <2>1
  <1>6. ASSUME NEW k \in DOMAIN todo[q], todo[q][k] = Unlock(s) PROVE itable[s].ref > 1
    <2>1. todo[q][k].do = "unlock" /\ todo[q][k].slot = s  BY <1>6 DEF Unlock
    <2>2. k + 1 \in DOMAIN todo[q] /\ todo[q][k + 1] = Put(s)  BY <2>1 DEF Locks
    <2>3. todo[q] \in Todos  BY DEF RefInv, ProcTypes
    <2>4. k + 1 \in {2, 3}  BY <2>2, <2>3 DEF Todos
    <2>5. PutAt(k + 1)[q] = s  BY <2>2 DEF PutAt, Put
    <2>6. Holds(PutAt(k + 1), s) >= 1  BY <2>5, HoldsOne
    <2>7. QED  BY ONLY <1>1, <1>2, <1>4, <2>4, <2>6
  <1>7. CASE Frees(q, s)
    <2>1. putting[q] # "no" /\ s = Head(todo[q]).slot /\ p # q  BY <1>7 DEF Frees, Todo
    <2>2. todo[q] # <<>> /\ Head(todo[q]).do = "put"  BY <2>1 DEF RefInv, Place
    <2>3. todo[q] \in Todos  BY DEF RefInv, ProcTypes
    <2>4. Head(todo[q]) \in Task  BY <2>2, <2>3 DEF Todos
    <2>5. Head(todo[q]) = Put(s)  BY <2>1, <2>2, <2>4 DEF Task, Put
    <2>6. PutAt(1)[p] = s /\ PutAt(1)[q] = s  BY <1>3, <2>2, <2>5
    <2>7. PICK f : f = PutAt(1)  OBVIOUS
    <2>8. f[p] = s /\ f[q] = s /\ p # q  BY <2>1, <2>6, <2>7
    <2>9. Is(f[p], s) = 1 /\ Is(f[q], s) = 1  BY <2>8 DEF Is
    <2>10. Holds(f, s) >= Is(f[p], s) + Is(f[q], s)  BY <2>8, HoldsTwo
    <2>11. Holds(PutAt(1), s) >= 2  BY <2>7, <2>9, <2>10
    <2>12. QED  BY ONLY <1>1, <1>2, <2>11
  <1>8. QED  BY <1>5, <1>6, <1>7 DEF Keeps

\* iput() of the last reference finds the lock free, and what it frees is in use: the
\* comment of iput() on the lock it takes, and the panic of bfree().
THEOREM IputIsSafe == Spec => []IputSafe
  <1>1. DiskInv => IputSafe
    <2> SUFFICES ASSUME DiskInv, NEW p \in Proc
                   PROVE  /\ Doing(p, "put", "free") =>
                                Blocks(Own(disk, Todo(p)), Ino(Todo(p))) \subseteq disk.used
                          /\ Doing(p, "put", "no") /\ MustFree(Todo(p)) => Free(Todo(p))
      BY DEF IputSafe
    <2>2. ASSUME todo[p] # <<>>, Head(todo[p]).do = "put"
          PROVE  Todo(p) \in Slot /\ Head(todo[p]) = Put(Todo(p))
      <3>1. todo[p] \in Todos  BY DEF DiskInv, RefInv, ProcTypes
      <3>2. Head(todo[p]) \in Task  BY <2>2, <3>1 DEF Todos
      <3>3. QED  BY <2>2, <3>2 DEF Task, Put, Todo
    <2>3. ASSUME Doing(p, "put", "free")
          PROVE  Blocks(Own(disk, Todo(p)), Ino(Todo(p))) \subseteq disk.used
      <3>1. Todo(p) \in Slot /\ Frees(p, Todo(p))  BY <2>2, <2>3 DEF Doing, Frees
      <3>2. Ino(Todo(p)) \in Alloc(disk) /\ Own(disk, Todo(p)) = disk  BY <3>1, FreesIs
      <3>3. disk.used = UNION {Blocks(disk, i) : i \in Alloc(disk)}
        BY DEF DiskInv, DiskOK, Accounted
      <3>4. QED  BY <3>2, <3>3
    <2>4. ASSUME Doing(p, "put", "no"), MustFree(Todo(p)), ~Free(Todo(p)) PROVE FALSE
      <3>1. PICK s : s = Todo(p)  OBVIOUS
      <3>2. s \in Slot /\ Head(todo[p]) = Put(s) /\ itable[s].ref = 1
            /\ todo[p] # <<>> /\ putting[p] # "free"
        BY <2>2, <2>4, <3>1 DEF Doing, MustFree
      <3>3. PICK q \in Proc : holder[s] = q
        BY <2>4, <3>1, <3>2 DEF DiskInv, RefInv, ProcTypes, Free
      <3>4. RefInv /\ Locks(q)  BY DEF DiskInv
      <3>5. Keeps(q, s) \/ Frees(q, s)  BY <3>2, <3>3, <3>4 DEF Locks
      <3>6. itable[s].ref > 1  BY <3>2, <3>4, <3>5, LockCounts
      <3>7. QED  BY <3>2, <3>6
    <2>5. QED  BY <2>3, <2>4
  <1>2. QED  BY <1>1, DiskInit, DiskNext, PTL DEF Spec

=============================================================================
