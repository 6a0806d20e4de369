---------------------------- MODULE FsNameProofs ----------------------------
(***************************************************************************)
(* Proofs about the names of the file system (module Fs): the link counts  *)
(* cover the names, and ilock(), dirlookup() and unlink() find what they   *)
(* would panic without, for calls whose paths have no "..".                *)
(***************************************************************************)
EXTENDS FsProofs

-----------------------------------------------------------------------------
(* The invariant, third part: names and links.  It is for calls whose paths *)
(* have no "..": that of a directory that has been removed may name an      *)
(* inode that was freed, or is another's by now (fs.c never changes it).    *)

NoDotdot ==
    \A p \in Proc : \A c \in Call[p] :
        /\ \A k \in DOMAIN c.path : c.path[k] # ".."
        /\ c.op = "link" => \A k \in DOMAIN c.new : c.new[k] # ".."

IsDirOn(D, d) == D.inode[d].type = "dir"

\* Entry k of directory d is a name of inode i.
Says(D, d, k, i) == /\ d \in Inum /\ IsDirOn(D, d) /\ k \in 3..Len(D.content[d])
                    /\ D.content[d][k].inum = i
HasName(D, i) == i = ROOTINO \/ \E d, k : Says(D, d, k, i)
\* The ".." of directory d, which has a name, is i.
Up(D, d, i) == /\ d \in Inum /\ IsDirOn(D, d) /\ Len(D.content[d]) >= 2
               /\ D.content[d][2].inum = i /\ HasName(D, d)

\* LinksTo(i), for any disk.
Link(D, d, k, i) == Says(D, d, k, i) \/ (k = 2 /\ Up(D, d, i))
Linked(D, i) == {x \in Inum \X Nat : Link(D, x[1], x[2], i)}

\* A directory in which "." and ".." are in place.
Complete(D, d) ==
    /\ Len(D.content[d]) >= 2
    /\ D.content[d][1].name = "." /\ D.content[d][1].inum = d
    /\ D.content[d][2].name = ".." /\ D.content[d][2].inum # 0

\* A directory has a name only when it is complete, and only one, in its parent; the
\* root has none.  One that is not complete names nothing.
Tree(D) ==
    /\ IsDirOn(D, ROOTINO) /\ D.content[ROOTINO][2].inum = ROOTINO
    /\ \A d \in Inum : IsDirOn(D, d) =>
          /\ HasName(D, d) => Complete(D, d)
          /\ ~Complete(D, d) => Len(D.content[d]) <= 2
    /\ \A d, k, i : Says(D, d, k, i) /\ i \in Inum /\ IsDirOn(D, i) =>
          /\ i # ROOTINO /\ D.content[i][2].inum = d
          /\ \A e, l : Says(D, e, l, i) => e = d /\ l = k

\* The links of inode i are enough for its names and for b calls besides.
Covers(D, i, b) ==
    /\ IsFiniteSet(Linked(D, i))
    /\ IF i \in Alloc(D) THEN D.inode[i].nlink >= Cardinality(Linked(D, i)) + b
                         ELSE Linked(D, i) = {} /\ b = 0

\* What a call can count on: the inodes it points to are there; directories are complete;
\* link() has no directory; unlink() has found what it removes; the inode that create()
\* has allocated is empty, and nobody else's.
OnDisk(s)  == disk.inode[Ino(s)].type # "none"
Enters(s)  == IsDirOn(disk, Ino(s)) => Complete(disk, Ino(s))
Rests(p)   == \A k \in DOMAIN rest[p] : rest[p][k] # ".."
Alone(p, s) == \A q \in Proc : /\ s \notin {cur[q], cwd[q], fd[q]}
                               /\ q # p => ip[q] # s

Knows(p) ==
    /\ Rests(p)
    /\ OnDisk(cwd[p]) /\ IsDirOn(disk, Ino(cwd[p])) /\ Complete(disk, Ino(cwd[p]))
    /\ fd[p] # 0 => OnDisk(fd[p])
    /\ ip[p] # 0 => OnDisk(ip[p])
    /\ cur[p] # 0 => OnDisk(cur[p]) /\ Enters(cur[p])
    /\ pc[p] \in {"link2", "unlink1", "unlink2", "create1", "create2"} => IsDirOn(disk, Ino(cur[p]))
    /\ pc[p] \in {"link", "parent", "link2", "linkbad"} /\ ip[p] # 0 => ~IsDirOn(disk, Ino(ip[p]))
    /\ pc[p] = "unlink2" =>
          /\ Elem(rest[p]) \notin {".", ".."}
          /\ disk.content[Ino(cur[p])][Dirlookup(disk, Ino(cur[p]), Elem(rest[p]))].inum
                = Ino(ip[p])
    /\ pc[p] = "create2" => /\ disk.content[Ino(ip[p])] = <<>>
                            /\ disk.inode[Ino(ip[p])].nlink = 0
                            /\ Alone(p, ip[p])
    /\ \A s \in Slot : Frees(p, s) => itable[s].ref = 1 /\ disk.inode[Ino(s)].nlink = 0

NameInv ==
    /\ DiskInv
    /\ Tree(disk)
    /\ \A i \in Inum : Covers(disk, i, Cardinality(Between(i)))
    /\ \A p \in Proc : Knows(p)

-----------------------------------------------------------------------------
(* References: who has the last one, and when a count stays.                *)

\* The pointers of a call, of the current directory and of the open file; and the
\* iput() calls to come.
Refers(p, s) == s \in {cur[p], ip[p], cwd[p], fd[p]}
PutsTo(p, s) == \E k \in DOMAIN todo[p] : todo[p][k] = Put(s)

\* A task that counts for s is an iput() of s.
LEMMA PutAtIs ==
    ASSUME RefInv, NEW q \in Proc, NEW s \in Slot, NEW k
    PROVE  PutAt(k)[q] = s <=> k \in DOMAIN todo[q] /\ todo[q][k] = Put(s)
  <1>1. todo[q] \in Todos /\ 0 \notin Slot  BY PlaceFacts
  <1>2. \A m \in DOMAIN todo[q] : todo[q][m] \in Task  BY <1>1 DEF Todos
  <1>3. \A x \in Task : x.do = "put" /\ x.slot = s <=> x = Put(s)  BY DEF Task, Put
  <1>4. PutAt(k)[q] = IF k \in DOMAIN todo[q] /\ todo[q][k].do = "put" THEN todo[q][k].slot ELSE 0
    BY DEF PutAt
  <1>5. s # 0  BY <1>1
  <1>6. CASE k \in DOMAIN todo[q]
    <2>1. todo[q][k] \in Task  BY <1>2, <1>6
    <2>2. QED  BY <1>3, <1>4, <1>5, <1>6, <2>1
  <1>7. CASE k \notin DOMAIN todo[q]  BY <1>4, <1>5, <1>7
  <1>8. QED  BY <1>6, <1>7

\* The same of the state that a step reaches.
LEMMA PutAtNext ==
    ASSUME RefInv', NEW q \in Proc, NEW s \in Slot, NEW k
    PROVE  PutAt(k)'[q] = s <=> k \in DOMAIN todo'[q] /\ todo'[q][k] = Put(s)
  <1>1. todo'[q] \in Todos  BY DEF RefInv, ProcTypes
  <1>2. 0 \notin Slot  BY InodeAssumption DEF Slot, InodeAssumption
  <1>3. \A m \in DOMAIN todo'[q] : todo'[q][m] \in Task  BY <1>1 DEF Todos
  <1>4. \A x \in Task : x.do = "put" /\ x.slot = s <=> x = Put(s)  BY DEF Task, Put
  <1>5. PutAt(k)'[q] = IF k \in DOMAIN todo'[q] /\ todo'[q][k].do = "put"
                       THEN todo'[q][k].slot ELSE 0
    BY DEF PutAt
  <1>6. s # 0  BY <1>2
  <1>7. CASE k \in DOMAIN todo'[q]
    <2>1. todo'[q][k] \in Task  BY <1>3, <1>7
    <2>2. QED  BY <1>4, <1>5, <1>6, <1>7, <2>1
  <1>8. CASE k \notin DOMAIN todo'[q]  BY <1>5, <1>6, <1>8
  <1>9. QED  BY <1>7, <1>8

\* A reference that is the last one is the only one.
LEMMA LastRef ==
    ASSUME RefInv, NEW p \in Proc, NEW q \in Proc, NEW s \in Slot, itable[s].ref = 1,
           todo[p] # <<>>, Head(todo[p]) = Put(s)
    PROVE  ~Refers(q, s) /\ (q # p => ~PutsTo(q, s))
  <1>1. itable[s].ref = Holds(cur, s) + Holds(ip, s) + Holds(cwd, s) + Holds(fd, s)
                 + Holds(PutAt(1), s) + Holds(PutAt(2), s) + Holds(PutAt(3), s)
    BY DEF RefInv, RefsExact
  <1>2. /\ Holds(cur, s) \in Nat /\ Holds(ip, s) \in Nat /\ Holds(cwd, s) \in Nat
        /\ Holds(fd, s) \in Nat /\ Holds(PutAt(1), s) \in Nat /\ Holds(PutAt(2), s) \in Nat
        /\ Holds(PutAt(3), s) \in Nat
    BY HoldsType
  <1>3. todo[p] \in Todos /\ todo[q] \in Todos  BY PlaceFacts
  <1>4. 1 \in DOMAIN todo[p] /\ todo[p][1] = Put(s)  BY <1>3 DEF Todos
  <1>5. PutAt(1)[p] = s  BY <1>4, PutAtIs
  <1>6. Holds(PutAt(1), s) >= 1  BY <1>5, HoldsOne
  <1>7. /\ Holds(cur, s) < 1 /\ Holds(ip, s) < 1 /\ Holds(cwd, s) < 1 /\ Holds(fd, s) < 1
        /\ Holds(PutAt(2), s) < 1 /\ Holds(PutAt(3), s) < 1 /\ Holds(PutAt(1), s) < 2
    BY ONLY <1>1, <1>2, <1>6, itable[s].ref = 1
  <1>8. cur[q] # s /\ ip[q] # s /\ cwd[q] # s /\ fd[q] # s
    BY <1>2, <1>7, HoldsOne
  <1>9. ASSUME q # p, NEW k \in DOMAIN todo[q], todo[q][k] = Put(s) PROVE FALSE
    <2>1. PutAt(k)[q] = s /\ k \in {1, 2, 3}  BY <1>3, <1>9, PutAtIs DEF Todos
    <2>2. Holds(PutAt(k), s) >= 1  BY <2>1, HoldsOne
    <2>3. k = 1  BY <1>2, <1>7, <2>1, <2>2
    <2>4. PICK f : f = PutAt(1)  OBVIOUS
    <2>5. Is(f[p], s) = 1 /\ Is(f[q], s) = 1  BY <1>5, <2>1, <2>3, <2>4 DEF Is
    <2>6. Holds(f, s) >= Is(f[p], s) + Is(f[q], s)  BY <1>9, HoldsTwo
    <2>7. QED  BY <1>2, <1>7, <2>4, <2>5, <2>6
  <1>10. QED  BY <1>8, <1>9 DEF Refers, PutsTo

\* Nobody refers to an inode that is being freed, or has an iput() of it to make.
LEMMA FreesLast ==
    ASSUME NameInv, NEW p \in Proc, NEW q \in Proc, NEW s \in Slot, Frees(p, s)
    PROVE  ~Refers(q, s) /\ (q # p => ~PutsTo(q, s))
  <1>1. RefInv /\ itable[s].ref = 1  BY DEF NameInv, DiskInv, Knows
  <1>2. putting[p] # "no" /\ s = Head(todo[p]).slot  BY DEF Frees, Todo
  <1>3. todo[p] # <<>> /\ Head(todo[p]).do = "put"  BY <1>1, <1>2 DEF RefInv, Place
  <1>4. todo[p] \in Todos  BY <1>1, PlaceFacts
  <1>5. Head(todo[p]) \in Task  BY <1>3, <1>4 DEF Todos
  <1>6. Head(todo[p]) = Put(s)  BY <1>2, <1>3, <1>5 DEF Task, Put
  <1>7. QED  BY <1>1, <1>3, <1>6, LastRef

\* The same processes point to the slot: so many they are.
LEMMA HoldsSame ==
    ASSUME NEW f, NEW g, NEW s, \A q \in Proc : f[q] = s <=> g[q] = s
    PROVE  Holds(f, s) = Holds(g, s)
  <1>1. {q \in Proc : f[q] = s} = {q \in Proc : g[q] = s}  OBVIOUS
  <1>2. QED  BY <1>1 DEF Holds

\* A step of p leaves the count of a slot that p points to neither before nor after.
LEMMA RefSame ==
    ASSUME RefInv, RefInv', NEW p \in Proc, Only(p), NEW s \in Slot,
           ~Refers(p, s), ~PutsTo(p, s), ~Refers(p, s)', ~PutsTo(p, s)'
    PROVE  itable'[s].ref = itable[s].ref
  <1>1. /\ itable[s].ref = Holds(cur, s) + Holds(ip, s) + Holds(cwd, s) + Holds(fd, s)
                 + Holds(PutAt(1), s) + Holds(PutAt(2), s) + Holds(PutAt(3), s)
        /\ itable'[s].ref = Holds(cur', s) + Holds(ip', s) + Holds(cwd', s) + Holds(fd', s)
                 + Holds(PutAt(1)', s) + Holds(PutAt(2)', s) + Holds(PutAt(3)', s)
    BY DEF RefInv, RefsExact, Holds
  <1>2. /\ Holds(cur', s) = Holds(cur, s) /\ Holds(ip', s) = Holds(ip, s)
        /\ Holds(cwd', s) = Holds(cwd, s) /\ Holds(fd', s) = Holds(fd, s)
    <2>1. \A q \in Proc : /\ cur'[q] = s <=> cur[q] = s
                          /\ ip'[q] = s <=> ip[q] = s
                          /\ cwd'[q] = s <=> cwd[q] = s
                          /\ fd'[q] = s <=> fd[q] = s
      BY DEF Only, Refers
    <2>2. QED  BY <2>1, HoldsSame
  <1>3. ASSUME NEW k PROVE Holds(PutAt(k)', s) = Holds(PutAt(k), s)
    <2>1. \A q \in Proc : PutAt(k)'[q] = s <=> PutAt(k)[q] = s
      <3>1. TAKE q \in Proc
      <3>2. PutAt(k)[q] = s <=> k \in DOMAIN todo[q] /\ todo[q][k] = Put(s)  BY PutAtIs
      <3>3. PutAt(k)'[q] = s <=> k \in DOMAIN todo'[q] /\ todo'[q][k] = Put(s)
        BY PutAtNext
      <3>4. CASE q = p  BY <3>2, <3>3, <3>4 DEF PutsTo
      <3>5. CASE q # p  BY <3>2, <3>3, <3>5 DEF Only
      <3>6. QED  BY <3>4, <3>5
    <2>2. QED  BY <2>1, HoldsSame
  <1>4. QED  BY <1>1, <1>2, <1>3

-----------------------------------------------------------------------------
(* What a step of one process does to what the others know: nothing.        *)

\* iget() has found an inode that has links, or has taken one that is free on disk.
Fetched(s) == /\ itable'[s].inum \in Inum
              /\ disk.inode[itable'[s].inum].type # "none"
                    => disk.inode[itable'[s].inum].nlink # 0

\* A step of p: entries keep their i-numbers, p fetches what it refers to from now on,
\* and puts only what it had.
Moves(p) ==
    /\ Only(p)
    /\ \A t \in Slot : itable[t].ref > 0 /\ itable'[t].ref > 0 => itable'[t].inum = itable[t].inum
    /\ \A s \in Slot : Refers(p, s)' => Refers(p, s) \/ Fetched(s)
    /\ \A s \in Slot : PutsTo(p, s)' => Refers(p, s) \/ PutsTo(p, s)

\* p writes inodes it refers to and that nobody else has locked; types change when p
\* frees; directories stay complete.
SameInode(i) == /\ disk'.content[i] = disk.content[i]
                /\ disk'.inode[i].nlink = disk.inode[i].nlink
Touches(p, s) == Mine(p, s) /\ (Refers(p, s) \/ Frees(p, s))
Changes(p) ==
    /\ \A i \in Alloc(disk) : SameInode(i) \/ \E s \in Slot : Touches(p, s) /\ Ino(s) = i
    /\ \A i \in Alloc(disk) : \/ disk'.inode[i].type = disk.inode[i].type
                              \/ \E s \in Slot : Frees(p, s) /\ Ino(s) = i
    /\ \A i \in Inum : IsDirOn(disk, i) /\ IsDirOn(disk', i) /\ Complete(disk, i)
                          => Complete(disk', i)

\* The inode that a process refers to keeps its i-number and its type when another steps.
LEMMA ReferredStays ==
    ASSUME NameInv, DiskInv', NEW p \in Proc, Moves(p), Changes(p), NEW q \in Proc, q # p,
           NEW s \in Slot, Refers(q, s), OnDisk(s)
    PROVE  /\ Ino(s) \in Inum /\ itable'[s].inum = Ino(s) /\ Ino(s) \in Alloc(disk)
           /\ disk'.inode[Ino(s)].type = disk.inode[Ino(s)].type
           /\ \A t \in Slot : itable[t].ref > 0 /\ Ino(t) = Ino(s) => t = s
  <1>1. RefInv /\ RefInv' /\ Coherent(itable, disk)  BY DEF NameInv, DiskInv
  <1>2. itable[s].ref > 0
    <2>1. Points(q, s)  BY DEF Points, Refers
    <2>2. QED  BY <1>1, <2>1, Counted1
  <1>3. itable'[s].ref > 0
    <2>1. Points(q, s)'  BY DEF Points, Refers, Moves, Only
    <2>2. QED  BY <1>1, <2>1, CountedNext
  <1>4. itable'[s].inum = Ino(s)  BY <1>2, <1>3 DEF Moves, Ino
  <1>5. Ino(s) \in Inum /\ Ino(s) \in Alloc(disk)  BY <1>1, <1>2 DEF Coherent, Ino, Alloc, OnDisk
  <1>6. \A t \in Slot : itable[t].ref > 0 /\ Ino(t) = Ino(s) => t = s
    BY <1>1, <1>2 DEF Coherent, Ino
  <1>7. ASSUME NEW t \in Slot, Frees(p, t), Ino(t) = Ino(s) PROVE FALSE
    <2>1. DiskInv  BY DEF NameInv
    <2>2. itable[t].ref > 0  BY <1>7, <2>1, FreesIs
    <2>3. t = s  BY <1>6, <1>7, <2>2
    <2>4. QED  BY <1>7, <2>3, FreesLast
  <1>8. disk'.inode[Ino(s)].type = disk.inode[Ino(s)].type  BY <1>5, <1>7 DEF Changes
  <1>9. QED  BY <1>4, <1>5, <1>6, <1>8

\* An inode that a process frees stays as it is when another steps.
LEMMA FreedStays ==
    ASSUME NameInv, DiskInv', NEW p \in Proc, Moves(p), Changes(p), NEW q \in Proc, q # p,
           NEW s \in Slot, Frees(q, s)'
    PROVE  itable'[s].ref = 1 /\ disk'.inode[itable'[s].inum].nlink = 0
  <1>1. DiskInv /\ RefInv /\ RefInv' /\ Coherent(itable, disk)  BY DEF NameInv, DiskInv
  <1>2. Frees(q, s)  BY DEF Frees, Todo, Moves, Only
  <1>3. /\ itable[s].ref > 0 /\ disk.inode[Ino(s)].type # "none" /\ holder[s] = q
        /\ Ino(s) \in Alloc(disk)
    BY <1>1, <1>2, FreesIs
  <1>4. itable[s].ref = 1 /\ disk.inode[Ino(s)].nlink = 0  BY <1>2 DEF NameInv, Knows
  <1>5. itable'[s].ref > 0
    <2>1. Locks(q)'  BY DEF DiskInv
    <2>2. Points(q, s)'
      <3>1. Locks(q) /\ Points(q, s)  BY <1>1, <1>2, LockPoints DEF DiskInv
      <3>2. QED  BY <3>1 DEF Points, Moves, Only
    <2>3. QED  BY <1>1, <2>2, CountedNext
  <1>6. itable'[s].inum = Ino(s)  BY <1>3, <1>5 DEF Moves, Ino
  <1>7. ~Refers(p, s) /\ ~PutsTo(p, s)  BY <1>2, FreesLast
  <1>8. ~Fetched(s)  BY <1>3, <1>4, <1>6 DEF Fetched, Ino
  <1>9. ~Refers(p, s)' /\ ~PutsTo(p, s)'  BY <1>7, <1>8 DEF Moves
  <1>10. itable'[s].ref = itable[s].ref  BY <1>1, <1>7, <1>9, RefSame DEF Moves
  <1>11. ASSUME NEW t \in Slot, Touches(p, t), Ino(t) = Ino(s) PROVE FALSE
    <2>1. t = s  BY <1>1, <1>3, <1>11 DEF Touches, Mine, Coherent, Ino
    <2>2. None \notin Proc  BY FsAssumption DEF FsAssumption
    <2>3. QED  BY <1>3, <1>11, <2>1, <2>2 DEF Touches, Mine
  <1>12. SameInode(Ino(s))  BY <1>3, <1>11 DEF Changes
  <1>13. QED  BY <1>4, <1>6, <1>10, <1>12 DEF SameInode

\* What another process knows stays true.
LEMMA KnowsOthers ==
    ASSUME NameInv, DiskInv', NEW p \in Proc, Moves(p), Changes(p), NEW q \in Proc, q # p
    PROVE  Knows(q)'
  <1>1. DiskInv /\ RefInv /\ RefInv' /\ Coherent(itable, disk) /\ Knows(q)
    BY DEF NameInv, DiskInv
  <1>2. /\ pc'[q] = pc[q] /\ rest'[q] = rest[q] /\ cur'[q] = cur[q] /\ ip'[q] = ip[q]
        /\ cwd'[q] = cwd[q] /\ fd'[q] = fd[q]
    BY DEF Moves, Only
  <1>3. /\ cwd[q] \in Slot /\ (cur[q] # 0 => cur[q] \in Slot) /\ (ip[q] # 0 => ip[q] \in Slot)
        /\ (fd[q] # 0 => fd[q] \in Slot) /\ Place(q)
    BY <1>1, PlaceFacts
  <1>4. ASSUME NEW s \in Slot, Refers(q, s)
        PROVE  /\ OnDisk(s) /\ itable'[s].inum = Ino(s) /\ Ino(s) \in Inum /\ Ino(s) \in Alloc(disk)
               /\ disk'.inode[Ino(s)].type = disk.inode[Ino(s)].type
               /\ \A t \in Slot : itable[t].ref > 0 /\ Ino(t) = Ino(s) => t = s
               /\ IsDirOn(disk, Ino(s)) /\ Complete(disk, Ino(s)) => Complete(disk', Ino(s))
    <2>1. s # 0  BY <1>1, PlaceFacts
    <2>2. OnDisk(s)  BY <1>1, <1>4, <2>1 DEF Knows, Refers
    <2>3. /\ itable'[s].inum = Ino(s) /\ Ino(s) \in Inum /\ Ino(s) \in Alloc(disk)
          /\ disk'.inode[Ino(s)].type = disk.inode[Ino(s)].type
          /\ \A t \in Slot : itable[t].ref > 0 /\ Ino(t) = Ino(s) => t = s
      BY <1>4, <2>2, ReferredStays
    <2>4. IsDirOn(disk, Ino(s)) /\ Complete(disk, Ino(s)) => Complete(disk', Ino(s))
      BY <2>3 DEF Changes, IsDirOn
    <2>5. QED  BY <2>2, <2>3, <2>4
  <1>5. ASSUME NEW s \in Slot, Refers(q, s), \A t \in Slot : Touches(p, t) => t # s
        PROVE  SameInode(Ino(s))
    <2>1. \A t \in Slot : Touches(p, t) => Ino(t) # Ino(s)  BY <1>4, <1>5 DEF Touches, Mine
    <2>2. QED  BY <1>4, <1>5, <2>1 DEF Changes
  <1>6. ASSUME NEW s \in Slot, Refers(q, s) PROVE Refers(q, s)' /\ Ino(s)' = Ino(s)
    BY <1>2, <1>4, <1>6 DEF Refers, Ino
  <1>7. Rests(q)'  BY <1>1, <1>2 DEF Knows, Rests
  <1>8. (OnDisk(cwd[q]) /\ IsDirOn(disk, Ino(cwd[q])) /\ Complete(disk, Ino(cwd[q])))'
    <2>1. Refers(q, cwd[q])  BY DEF Refers
    <2>2. QED  BY <1>1, <1>2, <1>3, <1>4, <2>1 DEF Knows, OnDisk, Ino, IsDirOn
  <1>9. (fd[q] # 0 => OnDisk(fd[q]))'
    <2>1. Refers(q, fd[q])  BY DEF Refers
    <2>2. QED  BY <1>1, <1>2, <1>3, <1>4, <2>1 DEF Knows, OnDisk, Ino
  <1>10. /\ (ip[q] # 0 => OnDisk(ip[q]))'
         /\ (pc[q] \in {"link", "parent", "link2", "linkbad"} /\ ip[q] # 0
               => ~IsDirOn(disk, Ino(ip[q])))'
    <2>1. CASE ip[q] = 0  BY <1>2, <2>1
    <2>2. CASE ip[q] # 0
      <3>1. PICK s : s = ip[q]  OBVIOUS
      <3>2. s \in Slot /\ Refers(q, s)  BY <1>3, <2>2, <3>1 DEF Refers
      <3>3. /\ itable'[s].inum = Ino(s) /\ disk.inode[Ino(s)].type # "none"
            /\ disk'.inode[Ino(s)].type = disk.inode[Ino(s)].type
        BY <1>4, <3>2 DEF OnDisk
      <3>4. (ip[q] # 0 => OnDisk(ip[q]))'  BY <1>2, <3>1, <3>3 DEF OnDisk, Ino
      <3>5. pc[q] \in {"link", "parent", "link2", "linkbad"} => ~IsDirOn(disk, Ino(s))
        BY <1>1, <2>2, <3>1 DEF Knows
      <3>6. QED  BY <1>2, <3>1, <3>3, <3>4, <3>5 DEF IsDirOn, Ino
    <2>3. QED  BY <2>1, <2>2
  <1>11. (cur[q] # 0 => OnDisk(cur[q]) /\ Enters(cur[q]))'
    <2>1. Refers(q, cur[q])  BY DEF Refers
    <2>2. QED  BY <1>1, <1>2, <1>3, <1>4, <2>1 DEF Knows, OnDisk, Enters, Ino, IsDirOn
  <1>12. (pc[q] \in {"link2", "unlink1", "unlink2", "create1", "create2"}
            => IsDirOn(disk, Ino(cur[q])))'
    <2>1. Refers(q, cur[q])  BY DEF Refers
    <2>2. pc[q] \in {"link2", "unlink1", "unlink2", "create1", "create2"} => cur[q] \in Slot
      BY <1>3 DEF Place
    <2>3. QED  BY <1>1, <1>2, <1>4, <2>1, <2>2 DEF Knows, Ino, IsDirOn
  <1>13. ASSUME pc[q] = "unlink2"
         PROVE  /\ Elem(rest'[q]) \notin {".", ".."}
                /\ disk'.content[itable'[cur'[q]].inum][
                      Dirlookup(disk', itable'[cur'[q]].inum, Elem(rest'[q]))].inum
                     = itable'[ip'[q]].inum
    <2>1. cur[q] \in Slot /\ ip[q] \in Slot /\ Refers(q, cur[q]) /\ Refers(q, ip[q])
      BY <1>3, <1>13 DEF Place, Refers
    <2>2. holder[cur[q]] = q  BY <1>1, <1>13, <2>1 DEF DiskInv, Locks, Keeps
    <2>3. None \notin Proc  BY FsAssumption DEF FsAssumption
    <2>4. \A t \in Slot : Touches(p, t) => t # cur[q]  BY <2>2, <2>3 DEF Touches, Mine
    <2>5. disk'.content[Ino(cur[q])] = disk.content[Ino(cur[q])]
      BY <1>5, <2>1, <2>4 DEF SameInode
    <2>6. Dirlookup(disk', Ino(cur[q]), Elem(rest[q])) = Dirlookup(disk, Ino(cur[q]), Elem(rest[q]))
      BY <2>5 DEF Dirlookup
    <2>7. itable'[cur[q]].inum = Ino(cur[q]) /\ itable'[ip[q]].inum = Ino(ip[q])  BY <1>4, <2>1
    <2>8. QED  BY <1>1, <1>2, <1>13, <2>5, <2>6, <2>7 DEF Knows
  <1>14. ASSUME pc[q] = "create2"
         PROVE  /\ disk'.content[itable'[ip'[q]].inum] = <<>>
                /\ disk'.inode[itable'[ip'[q]].inum].nlink = 0
                /\ Alone(q, ip[q])'
    <2>1. ip[q] \in Slot /\ Refers(q, ip[q])  BY <1>3, <1>14 DEF Place, Refers
    <2>2. /\ disk.content[Ino(ip[q])] = <<>> /\ disk.inode[Ino(ip[q])].nlink = 0
          /\ Alone(q, ip[q])
      BY <1>1, <1>14 DEF Knows
    <2>3. ~Refers(p, ip[q])  BY <2>2 DEF Alone, Refers
    <2>4. ~Frees(p, ip[q])  BY <2>1, FreesLast
    <2>5. \A t \in Slot : Touches(p, t) => t # ip[q]  BY <2>3, <2>4 DEF Touches
    <2>6. SameInode(Ino(ip[q]))  BY <1>5, <2>1, <2>5
    <2>7. itable'[ip[q]].inum = Ino(ip[q]) /\ disk.inode[Ino(ip[q])].type # "none"
      BY <1>4, <2>1 DEF OnDisk
    <2>8. ~Fetched(ip[q])  BY <2>2, <2>7 DEF Fetched
    <2>9. ~Refers(p, ip[q])'
      <3>1. \A s \in Slot : Refers(p, s)' => Refers(p, s) \/ Fetched(s)  BY DEF Moves
      <3>2. PICK s : s = ip[q]  OBVIOUS
      <3>3. ~Refers(p, s)'  BY <2>1, <2>3, <2>8, <3>1, <3>2
      <3>4. QED  BY <1>2, <3>2, <3>3 DEF Refers
    <2>10. Alone(q, ip[q])'
      <3>1. ASSUME NEW r \in Proc
            PROVE  ip'[q] \notin {cur'[r], cwd'[r], fd'[r]} /\ (r # q => ip'[r] # ip'[q])
        <4>1. CASE r = p  BY <2>9, <4>1 DEF Refers
        <4>2. CASE r # p
          <5>1. /\ cur'[r] = cur[r] /\ ip'[r] = ip[r] /\ cwd'[r] = cwd[r] /\ fd'[r] = fd[r]
            BY <4>2 DEF Moves, Only
          <5>2. QED  BY <1>2, <2>2, <5>1 DEF Alone
        <4>3. QED  BY <4>1, <4>2
      <3>2. QED  BY <3>1 DEF Alone
    <2>11. QED  BY <1>2, <2>2, <2>6, <2>7, <2>10 DEF SameInode
  <1>15. \A s \in Slot :
           Frees(q, s)' => itable'[s].ref = 1 /\ disk'.inode[itable'[s].inum].nlink = 0
    BY FreedStays
  <1>16. QED
    BY <1>2, <1>7, <1>8, <1>9, <1>10, <1>11, <1>12, <1>13, <1>14, <1>15 DEF Knows, Ino

-----------------------------------------------------------------------------
(* Links and names of a disk, and the calls in between.                     *)

\* Directories and what they hold are the same.
SameDirs(D, E) == \A d \in Inum : /\ IsDirOn(E, d) <=> IsDirOn(D, d)
                                  /\ IsDirOn(D, d) => E.content[d] = D.content[d]

\* The same directories are the same tree, with the same links.
LEMMA SameTree ==
    ASSUME NEW D, NEW E, SameDirs(D, E)
    PROVE  /\ \A d, k, i : Says(E, d, k, i) <=> Says(D, d, k, i)
           /\ \A i : HasName(E, i) <=> HasName(D, i)
           /\ \A i : Linked(E, i) = Linked(D, i)
           /\ \A d \in Inum : IsDirOn(D, d) => (Complete(E, d) <=> Complete(D, d))
           /\ Tree(D) => Tree(E)
  <1>1. \A d, k, i : Says(E, d, k, i) <=> Says(D, d, k, i)  BY DEF SameDirs, Says
  <1>2. \A i : HasName(E, i) <=> HasName(D, i)  BY <1>1 DEF HasName
  <1>3. \A d, i : Up(E, d, i) <=> Up(D, d, i)  BY <1>2 DEF Up, SameDirs
  <1>4. \A d, k, i : Link(E, d, k, i) <=> Link(D, d, k, i)  BY <1>1, <1>3 DEF Link
  <1>5. \A i : Linked(E, i) = Linked(D, i)  BY <1>4 DEF Linked
  <1>6. \A d \in Inum : IsDirOn(D, d) => (Complete(E, d) <=> Complete(D, d))
    BY DEF SameDirs, Complete
  <1>7. ASSUME Tree(D) PROVE Tree(E)
    <2>1. ROOTINO \in Inum
      BY FsAssumption, InodeAssumption DEF FsAssumption, InodeAssumption, Inum, ROOTINO
    <2>2. IsDirOn(E, ROOTINO) /\ E.content[ROOTINO][2].inum = ROOTINO
      BY <1>7, <2>1 DEF Tree, SameDirs
    <2>3. \A d \in Inum : IsDirOn(E, d) =>
             /\ HasName(E, d) => Complete(E, d)
             /\ ~Complete(E, d) => Len(E.content[d]) <= 2
      BY <1>2, <1>6, <1>7 DEF Tree, SameDirs
    <2>4. ASSUME NEW d, NEW k, NEW i, Says(E, d, k, i), i \in Inum, IsDirOn(E, i)
          PROVE  /\ i # ROOTINO /\ E.content[i][2].inum = d
                 /\ \A e, l : Says(E, e, l, i) => e = d /\ l = k
      <3>1. Says(D, d, k, i) /\ IsDirOn(D, i) /\ E.content[i] = D.content[i]
        BY <1>1, <2>4 DEF SameDirs
      <3>2. QED  BY <1>1, <1>7, <2>4, <3>1 DEF Tree
    <2>5. QED  BY <2>2, <2>3, <2>4 DEF Tree
  <1>8. QED  BY <1>1, <1>2, <1>5, <1>6, <1>7

\* Subsets, and sets with one element more or less.
LEMMA Fewer ==
    ASSUME NEW S, NEW T, IsFiniteSet(S), NEW x
    PROVE  /\ Cardinality(S) \in Nat
           /\ T \subseteq S => IsFiniteSet(T) /\ Cardinality(T) <= Cardinality(S)
           /\ T \subseteq S \cup {x} => IsFiniteSet(T) /\ Cardinality(T) <= Cardinality(S) + 1
           /\ T \subseteq S \ {x} /\ x \in S
                => IsFiniteSet(T) /\ Cardinality(T) <= Cardinality(S) - 1
           /\ x \in S => Cardinality(S) >= 1
  <1>1. Cardinality(S) \in Nat  BY FS_CardinalityType
  <1>2. ASSUME NEW U, IsFiniteSet(U), T \subseteq U
        PROVE  IsFiniteSet(T) /\ Cardinality(T) <= Cardinality(U)
    BY <1>2, FS_Subset
  <1>3. /\ IsFiniteSet(S \cup {x})
        /\ Cardinality(S \cup {x}) = Cardinality(S) \/ Cardinality(S \cup {x}) = Cardinality(S) + 1
    BY <1>1, FS_AddElement
  <1>4. ASSUME T \subseteq S \cup {x}
        PROVE  IsFiniteSet(T) /\ Cardinality(T) <= Cardinality(S) + 1
    <2>1. IsFiniteSet(T) /\ Cardinality(T) <= Cardinality(S \cup {x})  BY <1>2, <1>3, <1>4
    <2>2. Cardinality(T) \in Nat  BY <2>1, FS_CardinalityType
    <2>3. QED  BY <1>1, <1>3, <2>1, <2>2
  <1>5. ASSUME T \subseteq S \ {x}, x \in S
        PROVE  IsFiniteSet(T) /\ Cardinality(T) <= Cardinality(S) - 1
    <2>1. IsFiniteSet(S \ {x}) /\ Cardinality(S \ {x}) = Cardinality(S) - 1
      BY <1>5, FS_RemoveElement
    <2>2. IsFiniteSet(T) /\ Cardinality(T) <= Cardinality(S \ {x})  BY <1>2, <1>5, <2>1
    <2>3. QED  BY <2>1, <2>2
  <1>6. x \in S => Cardinality(S) # 0  BY FS_EmptySet
  <1>7. QED  BY <1>1, <1>2, <1>4, <1>5, <1>6

\* An inode whose links change by n, its names by at most k and the calls by m.
LEMMA CoversMove ==
    ASSUME NEW D, NEW E, NEW i, i \in Alloc(D), i \in Alloc(E), NEW b, b \in Nat, NEW c, c \in Nat,
           D.inode[i].nlink \in Int, E.inode[i].nlink \in Int, Covers(D, i, b),
           NEW k, k \in Int, NEW m, m \in Int, NEW n, n \in Int, k + m <= n,
           IsFiniteSet(Linked(E, i)), Cardinality(Linked(E, i)) <= Cardinality(Linked(D, i)) + k,
           c <= b + m, E.inode[i].nlink >= D.inode[i].nlink + n
    PROVE  Covers(E, i, c)
  <1>1. Cardinality(Linked(D, i)) \in Nat /\ Cardinality(Linked(E, i)) \in Nat
    BY FS_CardinalityType DEF Covers
  <1>2. D.inode[i].nlink >= Cardinality(Linked(D, i)) + b  BY DEF Covers
  <1>3. E.inode[i].nlink >= Cardinality(Linked(E, i)) + c  BY <1>1, <1>2
  <1>4. QED  BY <1>3 DEF Covers

\* An inode that keeps its links and gets no name and no call.
LEMMA CoversSame ==
    ASSUME NEW D, NEW E, NEW i, i \in Inum, NEW b, b \in Nat, NEW c, c \in Nat,
           D.inode[i].nlink \in Int, Covers(D, i, b), Linked(E, i) \subseteq Linked(D, i), c <= b,
           i \in Alloc(E) <=> i \in Alloc(D),
           E.inode[i].nlink = D.inode[i].nlink
    PROVE  Covers(E, i, c)
  <1>1. /\ Cardinality(Linked(D, i)) \in Nat /\ IsFiniteSet(Linked(E, i))
        /\ Cardinality(Linked(E, i)) <= Cardinality(Linked(D, i))
    BY Fewer DEF Covers
  <1>2. CASE i \in Alloc(D)
    <2>1. 0 \in Int /\ 0 + 0 <= 0 /\ c <= b + 0 /\ E.inode[i].nlink >= D.inode[i].nlink + 0
          /\ Cardinality(Linked(E, i)) <= Cardinality(Linked(D, i)) + 0 /\ E.inode[i].nlink \in Int
      BY <1>1, FS_CardinalityType
    <2>2. QED  BY <1>1, <1>2, <2>1, CoversMove
  <1>3. CASE i \notin Alloc(D)
    <2>1. Linked(D, i) = {} /\ b = 0  BY <1>3 DEF Covers
    <2>2. Linked(E, i) = {} /\ c = 0  BY <2>1
    <2>3. QED  BY <1>1, <1>3, <2>2 DEF Covers
  <1>4. QED  BY <1>2, <1>3

\* A step of p puts at most p into, or takes p out of, the calls in between.
LEMMA BetweenStep ==
    ASSUME NameInv, DiskInv', NEW p \in Proc, Moves(p), NEW i, i \in Inum
    PROVE  /\ Cardinality(Between(i)) \in Nat /\ Cardinality(Between(i)') \in Nat
           /\ (p \in Between(i)' => p \in Between(i))
                => Cardinality(Between(i)') <= Cardinality(Between(i))
           /\ p \in Between(i) /\ p \notin Between(i)'
                => Cardinality(Between(i)') <= Cardinality(Between(i)) - 1
           /\ Cardinality(Between(i)') <= Cardinality(Between(i)) + 1
           /\ p \in Between(i) => Cardinality(Between(i)) >= 1
  <1>1. RefInv /\ RefInv'  BY DEF NameInv, DiskInv
  <1>2. ASSUME NEW q \in Proc, q # p PROVE q \in Between(i)' <=> q \in Between(i)
    <2>1. pc'[q] = pc[q] /\ ip'[q] = ip[q]  BY <1>2 DEF Moves, Only
    <2>2. ip[q] # 0 => ip[q] \in Slot  BY <1>1, PlaceFacts
    <2>3. ip[q] # 0 => itable[ip[q]].ref > 0 /\ itable'[ip[q]].ref > 0
      <3>1. Points(q, ip[q]) /\ Points(q, ip[q])'  BY DEF Points
      <3>2. QED  BY <1>1, <2>1, <2>2, <3>1, Counted1, CountedNext
    <2>4. ip[q] # 0 => itable'[ip[q]].inum = itable[ip[q]].inum  BY <2>2, <2>3 DEF Moves
    <2>5. QED  BY <2>1, <2>4 DEF Between, Ino
  <1>3. PICK S, T : S = Between(i) /\ T = Between(i)'  OBVIOUS
  <1>4. S \subseteq Proc /\ T \subseteq Proc  BY <1>3 DEF Between
  <1>5. IsFiniteSet(S) /\ IsFiniteSet(T)  BY <1>4, FsAssumption, FS_Subset DEF FsAssumption
  <1>6. /\ T \subseteq S \cup {p} /\ (p \in T => p \in S) => T \subseteq S
        /\ p \in S /\ p \notin T => T \subseteq S \ {p}
        /\ T \subseteq S \cup {p}
    BY <1>2, <1>3, <1>4
  <1>7. Cardinality(T) \in Nat  BY <1>5, FS_CardinalityType
  <1>8. /\ Cardinality(S) \in Nat
        /\ T \subseteq S => Cardinality(T) <= Cardinality(S)
        /\ T \subseteq S \cup {p} => Cardinality(T) <= Cardinality(S) + 1
        /\ T \subseteq S \ {p} /\ p \in S => Cardinality(T) <= Cardinality(S) - 1
        /\ p \in S => Cardinality(S) >= 1
    BY <1>5, Fewer
  <1>9. QED  BY <1>3, <1>6, <1>7, <1>8

\* Numbers of links are integers.
LEMMA NlinkInt ==
    ASSUME NEW D, DiskOK(D), NEW i, i \in Inum PROVE D.inode[i].nlink \in Int
  BY DEF DiskOK, IsDisk, IsNode

\* All that a step of p must do to keep the invariant.
LEMMA NameStep ==
    ASSUME NameInv, DiskInv', NEW p \in Proc, Moves(p), Changes(p), Knows(p)', Tree(disk'),
           \A i \in Inum : Covers(disk', i, Cardinality(Between(i)'))
    PROVE  NameInv'
  <1>1. \A q \in Proc : Knows(q)'  BY KnowsOthers
  <1>2. QED  BY <1>1 DEF NameInv, Covers

\* A step that changes no directory and no number of links, and brings no call in between.
LEMMA SameStep ==
    ASSUME NameInv, DiskInv', NEW p \in Proc, Moves(p), Changes(p), Knows(p)',
           SameDirs(disk, disk'), Alloc(disk') = Alloc(disk),
           \A i \in Inum : disk'.inode[i].nlink = disk.inode[i].nlink,
           \A i \in Inum : p \in Between(i)' => p \in Between(i)
    PROVE  NameInv'
  <1>1. DiskOK(disk) /\ Tree(disk)  BY DEF NameInv, DiskInv
  <1>2. Tree(disk') /\ \A i : Linked(disk', i) = Linked(disk, i)  BY <1>1, SameTree
  <1>3. ASSUME NEW i, i \in Inum PROVE Covers(disk', i, Cardinality(Between(i)'))
    <2>1. PICK b, c : b = Cardinality(Between(i)) /\ c = Cardinality(Between(i)')  OBVIOUS
    <2>2. b \in Nat /\ c \in Nat /\ c <= b  BY <1>3, <2>1, BetweenStep
    <2>3. Covers(disk, i, b) /\ disk.inode[i].nlink \in Int
      BY <1>1, <1>3, <2>1, NlinkInt DEF NameInv
    <2>4. Linked(disk', i) \subseteq Linked(disk, i)  BY <1>2
    <2>5. Covers(disk', i, c)  BY <1>3, <2>2, <2>3, <2>4, CoversSame
    <2>6. QED  BY <2>1, <2>5
  <1>4. QED  BY <1>2, <1>3, NameStep

\* The disk does not change.
LEMMA QuietStep ==
    ASSUME NameInv, DiskInv', NEW p \in Proc, Moves(p), Knows(p)', disk' = disk,
           \A i \in Inum : p \in Between(i)' => p \in Between(i)
    PROVE  NameInv'
  <1>1. Changes(p)  BY DEF Changes, SameInode
  <1>2. SameDirs(disk, disk')  BY DEF SameDirs
  <1>3. Alloc(disk') = Alloc(disk)  OBVIOUS
  <1>4. QED  BY <1>1, <1>2, <1>3, SameStep

-----------------------------------------------------------------------------
(* What a step of p leaves p to know.                                       *)

\* A pointer of p after a step: none, one it had, or one that iget() fetched.
Had(p, x) == x = 0 \/ Refers(p, x) \/ (x \in Slot /\ Fetched(x))
Nums == \A t \in Slot : itable[t].ref > 0 /\ itable'[t].ref > 0 => itable'[t].inum = itable[t].inum
\* The iput() calls of t are of what p had.
OfHad(p, t) == \A k \in DOMAIN t : \A s \in Slot : t[k] = Put(s) => Refers(p, s) \/ PutsTo(p, s)

\* A step is a move when each pointer and each task is one that p had.
LEMMA MovesIs ==
    ASSUME RefInv, NEW p \in Proc, Only(p), Nums, OfHad(p, todo'[p]),
           Had(p, cur'[p]), Had(p, ip'[p]), Had(p, cwd'[p]), Had(p, fd'[p])
    PROVE  Moves(p)
  <1>1. 0 \notin Slot  BY PlaceFacts
  <1>2. ASSUME NEW s \in Slot, Refers(p, s)' PROVE Refers(p, s) \/ Fetched(s)
    <2>1. s = cur'[p] \/ s = ip'[p] \/ s = cwd'[p] \/ s = fd'[p]  BY <1>2 DEF Refers
    <2>2. s # 0  BY <1>1
    <2>3. Had(p, s)  BY <2>1
    <2>4. QED  BY <2>2, <2>3 DEF Had
  <1>3. ASSUME NEW s \in Slot, PutsTo(p, s)' PROVE Refers(p, s) \/ PutsTo(p, s)
    BY <1>3 DEF PutsTo, OfHad
  <1>4. QED  BY <1>2, <1>3 DEF Moves, Nums

\* The lists of tasks that the calls leave to themselves.
LEMMA TasksHad ==
    ASSUME NEW p \in Proc, NEW a, Refers(p, a), NEW b, Refers(p, b)
    PROVE  /\ OfHad(p, <<>>) /\ OfHad(p, <<Put(a)>>) /\ OfHad(p, <<Put(a), Put(b)>>)
           /\ OfHad(p, <<Put(a), Unlock(b), Put(b)>>)
  <1>1. \A x, y : Put(x) = Put(y) => x = y  BY DEF Put
  <1>2. \A x, y : Unlock(x) # Put(y)  BY DEF Put, Unlock
  <1>3. OfHad(p, <<>>)  BY DEF OfHad
  <1>4. OfHad(p, <<Put(a)>>)  BY <1>1 DEF OfHad
  <1>5. OfHad(p, <<Put(a), Put(b)>>)  BY <1>1 DEF OfHad
  <1>6. OfHad(p, <<Put(a), Unlock(b), Put(b)>>)  BY <1>1, <1>2 DEF OfHad
  <1>7. QED  BY <1>3, <1>4, <1>5, <1>6

\* An inode that p refers to before and after a step.
Stays(s) == /\ itable'[s].inum = Ino(s) /\ Ino(s) \in Inum
            /\ disk.inode[Ino(s)].type # "none"
            /\ disk'.inode[Ino(s)].type = disk.inode[Ino(s)].type
            /\ IsDirOn(disk, Ino(s)) /\ Complete(disk, Ino(s)) => Complete(disk', Ino(s))

LEMMA SelfStays ==
    ASSUME NameInv, DiskInv', NEW p \in Proc, Moves(p), Changes(p), NEW s, s # 0,
           Refers(p, s), Refers(p, s)' \/ PutsTo(p, s)'
    PROVE  Stays(s)
  <1>1. DiskInv /\ RefInv /\ RefInv' /\ Coherent(itable, disk) /\ Knows(p)
    BY DEF NameInv, DiskInv
  <1>2. s \in Slot  BY <1>1, PlaceFacts DEF Refers
  <1>3. OnDisk(s)  BY <1>1 DEF Refers, Knows
  <1>4. itable[s].ref > 0
    <2>1. Points(p, s)  BY DEF Points, Refers
    <2>2. QED  BY <1>1, <1>2, <2>1, Counted1
  <1>5. itable'[s].ref > 0
    <2>1. Points(p, s)'  BY DEF Points, Refers, PutsTo
    <2>2. QED  BY <1>1, <1>2, <2>1, CountedNext
  <1>6. itable'[s].inum = Ino(s)  BY <1>2, <1>4, <1>5 DEF Moves, Ino
  <1>7. Ino(s) \in Inum /\ Ino(s) \in Alloc(disk)
    BY <1>1, <1>2, <1>3, <1>4 DEF Coherent, Ino, Alloc, OnDisk
  <1>8. ASSUME NEW t \in Slot, Frees(p, t), Ino(t) = Ino(s) PROVE FALSE
    <2>1. itable[t].ref > 0  BY <1>1, <1>8, FreesIs
    <2>2. t = s  BY <1>1, <1>2, <1>4, <1>8, <2>1 DEF Coherent, Ino
    <2>3. QED  BY <1>8, <2>2, FreesLast
  <1>9. disk'.inode[Ino(s)].type = disk.inode[Ino(s)].type  BY <1>7, <1>8 DEF Changes
  <1>10. IsDirOn(disk, Ino(s)) /\ Complete(disk, Ino(s)) => Complete(disk', Ino(s))
    BY <1>7, <1>9 DEF Changes, IsDirOn
  <1>11. QED  BY <1>3, <1>6, <1>7, <1>9, <1>10 DEF Stays, OnDisk

\* The current directory and the open file after a step.
CwdOK(p) == cwd'[p] = cwd[p] \/ (cwd'[p] = cur[p] /\ IsDirOn(disk, Ino(cur[p])))
FdOK(p)  == fd'[p] \in {0, fd[p], cur[p], ip[p]}

LEMMA KnowsAll ==
    ASSUME NameInv, DiskInv', NEW p \in Proc, Moves(p), Changes(p), Rests(p)',
           CwdOK(p), FdOK(p),
           (cur[p] # 0 => OnDisk(cur[p]) /\ Enters(cur[p]))',
           (ip[p] # 0 => OnDisk(ip[p]))',
           (pc[p] \in {"link2", "unlink1", "create1"} => IsDirOn(disk, Ino(cur[p])))',
           (pc[p] \in {"link", "parent", "link2", "linkbad"} /\ ip[p] # 0
              => ~IsDirOn(disk, Ino(ip[p])))',
           pc'[p] \notin {"unlink2", "create2"},
           (\A s \in Slot : Frees(p, s) => itable[s].ref = 1 /\ disk.inode[Ino(s)].nlink = 0)'
    PROVE  Knows(p)'
  <1>1. RefInv /\ RefInv' /\ Knows(p) /\ 0 \notin Slot  BY PlaceFacts DEF NameInv, DiskInv
  <1>2. cwd'[p] \in Slot  BY <1>1 DEF RefInv, ProcTypes
  <1>3. (OnDisk(cwd[p]) /\ IsDirOn(disk, Ino(cwd[p])) /\ Complete(disk, Ino(cwd[p])))'
    <2>1. PICK s : s = cwd'[p]  OBVIOUS
    <2>2. s # 0 /\ Refers(p, s) /\ Refers(p, s)'  BY <1>1, <1>2, <2>1 DEF CwdOK, Refers
    <2>3. Stays(s)  BY <2>2, SelfStays
    <2>4. IsDirOn(disk, Ino(s)) /\ Complete(disk, Ino(s))
      BY <1>1, <2>1, <2>2 DEF CwdOK, Knows, Enters
    <2>5. QED  BY <2>1, <2>3, <2>4 DEF Stays, OnDisk, IsDirOn, Ino
  <1>4. (fd[p] # 0 => OnDisk(fd[p]))'
    <2> SUFFICES ASSUME fd'[p] # 0 PROVE OnDisk(fd[p])'  OBVIOUS
    <2>1. PICK s : s = fd'[p]  OBVIOUS
    <2>2. s # 0 /\ Refers(p, s) /\ Refers(p, s)'  BY <2>1 DEF FdOK, Refers
    <2>3. Stays(s)  BY <2>2, SelfStays
    <2>4. QED  BY <2>1, <2>3 DEF Stays, OnDisk, Ino
  <1>5. QED  BY <1>3, <1>4 DEF Knows

\* The same for a step after which p frees nothing.
LEMMA KnowsSelf ==
    ASSUME NameInv, DiskInv', NEW p \in Proc, Moves(p), Changes(p), Rests(p)',
           CwdOK(p), FdOK(p),
           (cur[p] # 0 => OnDisk(cur[p]) /\ Enters(cur[p]))',
           (ip[p] # 0 => OnDisk(ip[p]))',
           (pc[p] \in {"link2", "unlink1", "create1"} => IsDirOn(disk, Ino(cur[p])))',
           (pc[p] \in {"link", "parent", "link2", "linkbad"} /\ ip[p] # 0
              => ~IsDirOn(disk, Ino(ip[p])))',
           pc'[p] \notin {"unlink2", "create2"}, putting'[p] # "free"
    PROVE  Knows(p)'
  <1>1. \A s \in Slot : ~Frees(p, s)'  BY DEF Frees
  <1>2. QED  BY <1>1, KnowsAll

\* The call returns.
LEMMA ReturnKnows ==
    ASSUME NameInv, DiskInv', NEW p \in Proc, NEW t \in Todos, Return(p, t), OfHad(p, t), Kept(p),
           Nums, Changes(p), CwdOK(p), FdOK(p), putting'[p] # "free"
    PROVE  Moves(p) /\ Knows(p)' /\ \A i : p \notin Between(i)'
  <1>1. RefInv /\ ProcTypes  BY DEF NameInv, DiskInv, RefInv
  <1>2. CallVars(p, "user", 0, 0, t)  BY <1>1, ReturnIs
  <1>3. Only(p)  BY <1>2 DEF Only, CallVars, Kept
  <1>4. pc'[p] = "user" /\ cur'[p] = 0 /\ ip'[p] = 0 /\ todo'[p] = t  BY <1>2 DEF CallVars
  <1>5. rest'[p] = <<>>  BY <1>1 DEF Return, ProcTypes
  <1>6. Had(p, cur'[p]) /\ Had(p, ip'[p]) /\ Had(p, cwd'[p]) /\ Had(p, fd'[p])
    BY <1>4 DEF Had, CwdOK, FdOK, Refers
  <1>7. Moves(p)  BY <1>1, <1>3, <1>4, <1>6, MovesIs
  <1>8. Rests(p)'  BY <1>5 DEF Rests
  <1>9. Knows(p)'  BY <1>4, <1>7, <1>8, KnowsSelf
  <1>10. \A i : p \notin Between(i)'  BY <1>4 DEF Between
  <1>11. QED  BY <1>7, <1>9, <1>10

\* namex() finds nothing.
LEMMA FailedKnows ==
    ASSUME NameInv, DiskInv', NEW p \in Proc, NEW t \in Todos, Failed(p, t), OfHad(p, t),
           UNCHANGED <<cwd, fd, putting>>, Nums, Changes(p), putting[p] # "free",
           ip[p] # 0 => pc[p] \in {"parent", "link2"}
    PROVE  Moves(p) /\ Knows(p)' /\ \A i : p \in Between(i)' => p \in Between(i)
  <1>1. RefInv /\ ProcTypes /\ Knows(p)  BY DEF NameInv, DiskInv, RefInv
  <1>2. CwdOK(p) /\ FdOK(p)  BY DEF CwdOK, FdOK
  <1>3. CASE ip[p] = 0
    <2>1. Return(p, t)  BY <1>3 DEF Failed
    <2>2. Kept(p)
      <3>1. holder' \in [Slot -> Proc \cup {None}]  BY DEF DiskInv, RefInv, ProcTypes
      <3>2. QED  BY <1>1, <3>1, KeptIs
    <2>3. QED  BY <1>2, <2>1, <2>2, ReturnKnows
  <1>4. CASE ip[p] # 0
    <2>1. /\ CallVars(p, "linkbad", 0, ip[p], t) /\ rest'[p] = rest[p]
      BY <1>1, <1>4, FailedIs
    <2>2. Only(p)  BY <2>1 DEF Only, CallVars
    <2>3. pc'[p] = "linkbad" /\ cur'[p] = 0 /\ ip'[p] = ip[p] /\ todo'[p] = t
      BY <2>1 DEF CallVars
    <2>4. Had(p, cur'[p]) /\ Had(p, ip'[p]) /\ Had(p, cwd'[p]) /\ Had(p, fd'[p])
      BY <2>3 DEF Had, Refers
    <2>5. Moves(p)  BY <1>1, <2>2, <2>3, <2>4, MovesIs
    <2>6. Stays(ip[p])
      <3>1. PICK s : s = ip[p]  OBVIOUS
      <3>2. s # 0 /\ Refers(p, s) /\ Refers(p, s)'  BY <1>4, <2>3, <3>1 DEF Refers
      <3>3. Stays(s)  BY <2>5, <3>2, SelfStays
      <3>4. QED  BY <3>1, <3>3
    <2>7. Rests(p)'  BY <1>1, <2>1 DEF Rests, Knows
    <2>8. ~IsDirOn(disk, Ino(ip[p]))  BY <1>1, <1>4 DEF Knows
    <2>9. (ip[p] # 0 => OnDisk(ip[p]) /\ ~IsDirOn(disk, Ino(ip[p])))'
      BY <2>3, <2>6, <2>8 DEF Stays, OnDisk, IsDirOn, Ino
    <2>10. Knows(p)'  BY <1>2, <2>3, <2>5, <2>7, <2>9, KnowsSelf
    <2>11. \A i : p \in Between(i)' => p \in Between(i)
      BY <1>4, <2>3, <2>6 DEF Between, Stays, Ino
    <2>12. QED  BY <2>5, <2>10, <2>11
  <1>5. QED  BY <1>3, <1>4

\* namex() succeeds.
LEMMA FoundKnows ==
    ASSUME NameInv, DiskInv', NEW p \in Proc, Found(p), pc[p] \in {"namei", "parent"},
           UNCHANGED <<cwd, fd, putting>>, Nums, Changes(p), putting[p] # "free",
           pc[p] = "parent" => IsDirOn(disk, Ino(cur[p]))
    PROVE  Moves(p) /\ Knows(p)' /\ \A i : p \in Between(i)' => p \in Between(i)
  <1>1. RefInv /\ ProcTypes /\ Knows(p) /\ Place(p)  BY DEF NameInv, DiskInv, RefInv
  <1>2. CwdOK(p) /\ FdOK(p)  BY DEF CwdOK, FdOK
  <1>3. /\ CallVars(p, pc'[p], cur[p], ip[p], <<>>) /\ rest'[p] = rest[p]
        /\ pc[p] = "namei" => pc'[p] \in {"open", "chdir", "link1"}
        /\ pc'[p] = "link2" <=> pc[p] = "parent" /\ ip[p] # 0
        /\ pc[p] = "parent" => pc'[p] \in {"link2", "unlink1", "create1"}
    BY <1>1, FoundIs
  <1>4. Only(p)  BY <1>3 DEF Only, CallVars
  <1>5. cur'[p] = cur[p] /\ ip'[p] = ip[p] /\ todo'[p] = <<>>  BY <1>3 DEF CallVars
  <1>6. Had(p, cur'[p]) /\ Had(p, ip'[p]) /\ Had(p, cwd'[p]) /\ Had(p, fd'[p])
    BY <1>5 DEF Had, Refers
  <1>7. OfHad(p, todo'[p])  BY <1>5 DEF OfHad
  <1>8. Moves(p)  BY <1>1, <1>4, <1>6, <1>7, MovesIs
  <1>9. cur[p] # 0  BY <1>1 DEF Place
  <1>10. Stays(cur[p])
    <2>1. PICK s : s = cur[p]  OBVIOUS
    <2>2. s # 0 /\ Refers(p, s) /\ Refers(p, s)'  BY <1>5, <1>9, <2>1 DEF Refers
    <2>3. Stays(s)  BY <1>8, <2>2, SelfStays
    <2>4. QED  BY <2>1, <2>3
  <1>11. ip[p] # 0 => Stays(ip[p])
    <2>1. PICK s : s = ip[p]  OBVIOUS
    <2>2. Refers(p, s) /\ Refers(p, s)'  BY <1>5, <2>1 DEF Refers
    <2>3. s # 0 => Stays(s)  BY <1>8, <2>2, SelfStays
    <2>4. QED  BY <2>1, <2>3
  <1>12. Rests(p)'  BY <1>1, <1>3 DEF Rests, Knows
  <1>13. (OnDisk(cur[p]) /\ Enters(cur[p]))'
    BY <1>1, <1>5, <1>9, <1>10 DEF Knows, Stays, OnDisk, Enters, IsDirOn, Ino
  <1>14. (ip[p] # 0 => OnDisk(ip[p]))'  BY <1>5, <1>11 DEF Stays, OnDisk, Ino
  <1>15. (pc[p] \in {"link2", "unlink1", "create1"} => IsDirOn(disk, Ino(cur[p])))'
    BY <1>3, <1>5, <1>10 DEF Stays, IsDirOn, Ino
  <1>16. ASSUME pc'[p] \in {"link", "parent", "link2", "linkbad"}, ip'[p] # 0
         PROVE  ~IsDirOn(disk', itable'[ip'[p]].inum)
    <2>1. pc[p] = "parent"  BY <1>3, <1>16
    <2>2. QED  BY <1>1, <1>5, <1>11, <1>16, <2>1 DEF Knows, Stays, IsDirOn, Ino
  <1>17. Knows(p)'
    <2>1. (pc[p] \in {"link", "parent", "link2", "linkbad"} /\ ip[p] # 0
             => ~IsDirOn(disk, Ino(ip[p])))'
      BY <1>16 DEF Ino, IsDirOn
    <2>2. pc'[p] \notin {"unlink2", "create2"}  BY <1>3
    <2>3. QED  BY <1>2, <1>8, <1>12, <1>13, <1>14, <1>15, <2>1, <2>2, KnowsSelf
  <1>18. \A i : p \in Between(i)' => p \in Between(i)
    BY <1>3, <1>5, <1>11 DEF Between, Stays, Ino
  <1>19. QED  BY <1>8, <1>17, <1>18
-----------------------------------------------------------------------------
(* Directories: what a name stands for.                                     *)

\* ilock() leaves i-numbers alone.
LEMMA NumsLoad ==
    ASSUME RefInv, NEW s \in Slot, NEW n, itable' = Load(itable, s, n) PROVE Nums
  <1>1. IsTable(itable)  BY DEF RefInv
  <1>2. QED  BY <1>1, LoadIs DEF Nums

\* A step that does not write
LEMMA QuietChanges == ASSUME NEW p \in Proc, disk' = disk PROVE Changes(p)
  BY DEF Changes, SameInode

\* What has a link is there, and its count is not 0.
LEMMA LinkedHas ==
    ASSUME NameInv, NEW i, i \in Inum, NEW x, x \in Linked(disk, i)
    PROVE  i \in Alloc(disk) /\ disk.inode[i].type # "none" /\ disk.inode[i].nlink >= 1
  <1>1. PICK b : b = Cardinality(Between(i))  OBVIOUS
  <1>2. b \in Nat
    <2>1. Between(i) \subseteq Proc  BY DEF Between
    <2>2. IsFiniteSet(Between(i))  BY <2>1, FsAssumption, FS_Subset DEF FsAssumption
    <2>3. QED  BY <1>1, <2>2, FS_CardinalityType
  <1>3. Covers(disk, i, b)  BY <1>1 DEF NameInv
  <1>4. Cardinality(Linked(disk, i)) >= 1 /\ Cardinality(Linked(disk, i)) \in Nat
    BY <1>3, Fewer DEF Covers
  <1>5. i \in Alloc(disk)  BY <1>3 DEF Covers
  <1>6. disk.inode[i].nlink >= Cardinality(Linked(disk, i)) + b  BY <1>3, <1>5 DEF Covers
  <1>7. DiskOK(disk)  BY DEF NameInv, DiskInv
  <1>8. disk.inode[i].nlink \in Int  BY <1>7, NlinkInt
  <1>9. QED  BY <1>2, <1>4, <1>5, <1>6, <1>8 DEF Alloc

\* What a directory names is there; if it is a directory, it is complete.
LEMMA NamedIs ==
    ASSUME NameInv, NEW d, NEW k, NEW i, i \in Inum, Says(disk, d, k, i)
    PROVE  /\ <<d, k>> \in Linked(disk, i) /\ i \in Alloc(disk) /\ disk.inode[i].type # "none"
           /\ disk.inode[i].nlink >= 1 /\ (IsDirOn(disk, i) => Complete(disk, i))
  <1>1. DiskOK(disk) /\ Tree(disk)  BY DEF NameInv, DiskInv
  <1>2. d \in Inum /\ k \in Nat
    <2>1. d \in Inum /\ IsDirOn(disk, d) /\ k \in 3..Len(disk.content[d])  BY DEF Says
    <2>2. disk.content[d] \in Seq(Entry)
      BY <1>1, <2>1 DEF DiskOK, IsDisk, IsContent, IsDirOn
    <2>3. QED  BY <2>1, <2>2
  <1>3. <<d, k>> \in Linked(disk, i)  BY <1>2 DEF Linked, Link
  <1>4. HasName(disk, i)  BY DEF HasName
  <1>5. IsDirOn(disk, i) => Complete(disk, i)  BY <1>1, <1>4 DEF Tree
  <1>6. QED  BY <1>3, <1>5, LinkedHas

\* The root has a link, its own "..".
LEMMA RootOn ==
    ASSUME NameInv
    PROVE  /\ ROOTINO \in Inum /\ IsDirOn(disk, ROOTINO) /\ Complete(disk, ROOTINO)
           /\ disk.inode[ROOTINO].nlink >= 1 /\ disk.inode[ROOTINO].type # "none"
  <1>1. ROOTINO \in Inum
    BY FsAssumption, InodeAssumption DEF FsAssumption, InodeAssumption, Inum, ROOTINO
  <1>2. HasName(disk, ROOTINO)  BY DEF HasName
  <1>3. Tree(disk)  BY DEF NameInv
  <1>4. IsDirOn(disk, ROOTINO) /\ disk.content[ROOTINO][2].inum = ROOTINO  BY <1>3 DEF Tree
  <1>5. Complete(disk, ROOTINO)  BY <1>1, <1>2, <1>3, <1>4 DEF Tree
  <1>6. Up(disk, ROOTINO, ROOTINO)  BY <1>1, <1>2, <1>4, <1>5 DEF Up, Complete
  <1>7. <<ROOTINO, 2>> \in Linked(disk, ROOTINO)  BY <1>1, <1>6 DEF Linked, Link
  <1>8. QED  BY <1>1, <1>4, <1>5, <1>7, LinkedHas

\* An entry that comes first is found.
LEMMA LookupFirst ==
    ASSUME NEW D, NEW i, 1 \in DOMAIN D.content[i], DOMAIN D.content[i] \subseteq Nat \ {0},
           D.content[i][1].inum # 0, NEW name, D.content[i][1].name = name
    PROVE  Dirlookup(D, i, name) = 1
  <1> DEFINE at == {k \in DOMAIN D.content[i] : D.content[i][k].inum # 0
                                                /\ D.content[i][k].name = name}
  <1>1. 1 \in at /\ at \subseteq Nat \ {0}  OBVIOUS
  <1>2. Dirlookup(D, i, name) = Least(at)  BY <1>1 DEF Dirlookup
  <1> HIDE DEF at
  <1>3. \A y \in at : 1 <= y  BY <1>1
  <1>4. \A x \in at : (\A y \in at : x <= y) => x = 1  BY <1>1, <1>3
  <1>5. \E x \in at : \A y \in at : x <= y  BY <1>1, <1>3
  <1>6. Least(at) = 1  BY <1>4, <1>5 DEF Least
  <1>7. QED  BY <1>2, <1>6

\* What dirlookup() finds in a complete directory: the directory itself, its parent, or a name.
LEMMA LookupIs ==
    ASSUME NEW D, DiskOK(D), NEW i, i \in Inum, IsDirOn(D, i), Complete(D, i), NEW name,
           name # "..", NEW k, k = Dirlookup(D, i, name), k # 0
    PROVE  /\ D.content[i][k].inum \in Inum
           /\ name = "." => D.content[i][k].inum = i
           /\ name # "." => k >= 3 /\ Says(D, i, k, D.content[i][k].inum)
  <1>1. IsDisk(D) /\ D.inode[i].type = "dir"  BY DEF DiskOK, IsDirOn
  <1>2. k \in 1..Len(D.content[i]) /\ D.content[i][k].inum \in Inum /\ D.content[i][k].name = name
    BY <1>1, DirlookupIs
  <1>3. D.content[i] \in Seq(Entry)  BY <1>1 DEF IsDisk, IsContent
  <1>4. Len(D.content[i]) \in Nat /\ DOMAIN D.content[i] = 1..Len(D.content[i])  BY <1>3
  <1>5. ASSUME name = "." PROVE D.content[i][k].inum = i
    <2>1. 1 \in DOMAIN D.content[i] /\ DOMAIN D.content[i] \subseteq Nat \ {0}
      BY <1>4 DEF Complete
    <2>2. D.content[i][1].inum # 0  BY InodeAssumption DEF Complete, Inum, InodeAssumption
    <2>3. D.content[i][1].name = name  BY <1>5 DEF Complete
    <2>4. k = 1  BY <2>1, <2>2, <2>3, LookupFirst
    <2>5. QED  BY <2>4 DEF Complete
  <1>6. ASSUME name # "." PROVE k >= 3
    <2>1. k # 1 /\ k # 2  BY <1>2, <1>6 DEF Complete
    <2>2. QED  BY <1>2, <1>4, <2>1
  <1>7. name # "." => Says(D, i, k, D.content[i][k].inum)  BY <1>2, <1>4, <1>6 DEF Says
  <1>8. QED  BY <1>2, <1>5, <1>6, <1>7
-----------------------------------------------------------------------------
(* Every action keeps the names: the ones that do not write.                *)

\* iget()
LEMMA GetIs ==
    ASSUME DiskInv, NEW T, IsTable(T), NEW i, i \in Inum, ~NoSlot(i),
           \A t \in Slot : T[t].ref = itable[t].ref /\ T[t].inum = itable[t].inum,
           itable' = Iget(T, i)
    PROVE  /\ Nums /\ IgetSlot(i) \in Slot /\ itable'[IgetSlot(i)].inum = i
           /\ \A t \in Slot : itable[t].ref > 0 /\ Ino(t) = i => IgetSlot(i) = t
  <1>1. RefInv /\ IsTable(itable) /\ Coherent(itable, disk)  BY DEF DiskInv, RefInv
  <1>2. /\ IgetSlot(i) \in Slot /\ itable'[IgetSlot(i)].inum = i
        /\ \A t \in Slot : itable[t].ref > 0 => itable'[t].inum = itable[t].inum
    <2>1. PICK I : I = Iget(T, i)  OBVIOUS
    <2>2. /\ IgetSlot(i) \in Slot /\ I[IgetSlot(i)].inum = i
          /\ \A t \in Slot : itable[t].ref > 0 => I[t].inum = itable[t].inum
      BY <2>1, IgetTable
    <2>3. QED  BY <2>1, <2>2
  <1>3. ASSUME NEW t \in Slot, itable[t].ref > 0, Ino(t) = i PROVE IgetSlot(i) = t
    <2>1. t \in Entries(i)  BY <1>3 DEF Entries, Ino
    <2>2. IgetSlot(i) \in Entries(i)  BY <1>1, <2>1, IgetIs
    <2>3. QED  BY <1>1, <1>3, <2>2 DEF Entries, Coherent, Ino
  <1>4. QED  BY <1>2, <1>3 DEF Nums

\* The first steps of namex()
LEMMA NameNamex ==
    ASSUME NameInv, DiskInv', NEW p \in Proc, todo[p] = <<>>, NEW path, path \in Seq(STRING),
           \A k \in DOMAIN path : path[k] # "..", NEW l \in {"namei", "parent"},
           Namex(p, path, l), \A q \in Proc : q # p => call'[q] = call[q],
           UNCHANGED <<disk, holder, ip, cwd, fd, putting>>,
           pc[p] \in {"user", "link"}, ip[p] # 0 => pc[p] = "link"
    PROVE  NameInv'
  <1>1. DiskInv /\ RefInv /\ ProcTypes /\ cwd[p] \in Slot /\ IsTable(itable) /\ Knows(p)
        /\ 0 \notin Slot /\ putting[p] = "no"
    BY PlaceFacts, NoTasks DEF NameInv, DiskInv
  <1>2. PICK c, r : /\ cur' = [cur EXCEPT ![p] = c] /\ rest' = [rest EXCEPT ![p] = r]
                    /\ c = (IF Absolute(path) THEN IgetSlot(ROOTINO) ELSE cwd[p])
                    /\ r = (IF Absolute(path) THEN Rest(path) ELSE path)
                    /\ Then(p, l, <<>>)
    BY Zenon DEF Namex
  <1>3. /\ Only(p) /\ pc'[p] = l /\ todo'[p] = <<>> /\ cur'[p] = c /\ rest'[p] = r
        /\ ip'[p] = ip[p] /\ cwd'[p] = cwd[p] /\ fd'[p] = fd[p] /\ putting'[p] = "no"
    BY <1>1, <1>2 DEF ProcTypes, Then, Only
  <1>4. Rests(p)'
    <2>1. ASSUME NEW k \in DOMAIN r PROVE r[k] # ".."
      <3>1. CASE Absolute(path)
        <4>1. path # <<>> /\ r = Tail(path)  BY <1>2, <3>1 DEF Absolute, Rest
        <4>2. k + 1 \in DOMAIN path /\ r[k] = path[k + 1]  BY <2>1, <4>1
        <4>3. QED  BY <4>2
      <3>2. CASE ~Absolute(path)  BY <1>2, <2>1, <3>2
      <3>3. QED  BY <3>1, <3>2
    <2>2. QED  BY <1>3, <2>1 DEF Rests
  <1>5. Nums /\ Had(p, c) /\ c \in Slot /\ itable'[c].inum \in Inum
        /\ disk.inode[itable'[c].inum].type # "none" /\ Complete(disk, itable'[c].inum)
    <2>1. CASE Absolute(path)
      <3>1. ~NoSlot(ROOTINO) /\ itable' = Iget(itable, ROOTINO)  BY <2>1 DEF Namex
      <3>2. /\ ROOTINO \in Inum /\ Complete(disk, ROOTINO)
            /\ disk.inode[ROOTINO].nlink >= 1 /\ disk.inode[ROOTINO].type # "none"
        BY RootOn
      <3>3. Nums /\ c \in Slot /\ itable'[c].inum = ROOTINO  BY <1>1, <1>2, <2>1, <3>1, <3>2, GetIs
      <3>4. Fetched(c)  BY <3>2, <3>3 DEF Fetched
      <3>5. QED  BY <3>2, <3>3, <3>4 DEF Had
    <2>2. CASE ~Absolute(path)
      <3>1. itable' = [itable EXCEPT ![cwd[p]].ref = itable[cwd[p]].ref + 1] /\ c = cwd[p]
        BY <1>2, <2>2 DEF Namex
      <3>2. PICK n : n = itable[cwd[p]].ref + 1  OBVIOUS
      <3>3. Counted(itable', itable, cwd[p], n)  BY <3>1, <3>2 DEF Counted
      <3>4. \A t \in Slot : itable'[t].inum = itable[t].inum
        BY ONLY <1>1, <3>3, SetRef
      <3>5. Points(p, cwd[p])  BY DEF Points
      <3>6. itable[cwd[p]].ref > 0  BY <1>1, <3>5, Counted1
      <3>7. Ino(cwd[p]) \in Inum  BY <1>1, <3>6, OwnIs
      <3>8. QED  BY <1>1, <3>1, <3>4, <3>7 DEF Nums, Had, Refers, Knows, OnDisk, Ino
    <2>3. QED  BY <2>1, <2>2
  <1>6. Had(p, cur'[p]) /\ Had(p, ip'[p]) /\ Had(p, cwd'[p]) /\ Had(p, fd'[p]) /\ OfHad(p, todo'[p])
    <2>1. Had(p, ip[p]) /\ Had(p, cwd[p]) /\ Had(p, fd[p])  BY DEF Had, Refers
    <2>2. OfHad(p, todo'[p])  BY <1>3 DEF OfHad
    <2>3. QED  BY <1>3, <1>5, <2>1, <2>2
  <1>7. Moves(p)  BY <1>1, <1>3, <1>5, <1>6, MovesIs
  <1>8. Changes(p)  BY QuietChanges
  <1>9. ip[p] # 0 => Stays(ip[p])
    <2>1. PICK s : s = ip[p]  OBVIOUS
    <2>2. Refers(p, s) /\ Refers(p, s)'  BY <1>3, <2>1 DEF Refers
    <2>3. s # 0 => Stays(s)  BY <1>7, <1>8, <2>2, SelfStays
    <2>4. QED  BY <2>1, <2>3
  <1>10. (cur[p] # 0 => OnDisk(cur[p]) /\ Enters(cur[p]))'
    BY <1>3, <1>5 DEF OnDisk, Enters, Ino, IsDirOn
  <1>11. (ip[p] # 0 => OnDisk(ip[p]))'  BY <1>3, <1>9 DEF Stays, OnDisk, Ino
  <1>12. (pc[p] \in {"link", "parent", "link2", "linkbad"} /\ ip[p] # 0
            => ~IsDirOn(disk, Ino(ip[p])))'
    BY <1>1, <1>3, <1>9 DEF Stays, IsDirOn, Ino, Knows
  <1>13. CwdOK(p) /\ FdOK(p)  BY <1>3 DEF CwdOK, FdOK
  <1>14. Knows(p)'
    BY <1>3, <1>4, <1>7, <1>8, <1>10, <1>11, <1>12, <1>13, KnowsSelf
  <1>15. \A i \in Inum : p \in Between(i)' => p \in Between(i)
    BY <1>3, <1>9 DEF Between, Stays, Ino
  <1>16. QED  BY <1>7, <1>14, <1>15, QuietStep

\* A system call starts.
LEMMA NameSyscall ==
    ASSUME NoDotdot, NameInv, NEW p \in Proc, NEW c \in Call[p], Syscall(p, c) PROVE NameInv'
  <1>1. PICK l : /\ Namex(p, c.path, l)
                 /\ l = IF c.op \in {"open", "trunc", "chdir", "link"} THEN "namei" ELSE "parent"
    BY Zenon DEF Syscall
  <1>2. /\ pc[p] = "user" /\ todo[p] = <<>> /\ call' = [call EXCEPT ![p] = c]
        /\ UNCHANGED <<disk, holder, ip, cwd, fd, putting>>
    BY DEF Syscall, At
  <1>3. DiskInv /\ RefInv /\ ProcTypes /\ Place(p)  BY DEF NameInv, DiskInv, RefInv
  <1>4. \A q \in Proc : q # p => call'[q] = call[q]  BY <1>2, <1>3 DEF ProcTypes
  <1>5. l \in {"namei", "parent"} /\ ip[p] = 0  BY <1>1, <1>2, <1>3 DEF Place
  <1>6. c.path \in Seq(STRING) /\ \A k \in DOMAIN c.path : c.path[k] # ".."
    BY FsAssumption DEF FsAssumption, NoDotdot
  <1>7. DiskInv'  BY <1>3, DiskSyscall
  <1>8. QED  BY <1>1, <1>2, <1>4, <1>5, <1>6, <1>7, NameNamex

\* The second walk of sys_link()
LEMMA NameLinkParent ==
    ASSUME NoDotdot, NameInv, NEW p \in Proc, LinkParent(p) PROVE NameInv'
  <1>1. /\ pc[p] = "link" /\ todo[p] = <<>> /\ Namex(p, call[p].new, "parent")
        /\ UNCHANGED <<disk, holder, call, ip, cwd, fd, putting>>
    BY DEF LinkParent, At
  <1>2. DiskInv /\ RefInv /\ Made(p)  BY DEF NameInv, DiskInv, RefInv
  <1>3. call[p] \in Call[p] /\ call[p].op = "link"  BY <1>1, <1>2 DEF Made
  <1>4. call[p].new \in Seq(STRING) /\ \A k \in DOMAIN call[p].new : call[p].new[k] # ".."
    BY <1>3, FsAssumption DEF FsAssumption, NoDotdot
  <1>5. DiskInv'  BY <1>2, DiskLinkParent
  <1>6. QED  BY <1>1, <1>4, <1>5, NameNamex

\* The inode that a name stands for, after the iget() of it: one p has, or one with links.
Gets(p, i) ==
    /\ Nums /\ IgetSlot(i) \in Slot /\ itable'[IgetSlot(i)].inum = i /\ i \in Inum
    /\ Had(p, IgetSlot(i)) /\ disk.inode[i].type # "none"
    /\ IsDirOn(disk, i) => Complete(disk, i)

LEMMA GetsNamed ==
    ASSUME NameInv, NEW p \in Proc, NEW s, s \in Slot, Refers(p, s), OnDisk(s),
           IsDirOn(disk, Ino(s)), Complete(disk, Ino(s)), NEW name, name # "..",
           NEW k, k = Dirlookup(disk, Ino(s), name), k # 0,
           NEW i, i = disk.content[Ino(s)][k].inum, ~NoSlot(i),
           NEW n, itable' = Iget(Load(itable, s, n), i)
    PROVE  Gets(p, i)
  <1>1. DiskInv /\ RefInv /\ IsTable(itable) /\ DiskOK(disk)  BY DEF NameInv, DiskInv, RefInv
  <1>2. itable[s].ref > 0
    <2>1. Points(p, s)  BY DEF Points, Refers
    <2>2. QED  BY <1>1, <2>1, Counted1
  <1>3. Ino(s) \in Inum  BY <1>1, <1>2, OwnIs
  <1>4. /\ i \in Inum
        /\ name = "." => i = Ino(s)
        /\ name # "." => Says(disk, Ino(s), k, i)
    BY <1>1, <1>3, LookupIs
  <1>5. PICK T : T = Load(itable, s, n)  OBVIOUS
  <1>6. IsTable(T) /\ \A t \in Slot : T[t].ref = itable[t].ref /\ T[t].inum = itable[t].inum
    BY <1>1, <1>5, LoadIs
  <1>7. /\ Nums /\ IgetSlot(i) \in Slot /\ itable'[IgetSlot(i)].inum = i
        /\ \A t \in Slot : itable[t].ref > 0 /\ Ino(t) = i => IgetSlot(i) = t
    <2>1. i \in Inum /\ ~NoSlot(i) /\ itable' = Iget(T, i)  BY <1>4, <1>5
    <2>2. QED  BY ONLY <1>1, <1>6, <2>1, GetIs
  <1>8. CASE name = "."
    <2>1. i = Ino(s)  BY <1>4, <1>8
    <2>2. IgetSlot(i) = s  BY <1>2, <1>7, <2>1
    <2>3. Had(p, IgetSlot(i))  BY <2>2 DEF Had
    <2>4. disk.inode[i].type # "none" /\ Complete(disk, i)  BY <2>1 DEF OnDisk
    <2>5. QED  BY <1>4, <1>7, <2>3, <2>4 DEF Gets
  <1>9. CASE name # "."
    <2>1. PICK g : Says(disk, g, k, i)  BY <1>4, <1>9
    <2>2. i \in Inum  BY <1>4
    <2>3. disk.inode[i].type # "none" /\ disk.inode[i].nlink >= 1
      BY ONLY <2>1, <2>2, NamedIs, NameInv
    <2>4. IsDirOn(disk, i) => Complete(disk, i)  BY ONLY <2>1, <2>2, NamedIs, NameInv
    <2>5. disk.inode[i].nlink # 0  BY <2>3
    <2>6. Fetched(IgetSlot(i))  BY <1>7, <2>2, <2>5 DEF Fetched
    <2>7. Had(p, IgetSlot(i))  BY <1>7, <2>6 DEF Had
    <2>8. QED  BY <1>7, <2>2, <2>3, <2>4, <2>7 DEF Gets
  <1>10. QED  BY <1>8, <1>9

\* One element of a path
LEMMA NameWalk == ASSUME NameInv, NEW p \in Proc, Walk(p) PROVE NameInv'
  <1> DEFINE s == cur[p]
             n == Loaded(s)
             k == Dirlookup(disk, Ino(s), Elem(rest[p]))
             i == disk.content[Ino(s)][k].inum
             bad == n.type # "dir" \/ (k = 0 /\ ~(pc[p] = "parent" /\ Len(rest[p]) = 1))
             last == pc[p] = "parent" /\ Len(rest[p]) = 1
  <1>1. /\ pc[p] \in {"namei", "parent"} /\ todo[p] = <<>> /\ rest[p] # <<>>
        /\ UNCHANGED <<disk, holder, cwd, fd, putting>> /\ Free(s) /\ n.type # "none"
    BY DEF Walk, At, Ilock
  <1>2. /\ bad => itable' = Load(itable, s, n) /\ Failed(p, <<Put(s)>>)
        /\ ~bad /\ last => itable' = Load(itable, s, n) /\ Found(p)
        /\ ~bad /\ ~last => /\ ~NoSlot(i)
                            /\ itable' = Iget(Load(itable, s, n), i)
                            /\ cur' = [cur EXCEPT ![p] = IgetSlot(i)]
                            /\ rest' = [rest EXCEPT ![p] = Rest(@)]
                            /\ Then(p, pc[p], <<Put(s)>>)
                            /\ UNCHANGED <<call, ip>>
    BY DEF Walk
  <1>3. ~bad => n.type = "dir"  OBVIOUS
  <1>4. ~bad /\ ~last => k # 0  OBVIOUS
  <1> HIDE DEF i, k, bad, last
  <1>5. DiskInv /\ RefInv /\ ProcTypes /\ Place(p) /\ DiskOK(disk) /\ Knows(p) /\ putting[p] = "no"
    BY <1>1, NoTasks DEF NameInv, DiskInv, RefInv
  <1>6. s # 0 /\ Refers(p, s)  BY <1>1, <1>5 DEF Place, Refers
  <1>7. Mine(p, s) /\ s \in Slot /\ Ino(s) \in Inum /\ n = disk.inode[Ino(s)]
    BY <1>1, <1>5, <1>6, MineIs
  <1>8. <<Put(s)>> \in Todos /\ OfHad(p, <<Put(s)>>)  BY <1>6, <1>7, PutsOfLists, TasksHad
  <1>9. DiskInv'  BY <1>5, DiskWalk
  <1>10. Changes(p) /\ putting[p] # "free"  BY <1>1, <1>5, QuietChanges
  <1>11. ip[p] # 0 => pc[p] = "parent"  BY <1>1, <1>5 DEF Place
  <1> HIDE DEF n
  <1>12. CASE bad
    <2>1. PICK t : t = <<Put(s)>>  OBVIOUS
    <2>2. t \in Todos /\ OfHad(p, t) /\ Failed(p, t)
      BY <1>2, <1>8, <1>12, <2>1 DEF Failed, Return, Then, Forget
    <2>3. Nums  BY <1>2, <1>5, <1>7, <1>12, NumsLoad
    <2>4. Moves(p) /\ Knows(p)' /\ \A j : p \in Between(j)' => p \in Between(j)
      BY <1>1, <1>9, <1>10, <1>11, <2>2, <2>3, FailedKnows
    <2>5. QED  BY <1>1, <1>9, <2>4, QuietStep
  <1>13. CASE ~bad /\ last
    <2>1. Nums  BY <1>2, <1>5, <1>7, <1>13, NumsLoad
    <2>2. IsDirOn(disk, Ino(s))  BY <1>3, <1>7, <1>13 DEF IsDirOn
    <2>3. Moves(p) /\ Knows(p)' /\ \A j : p \in Between(j)' => p \in Between(j)
      BY <1>1, <1>2, <1>9, <1>10, <1>13, <2>1, <2>2, FoundKnows
    <2>4. QED  BY <1>1, <1>9, <2>3, QuietStep
  <1>14. CASE ~bad /\ ~last
    <2>1. k # 0 /\ IsDirOn(disk, Ino(s))  BY <1>3, <1>4, <1>7, <1>14 DEF IsDirOn
    <2>2. OnDisk(s) /\ Complete(disk, Ino(s))  BY <1>5, <1>6, <2>1 DEF Knows, Enters
    <2>3. rest[p] \in Seq(STRING)  BY <1>5 DEF ProcTypes
    <2>4. Elem(rest[p]) # ".."
      <3>1. 1 \in DOMAIN rest[p] /\ Elem(rest[p]) = rest[p][1]  BY <1>1, <2>3 DEF Elem
      <3>2. QED  BY <1>5, <3>1 DEF Knows, Rests
    <2>5. ~NoSlot(i) /\ itable' = Iget(Load(itable, s, n), i)  BY <1>2, <1>14
    <2>6. /\ Nums /\ IgetSlot(i) \in Slot /\ itable'[IgetSlot(i)].inum = i /\ i \in Inum
          /\ Had(p, IgetSlot(i)) /\ disk.inode[i].type # "none"
          /\ IsDirOn(disk, i) => Complete(disk, i)
      <3>1. PICK m : m = Elem(rest[p])  OBVIOUS
      <3>2. m # ".." /\ k = Dirlookup(disk, Ino(s), m) /\ i = disk.content[Ino(s)][k].inum
        BY <2>4, <3>1 DEF k, i
      <3>3. PICK u, a, x, y : u = s /\ a = k /\ x = i /\ y = n  OBVIOUS
      <3>4. /\ NameInv /\ p \in Proc /\ u \in Slot /\ Refers(p, u) /\ OnDisk(u)
            /\ IsDirOn(disk, Ino(u)) /\ Complete(disk, Ino(u))
            /\ a = Dirlookup(disk, Ino(u), m) /\ a # 0 /\ x = disk.content[Ino(u)][a].inum
            /\ ~NoSlot(x) /\ itable' = Iget(Load(itable, u, y), x)
        BY <1>6, <1>7, <2>1, <2>2, <2>5, <3>2, <3>3
      <3>5. Gets(p, x)  BY ONLY <3>2, <3>4, GetsNamed
      <3>6. Gets(p, i)  BY <3>3, <3>5
      <3>7. QED  BY <3>6 DEF Gets
    <2>7. /\ Only(p) /\ pc'[p] = pc[p] /\ todo'[p] = <<Put(s)>> /\ cur'[p] = IgetSlot(i)
          /\ ip'[p] = ip[p] /\ cwd'[p] = cwd[p] /\ fd'[p] = fd[p] /\ putting'[p] = "no"
          /\ rest'[p] = Tail(rest[p])
      BY <1>1, <1>2, <1>5, <1>14 DEF ProcTypes, Then, Only, Rest
    <2>8. /\ Had(p, cur'[p]) /\ Had(p, ip'[p]) /\ Had(p, cwd'[p]) /\ Had(p, fd'[p])
          /\ OfHad(p, todo'[p])
      <3>1. Had(p, ip[p]) /\ Had(p, cwd[p]) /\ Had(p, fd[p])  BY DEF Had, Refers
      <3>2. QED  BY <1>8, <2>6, <2>7, <3>1
    <2>9. Moves(p)  BY <1>5, <2>6, <2>7, <2>8, MovesIs
    <2>10. ip[p] # 0 => Stays(ip[p])
      <3>1. PICK u : u = ip[p]  OBVIOUS
      <3>2. Refers(p, u) /\ Refers(p, u)'  BY <2>7, <3>1 DEF Refers
      <3>3. u # 0 => Stays(u)  BY <1>9, <1>10, <2>9, <3>2, SelfStays
      <3>4. QED  BY <3>1, <3>3
    <2>11. Rests(p)'
      <3>1. ASSUME NEW m \in DOMAIN Tail(rest[p]) PROVE Tail(rest[p])[m] # ".."
        <4>1. m + 1 \in DOMAIN rest[p] /\ Tail(rest[p])[m] = rest[p][m + 1]
          BY <1>1, <2>3, <3>1
        <4>2. QED  BY <1>5, <4>1 DEF Knows, Rests
      <3>2. QED  BY <2>7, <3>1 DEF Rests
    <2>12. (cur[p] # 0 => OnDisk(cur[p]) /\ Enters(cur[p]))'
      BY <1>1, <2>6, <2>7 DEF OnDisk, Enters, Ino, IsDirOn
    <2>13. (ip[p] # 0 => OnDisk(ip[p]))'  BY <2>7, <2>10 DEF Stays, OnDisk, Ino
    <2>14. (pc[p] \in {"link", "parent", "link2", "linkbad"} /\ ip[p] # 0
              => ~IsDirOn(disk, Ino(ip[p])))'
      BY <1>5, <2>7, <2>10 DEF Stays, IsDirOn, Ino, Knows
    <2>15. CwdOK(p) /\ FdOK(p)  BY <2>7 DEF CwdOK, FdOK
    <2>16. Knows(p)'
      BY <1>1, <1>9, <1>10, <2>7, <2>9, <2>11, <2>12, <2>13, <2>14, <2>15, KnowsSelf
    <2>17. \A j \in Inum : p \in Between(j)' => p \in Between(j)
      BY <2>7, <2>10 DEF Between, Stays, Ino
    <2>18. QED  BY <1>1, <1>9, <2>9, <2>16, <2>17, QuietStep
  <1>15. QED  BY <1>12, <1>13, <1>14

\* The end of a walk
LEMMA NameWalkEnd == ASSUME NameInv, NEW p \in Proc, WalkEnd(p) PROVE NameInv'
  <1>1. /\ pc[p] \in {"namei", "parent"} /\ todo[p] = <<>>
        /\ pc[p] = "parent" => Failed(p, <<Put(cur[p])>>)
        /\ pc[p] # "parent" => Found(p)
        /\ UNCHANGED <<disk, itable, holder, cwd, fd, putting>>
    BY DEF WalkEnd, At, fsVars
  <1>2. DiskInv /\ RefInv /\ Place(p) /\ putting[p] = "no"
    BY <1>1, NoTasks DEF NameInv, DiskInv, RefInv
  <1>3. DiskInv'  BY <1>2, DiskWalkEnd
  <1>4. Nums /\ Changes(p) /\ putting[p] # "free"  BY <1>1, <1>2, QuietChanges DEF Nums
  <1>5. Moves(p) /\ Knows(p)' /\ \A j : p \in Between(j)' => p \in Between(j)
    <2>1. CASE pc[p] = "parent"
      <3>1. PICK t : t = <<Put(cur[p])>>  OBVIOUS
      <3>2. cur[p] \in Slot /\ Refers(p, cur[p])  BY <1>2, <2>1, PlaceFacts DEF Place, Refers
      <3>3. t \in Todos /\ OfHad(p, t)  BY <3>1, <3>2, PutsOfLists, TasksHad
      <3>4. Failed(p, t)  BY <1>1, <2>1, <3>1 DEF Failed, Return, Then, Forget
      <3>5. QED  BY <1>1, <1>3, <1>4, <2>1, <3>3, <3>4, FailedKnows
    <2>2. CASE pc[p] # "parent"  BY <1>1, <1>3, <1>4, <2>2, FoundKnows
    <2>3. QED  BY <2>1, <2>2
  <1>6. QED  BY <1>1, <1>3, <1>5, QuietStep

\* chdir()
LEMMA NameChdir == ASSUME NameInv, NEW p \in Proc, Chdir(p) PROVE NameInv'
  <1> DEFINE s == cur[p]
             n == Loaded(s)
  <1>1. /\ pc[p] = "chdir" /\ todo[p] = <<>> /\ itable' = Load(itable, s, n)
        /\ UNCHANGED <<disk, holder, fd, putting>> /\ Free(s) /\ n.type # "none"
        /\ n.type = "dir" => cwd' = [cwd EXCEPT ![p] = s] /\ Return(p, <<Put(cwd[p])>>)
        /\ n.type # "dir" => cwd' = cwd /\ Return(p, <<Put(s)>>)
    BY DEF Chdir, At, Ilock
  <1>2. DiskInv /\ RefInv /\ ProcTypes /\ Place(p) /\ putting[p] = "no"
    BY <1>1, NoTasks DEF NameInv, DiskInv, RefInv
  <1>3. s # 0 /\ Refers(p, s) /\ Refers(p, cwd[p])  BY <1>1, <1>2 DEF Place, Refers
  <1>4. s \in Slot /\ n = disk.inode[Ino(s)]  BY <1>1, <1>2, <1>3, MineIs
  <1>5. DiskInv'  BY <1>2, DiskChdir
  <1> HIDE DEF n
  <1>6. PICK u \in Slot : Return(p, <<Put(u)>>) /\ Refers(p, u)
    BY <1>1, <1>2, <1>3, <1>4, PlaceFacts
  <1>7. PICK t : t = <<Put(u)>>  OBVIOUS
  <1>8. t \in Todos /\ OfHad(p, t)  BY <1>6, <1>7, PutsOfLists, TasksHad
  <1>9. Return(p, t)  BY <1>6, <1>7 DEF Return, Then, Forget
  <1>10. Kept(p)
    <2>1. cwd' = cwd \/ cwd' = [cwd EXCEPT ![p] = s]  BY <1>1
    <2>2. QED  BY <1>1, <1>2, <1>4, <2>1 DEF ProcTypes, Kept
  <1>11. CwdOK(p) /\ FdOK(p)  BY <1>1, <1>2, <1>4 DEF CwdOK, FdOK, IsDirOn, ProcTypes
  <1>12. Nums  BY <1>1, <1>2, <1>4, NumsLoad
  <1>13. Changes(p) /\ putting'[p] # "free"  BY <1>1, <1>2, QuietChanges
  <1>14. Moves(p) /\ Knows(p)' /\ \A j : p \notin Between(j)'
    BY <1>5, <1>8, <1>9, <1>10, <1>11, <1>12, <1>13, ReturnKnows
  <1>15. QED  BY <1>1, <1>5, <1>14, QuietStep

\* A call returns and has not written.
LEMMA QuietReturn ==
    ASSUME NameInv, DiskInv', NEW p \in Proc, putting[p] = "no", NEW t \in Todos, Return(p, t),
           OfHad(p, t), Nums, disk' = disk, UNCHANGED <<cwd, putting>>, FdOK(p),
           \A q \in Proc : q # p => fd'[q] = fd[q]
    PROVE  NameInv'
  <1>1. Kept(p)  BY DEF DiskInv, RefInv, ProcTypes, Kept
  <1>2. CwdOK(p) /\ putting'[p] # "free"  BY DEF CwdOK
  <1>3. Changes(p)  BY QuietChanges
  <1>4. Moves(p) /\ Knows(p)' /\ \A j : p \notin Between(j)'
    BY <1>1, <1>2, <1>3, ReturnKnows
  <1>5. QED  BY <1>4, QuietStep

\* close()
LEMMA NameFileClose == ASSUME NameInv, NEW p \in Proc, FileClose(p) PROVE NameInv'
  <1>1. /\ pc[p] = "user" /\ todo[p] = <<>> /\ todo' = [todo EXCEPT ![p] = <<Put(fd[p])>>]
        /\ fd' = [fd EXCEPT ![p] = 0]
        /\ UNCHANGED <<disk, itable, holder, pc, call, rest, cur, ip, cwd, putting>>
    BY DEF FileClose, At, callVars, fsVars, Forget
  <1>2. /\ DiskInv /\ RefInv /\ ProcTypes /\ Place(p) /\ Knows(p) /\ putting[p] = "no"
    BY <1>1, NoTasks DEF NameInv, DiskInv, RefInv
  <1>3. DiskInv'  BY <1>2, DiskFileClose
  <1>4. Only(p) /\ todo'[p] = <<Put(fd[p])>> /\ fd'[p] = 0  BY <1>1, <1>2 DEF ProcTypes, Only
  <1>5. cur[p] = 0 /\ ip[p] = 0  BY <1>1, <1>2 DEF Place
  <1>6. Had(p, cur'[p]) /\ Had(p, ip'[p]) /\ Had(p, cwd'[p]) /\ Had(p, fd'[p])
    BY <1>1, <1>4, <1>5 DEF Had, Refers
  <1>7. OfHad(p, todo'[p])
    <2>1. Refers(p, fd[p])  BY DEF Refers
    <2>2. QED  BY <1>4, <2>1, TasksHad
  <1>8. Nums /\ Changes(p)  BY <1>1, QuietChanges DEF Nums
  <1>9. Moves(p)  BY <1>2, <1>4, <1>6, <1>7, <1>8, MovesIs
  <1>10. Rests(p)' /\ CwdOK(p) /\ FdOK(p)  BY <1>1, <1>2, <1>4 DEF Rests, CwdOK, FdOK, Knows
  <1>11. Knows(p)'  BY <1>1, <1>2, <1>3, <1>5, <1>8, <1>9, <1>10, KnowsSelf
  <1>12. \A j \in Inum : p \in Between(j)' => p \in Between(j)  BY <1>1, <1>5 DEF Between
  <1>13. QED  BY <1>1, <1>3, <1>9, <1>11, <1>12, QuietStep

\* create() has found a file, or something else.
LEMMA NameExists == ASSUME NameInv, NEW p \in Proc, Exists(p) PROVE NameInv'
  <1> DEFINE s == ip[p]
             n == Loaded(s)
             ok == call[p].op = "create" /\ n.type \in {"file", "dev"}
  <1>1. /\ pc[p] = "exists" /\ todo[p] = <<>> /\ UNCHANGED <<disk, cwd, fd, putting>>
        /\ Free(s) /\ itable' = Load(itable, s, n)
        /\ ok => /\ holder' = [holder EXCEPT ![s] = p] /\ Then(p, "created", <<>>)
                 /\ UNCHANGED <<call, rest, cur, ip>>
        /\ ~ok => Return(p, <<Put(s)>>) /\ holder' = holder
    BY DEF Exists, At, Ilock
  <1> HIDE DEF ok
  <1>2. DiskInv /\ RefInv /\ ProcTypes /\ Place(p) /\ Knows(p) /\ putting[p] = "no"
    BY <1>1, NoTasks DEF NameInv, DiskInv, RefInv
  <1>3. s # 0 /\ Refers(p, s) /\ cur[p] = 0  BY <1>1, <1>2 DEF Place, Refers
  <1>4. s \in Slot  BY <1>2, <1>3, PlaceFacts
  <1>5. DiskInv'  BY <1>2, DiskExists
  <1> HIDE DEF n
  <1>6. Nums /\ Changes(p) /\ FdOK(p) /\ CwdOK(p)
    BY <1>1, <1>2, <1>4, NumsLoad, QuietChanges DEF FdOK, CwdOK
  <1>7. CASE ~ok
    <2>1. PICK t : t = <<Put(s)>>  OBVIOUS
    <2>2. t \in Todos /\ OfHad(p, t)  BY <1>3, <1>4, <2>1, PutsOfLists, TasksHad
    <2>3. Return(p, t)  BY <1>1, <1>7, <2>1 DEF Return, Then, Forget
    <2>4. QED  BY <1>1, <1>2, <1>5, <1>6, <2>2, <2>3, QuietReturn
  <1>8. CASE ok
    <2>1. Only(p) /\ pc'[p] = "created" /\ todo'[p] = <<>> /\ ip'[p] = s /\ cur'[p] = 0
      BY <1>1, <1>2, <1>3, <1>8 DEF ProcTypes, Then, Only
    <2>2. Had(p, cur'[p]) /\ Had(p, ip'[p]) /\ Had(p, cwd'[p]) /\ Had(p, fd'[p])
      BY <1>1, <2>1 DEF Had, Refers
    <2>3. OfHad(p, todo'[p])  BY <2>1 DEF OfHad
    <2>4. Moves(p)  BY <1>2, <1>6, <2>1, <2>2, <2>3, MovesIs
    <2>5. Stays(s)
      <3>1. PICK u : u = s  OBVIOUS
      <3>2. u # 0 /\ Refers(p, u) /\ Refers(p, u)'  BY <1>3, <2>1, <3>1 DEF Refers
      <3>3. Stays(u)  BY <1>5, <1>6, <2>4, <3>2, SelfStays
      <3>4. QED  BY <3>1, <3>3
    <2>6. Rests(p)'  BY <1>1, <1>2, <1>8 DEF Rests, Knows
    <2>7. (ip[p] # 0 => OnDisk(ip[p]))'  BY <2>1, <2>5 DEF Stays, OnDisk, Ino
    <2>8. Knows(p)'  BY <1>1, <1>2, <1>5, <1>6, <2>1, <2>4, <2>6, <2>7, KnowsSelf
    <2>9. \A j \in Inum : p \in Between(j)' => p \in Between(j)  BY <2>1 DEF Between
    <2>10. QED  BY <1>1, <1>5, <2>4, <2>8, <2>9, QuietStep
  <1>9. QED  BY <1>7, <1>8

\* create() returns the inode to open(), mkdir() or mknod().
LEMMA NameCreated ==
    ASSUME NameInv, NEW p \in Proc, NEW full \in BOOLEAN, Created(p, full) PROVE NameInv'
  <1> DEFINE s == ip[p]
             opens == call[p].op = "create" /\ fd[p] = 0 /\ ~full
  <1>1. /\ pc[p] = "created" /\ todo[p] = <<>> /\ UNCHANGED <<disk, itable, cwd, putting>>
        /\ opens => fd' = [fd EXCEPT ![p] = s] /\ Return(p, <<>>)
        /\ ~opens => fd' = fd /\ Return(p, <<Put(s)>>)
    BY DEF Created, At
  <1> HIDE DEF opens
  <1>2. DiskInv /\ RefInv /\ ProcTypes /\ Place(p) /\ putting[p] = "no"
    BY <1>1, NoTasks DEF NameInv, DiskInv, RefInv
  <1>3. s # 0 /\ Refers(p, s)  BY <1>1, <1>2 DEF Place, Refers
  <1>4. s \in Slot  BY <1>2, <1>3, PlaceFacts
  <1>5. PICK t \in Todos : OfHad(p, t) /\ Return(p, t)
    <2>1. PICK t : t = IF opens THEN <<>> ELSE <<Put(s)>>  OBVIOUS
    <2>2. t \in Todos /\ OfHad(p, t)  BY <1>3, <1>4, <2>1, PutsOfLists, TasksHad
    <2>3. Return(p, t)  BY <1>1, <2>1 DEF Return, Then, Forget
    <2>4. QED  BY <2>2, <2>3
  <1>6. FdOK(p) /\ \A q \in Proc : q # p => fd'[q] = fd[q]
    <2>1. fd' = fd \/ fd' = [fd EXCEPT ![p] = s]  BY <1>1
    <2>2. QED  BY <1>2, <2>1 DEF ProcTypes, FdOK
  <1>7. Nums  BY <1>1 DEF Nums
  <1>8. DiskInv'  BY <1>2, DiskCreated
  <1>9. QED  BY <1>1, <1>2, <1>5, <1>6, <1>7, <1>8, QuietReturn

\* unlink() finds the name.
LEMMA NameUnlink1 == ASSUME NameInv, NEW p \in Proc, Unlink1(p) PROVE NameInv'
  <1> DEFINE s == cur[p]
             k == Dirlookup(disk, Ino(s), Elem(rest[p]))
             i == disk.content[Ino(s)][k].inum
             bad == Elem(rest[p]) \in {".", ".."} \/ k = 0
             n == Loaded(s)
  <1>1. /\ pc[p] = "unlink1" /\ todo[p] = <<>> /\ UNCHANGED <<disk, cwd, fd, putting>>
        /\ Free(s)
        /\ bad => itable' = Load(itable, s, n) /\ Return(p, <<Put(s)>>) /\ holder' = holder
        /\ ~bad => /\ ~NoSlot(i) /\ itable' = Iget(Load(itable, s, n), i)
                   /\ ip' = [ip EXCEPT ![p] = IgetSlot(i)]
                   /\ Then(p, "unlink2", <<>>) /\ UNCHANGED <<call, rest, cur>>
    BY DEF Unlink1, At, IsDir
  <1>2. ~bad => k # 0 /\ Elem(rest[p]) # "." /\ Elem(rest[p]) # ".."  OBVIOUS
  <1> HIDE DEF i, k, bad, n
  <1>3. DiskInv /\ RefInv /\ ProcTypes /\ Place(p) /\ Knows(p) /\ putting[p] = "no"
    BY <1>1, NoTasks DEF NameInv, DiskInv, RefInv
  <1>4. s # 0 /\ Refers(p, s) /\ ip[p] = 0  BY <1>1, <1>3 DEF Place, Refers
  <1>5. s \in Slot  BY <1>3, <1>4, PlaceFacts
  <1>6. DiskInv'  BY <1>3, DiskUnlink1
  <1>7. CASE bad
    <2>1. PICK t : t = <<Put(s)>>  OBVIOUS
    <2>2. t \in Todos /\ OfHad(p, t)  BY <1>4, <1>5, <2>1, PutsOfLists, TasksHad
    <2>3. Return(p, t)  BY <1>1, <1>7, <2>1 DEF Return, Then, Forget
    <2>4. Nums /\ FdOK(p)  BY <1>1, <1>3, <1>5, <1>7, NumsLoad DEF FdOK
    <2>5. QED  BY <1>1, <1>3, <1>6, <2>2, <2>3, <2>4, QuietReturn
  <1>8. CASE ~bad
    <2>1. IsDirOn(disk, Ino(s))  BY <1>1, <1>3 DEF Knows
    <2>2. OnDisk(s) /\ Complete(disk, Ino(s))  BY <1>3, <1>4, <2>1 DEF Knows, Enters
    <2>3. /\ Nums /\ IgetSlot(i) \in Slot /\ itable'[IgetSlot(i)].inum = i
          /\ Had(p, IgetSlot(i)) /\ disk.inode[i].type # "none"
      <3>1. PICK u, a, x, y, m : u = s /\ a = k /\ x = i /\ y = n /\ m = Elem(rest[p])  OBVIOUS
      <3>2. a = Dirlookup(disk, Ino(u), m) /\ x = disk.content[Ino(u)][a].inum
        BY <3>1 DEF k, i
      <3>3. /\ NameInv /\ p \in Proc /\ u \in Slot /\ Refers(p, u) /\ OnDisk(u)
            /\ IsDirOn(disk, Ino(u)) /\ Complete(disk, Ino(u)) /\ m # ".." /\ a # 0
            /\ ~NoSlot(x) /\ itable' = Iget(Load(itable, u, y), x)
        BY <1>1, <1>2, <1>4, <1>5, <1>8, <2>1, <2>2, <3>1
      <3>4. Gets(p, x)  BY ONLY <3>2, <3>3, GetsNamed
      <3>5. Gets(p, i)  BY <3>1, <3>4
      <3>6. QED  BY <3>5 DEF Gets
    <2>4. /\ Only(p) /\ pc'[p] = "unlink2" /\ todo'[p] = <<>> /\ cur'[p] = s
          /\ rest'[p] = rest[p] /\ ip'[p] = IgetSlot(i) /\ cwd'[p] = cwd[p] /\ fd'[p] = fd[p]
          /\ putting'[p] = "no"
      BY <1>1, <1>3, <1>8 DEF ProcTypes, Then, Only
    <2>5. Had(p, cur'[p]) /\ Had(p, ip'[p]) /\ Had(p, cwd'[p]) /\ Had(p, fd'[p])
      <3>1. Had(p, cur[p]) /\ Had(p, cwd[p]) /\ Had(p, fd[p])  BY DEF Had, Refers
      <3>2. QED  BY <2>3, <2>4, <3>1
    <2>6. OfHad(p, todo'[p])  BY <2>4 DEF OfHad
    <2>7. Moves(p)  BY <1>3, <2>3, <2>4, <2>5, <2>6, MovesIs
    <2>8. Changes(p)  BY <1>1, QuietChanges
    <2>9. ASSUME NEW u, u \in {cur[p], cwd[p], fd[p]}, u # 0 PROVE Stays(u)
      <3>1. Refers(p, u) /\ Refers(p, u)'  BY <2>4, <2>9 DEF Refers
      <3>2. QED  BY <1>6, <2>7, <2>8, <2>9, <3>1, SelfStays
    <2>10. Stays(s) /\ Stays(cwd[p]) /\ (fd[p] # 0 => Stays(fd[p]))
      <3>1. cwd[p] # 0  BY <1>3, PlaceFacts
      <3>2. QED  BY <1>4, <2>9, <3>1
    <2>11. Rests(p)'  BY <1>3, <2>4 DEF Rests, Knows
    <2>12. (OnDisk(cwd[p]) /\ IsDirOn(disk, Ino(cwd[p])) /\ Complete(disk, Ino(cwd[p])))'
      BY <1>3, <2>4, <2>10 DEF Knows, Stays, OnDisk, IsDirOn, Ino
    <2>13. (fd[p] # 0 => OnDisk(fd[p]))'  BY <2>4, <2>10 DEF Stays, OnDisk, Ino
    <2>14. (ip[p] # 0 => OnDisk(ip[p]))'  BY <1>1, <2>3, <2>4 DEF OnDisk, Ino
    <2>15. (OnDisk(cur[p]) /\ Enters(cur[p]) /\ IsDirOn(disk, Ino(cur[p])))'
      BY <2>1, <2>2, <2>4, <2>10 DEF Stays, OnDisk, Enters, IsDirOn, Ino
    <2>16. /\ Elem(rest'[p]) \notin {".", ".."}
           /\ disk'.content[itable'[cur'[p]].inum][
                 Dirlookup(disk', itable'[cur'[p]].inum, Elem(rest'[p]))].inum
                = itable'[ip'[p]].inum
      <3>1. itable'[cur'[p]].inum = Ino(s) /\ itable'[ip'[p]].inum = i
        BY <2>3, <2>4, <2>10 DEF Stays
      <3>2. Dirlookup(disk', Ino(s), Elem(rest'[p])) = k  BY <1>1, <2>4 DEF k, Dirlookup
      <3>3. QED  BY <1>1, <1>2, <1>8, <2>4, <3>1, <3>2 DEF i
    <2>17. \A t \in Slot : ~Frees(p, t)'  BY <2>4 DEF Frees
    <2>18. Knows(p)'
      BY <2>4, <2>11, <2>12, <2>13, <2>14, <2>15, <2>16, <2>17 DEF Knows, Ino
    <2>19. \A j \in Inum : p \in Between(j)' => p \in Between(j)  BY <2>4 DEF Between
    <2>20. QED  BY <1>1, <1>6, <2>7, <2>18, <2>19, QuietStep
  <1>9. QED  BY <1>7, <1>8
-----------------------------------------------------------------------------
(* iput() and iunlock()                                                     *)

\* Doing a task: the call stays where it is.
LEMMA PutKnows ==
    ASSUME NameInv, DiskInv', NEW p \in Proc, todo[p] # <<>>, Only(p), Nums, Changes(p),
           todo'[p] = todo[p] \/ todo'[p] = Tail(todo[p]), UNCHANGED <<pc, rest, cur, ip, cwd, fd>>,
           (\A s \in Slot : Frees(p, s) => itable[s].ref = 1 /\ disk.inode[Ino(s)].nlink = 0)'
    PROVE  Moves(p) /\ Knows(p)' /\ \A i : p \in Between(i)' => p \in Between(i)
  <1>1. DiskInv /\ RefInv /\ Place(p) /\ Knows(p) /\ Locks(p) /\ todo[p] \in Todos
    BY DEF NameInv, DiskInv, RefInv, ProcTypes
  <1>2. pc[p] \notin {"unlink2", "create2"}  BY <1>1 DEF Locks
  <1>3. OfHad(p, todo'[p])
    <2>1. OfHad(p, todo[p])  BY DEF OfHad, PutsTo
    <2>2. OfHad(p, Tail(todo[p]))
      <3>1. DOMAIN Tail(todo[p]) = 1..(Len(todo[p]) - 1) /\ DOMAIN todo[p] = 1..Len(todo[p])
            /\ \A k \in 1..(Len(todo[p]) - 1) : Tail(todo[p])[k] = todo[p][k + 1]
            /\ Len(todo[p]) \in Nat
        BY <1>1, TailIs
      <3>2. ASSUME NEW k \in DOMAIN Tail(todo[p]), NEW s \in Slot, Tail(todo[p])[k] = Put(s)
            PROVE  PutsTo(p, s)
        <4>1. k + 1 \in DOMAIN todo[p] /\ todo[p][k + 1] = Put(s)  BY <3>1, <3>2
        <4>2. QED  BY <4>1 DEF PutsTo
      <3>3. QED  BY <3>2 DEF OfHad
    <2>3. QED  BY <2>1, <2>2
  <1>4. Had(p, cur'[p]) /\ Had(p, ip'[p]) /\ Had(p, cwd'[p]) /\ Had(p, fd'[p])
    BY DEF Had, Refers
  <1>5. Moves(p)  BY <1>1, <1>3, <1>4, MovesIs
  <1>6. (cur[p] # 0 => Stays(cur[p])) /\ (ip[p] # 0 => Stays(ip[p]))
    <2>1. PICK u, v : u = cur[p] /\ v = ip[p]  OBVIOUS
    <2>2. Refers(p, u) /\ Refers(p, u)' /\ Refers(p, v) /\ Refers(p, v)'  BY <2>1 DEF Refers
    <2>3. (u # 0 => Stays(u)) /\ (v # 0 => Stays(v))  BY <1>5, <2>2, SelfStays
    <2>4. QED  BY <2>1, <2>3
  <1>7. Rests(p)'  BY <1>1 DEF Rests, Knows
  <1>8. (cur[p] # 0 => OnDisk(cur[p]) /\ Enters(cur[p]))'
    BY <1>1, <1>6 DEF Knows, Stays, OnDisk, Enters, IsDirOn, Ino
  <1>9. (ip[p] # 0 => OnDisk(ip[p]))'  BY <1>6 DEF Stays, OnDisk, Ino
  <1>10. (pc[p] \in {"link2", "unlink1", "create1"} => IsDirOn(disk, Ino(cur[p])))'
    BY <1>1, <1>6 DEF Place, Knows, Stays, IsDirOn, Ino
  <1>11. (pc[p] \in {"link", "parent", "link2", "linkbad"} /\ ip[p] # 0
            => ~IsDirOn(disk, Ino(ip[p])))'
    BY <1>1, <1>6 DEF Knows, Stays, IsDirOn, Ino
  <1>12. CwdOK(p) /\ FdOK(p)  BY DEF CwdOK, FdOK
  <1>13. Knows(p)'
    BY <1>2, <1>5, <1>7, <1>8, <1>9, <1>10, <1>11, <1>12, KnowsAll
  <1>14. \A i : p \in Between(i)' => p \in Between(i)  BY <1>6 DEF Between, Stays, Ino
  <1>15. QED  BY <1>5, <1>13, <1>14

\* iunlock()
LEMMA NameIunlock == ASSUME NameInv, NEW p \in Proc, Iunlock(p) PROVE NameInv'
  <1>1. /\ todo[p] # <<>> /\ putting[p] = "no" /\ todo' = [todo EXCEPT ![p] = Tail(todo[p])]
        /\ UNCHANGED <<disk, itable, pc, call, rest, cur, ip, cwd, fd, putting>>
    BY DEF Iunlock, Doing, Done, callVars
  <1>2. DiskInv /\ ProcTypes  BY DEF NameInv, DiskInv, RefInv
  <1>3. DiskInv'  BY <1>2, DiskIunlock
  <1>4. todo'[p] = Tail(todo[p]) /\ Only(p)  BY <1>1, <1>2 DEF ProcTypes, Only
  <1>5. Nums /\ Changes(p)  BY <1>1, QuietChanges DEF Nums
  <1>6. \A s \in Slot : ~Frees(p, s)'  BY <1>1 DEF Frees
  <1>7. Moves(p) /\ Knows(p)' /\ \A i : p \in Between(i)' => p \in Between(i)
    BY <1>1, <1>3, <1>4, <1>5, <1>6, PutKnows
  <1>8. QED  BY <1>1, <1>3, <1>7, QuietStep

\* iput() drops a reference.
LEMMA NameIputDrop == ASSUME NameInv, NEW p \in Proc, IputDrop(p) PROVE NameInv'
  <1> DEFINE s == Todo(p)
  <1>1. /\ todo[p] # <<>> /\ Head(todo[p]).do = "put" /\ putting[p] # "free"
        /\ todo' = [todo EXCEPT ![p] = Tail(todo[p])] /\ putting' = [putting EXCEPT ![p] = "no"]
        /\ UNCHANGED <<disk, holder, pc, call, rest, cur, ip, cwd, fd>>
    BY DEF IputDrop, Doing, Done, callVars
  <1>2. Replaced(itable', itable, s, Dropped(itable[s]))  BY DEF IputDrop, Replaced
  <1>3. DiskInv /\ RefInv /\ ProcTypes /\ IsTable(itable)  BY DEF NameInv, DiskInv, RefInv
  <1>4. DiskInv'  BY <1>3, DiskIputDrop
  <1>5. todo'[p] = Tail(todo[p]) /\ putting'[p] = "no" /\ Only(p)
    BY <1>1, <1>3 DEF ProcTypes, Only
  <1>6. s \in Slot /\ itable[s].ref >= 1  BY <1>1, <1>3, PutCounted
  <1>7. Nums
    <2>1. /\ \A r \in Slot : r # s => itable'[r] = itable[r]
          /\ itable'[s].ref > 0 => itable'[s].inum = itable[s].inum
      BY <1>2, <1>3, <1>6, DropIs
    <2>2. QED  BY <2>1 DEF Nums
  <1>8. Changes(p)  BY <1>1, QuietChanges
  <1>9. \A t \in Slot : ~Frees(p, t)'  BY <1>5 DEF Frees
  <1>10. Moves(p) /\ Knows(p)' /\ \A i : p \in Between(i)' => p \in Between(i)
    BY <1>1, <1>4, <1>5, <1>7, <1>8, <1>9, PutKnows
  <1>11. QED  BY <1>1, <1>4, <1>10, QuietStep

\* iput() takes the lock of an inode that it must free.
LEMMA NameIputLock == ASSUME NameInv, NEW p \in Proc, IputLock(p) PROVE NameInv'
  <1> DEFINE s == Todo(p)
  <1>1. /\ todo[p] # <<>> /\ Head(todo[p]).do = "put"
        /\ itable[s].ref = 1 /\ itable[s].valid /\ itable[s].ino.nlink = 0
        /\ putting' = [putting EXCEPT ![p] = "free"]
        /\ UNCHANGED <<disk, itable, pc, call, rest, cur, ip, cwd, fd, todo>>
    BY DEF IputLock, Doing, MustFree, callVars
  <1>2. DiskInv /\ RefInv /\ ProcTypes /\ Coherent(itable, disk)
    BY DEF NameInv, DiskInv, RefInv
  <1>3. DiskInv'  BY <1>2, DiskIputLock
  <1>4. Only(p)  BY <1>1, <1>2 DEF ProcTypes, Only
  <1>5. s \in Slot  BY <1>1, <1>2, PutCounted
  <1>6. disk.inode[Ino(s)].nlink = 0  BY <1>1, <1>2, <1>5 DEF Coherent, Ino
  <1>7. Nums /\ Changes(p)  BY <1>1, QuietChanges DEF Nums
  <1>8. (\A t \in Slot : Frees(p, t) => itable[t].ref = 1 /\ disk.inode[Ino(t)].nlink = 0)'
    <2>1. \A t : Frees(p, t)' => t = s  BY <1>1 DEF Frees, Todo
    <2>2. QED  BY <1>1, <1>6, <2>1 DEF Ino
  <1>9. Moves(p) /\ Knows(p)' /\ \A i : p \in Between(i)' => p \in Between(i)
    BY <1>1, <1>3, <1>4, <1>7, <1>8, PutKnows
  <1>10. QED  BY <1>1, <1>3, <1>9, QuietStep

\* Some directories have gone.
FewerDirs(D, E) == \A d \in Inum : IsDirOn(E, d) => IsDirOn(D, d) /\ E.content[d] = D.content[d]

\* What is left is a tree, with no new link.
LEMMA FewerTree ==
    ASSUME NEW D, NEW E, FewerDirs(D, E), Tree(D), IsDirOn(E, ROOTINO)
    PROVE  Tree(E) /\ \A i : Linked(E, i) \subseteq Linked(D, i)
  <1>1. \A d, k, i : Says(E, d, k, i) => Says(D, d, k, i)  BY DEF FewerDirs, Says
  <1>2. \A i : HasName(E, i) => HasName(D, i)  BY <1>1 DEF HasName
  <1>3. \A d, i : Up(E, d, i) => Up(D, d, i)  BY <1>2 DEF Up, FewerDirs
  <1>4. \A d, k, i : Link(E, d, k, i) => Link(D, d, k, i)  BY <1>1, <1>3 DEF Link
  <1>5. \A i : Linked(E, i) \subseteq Linked(D, i)  BY <1>4 DEF Linked
  <1>6. \A d \in Inum : IsDirOn(E, d) => (Complete(E, d) <=> Complete(D, d))
    BY DEF FewerDirs, Complete
  <1>7. ROOTINO \in Inum
    BY FsAssumption, InodeAssumption DEF FsAssumption, InodeAssumption, Inum, ROOTINO
  <1>8. E.content[ROOTINO][2].inum = ROOTINO  BY <1>7 DEF Tree, FewerDirs
  <1>9. \A d \in Inum : IsDirOn(E, d) =>
           /\ HasName(E, d) => Complete(E, d)
           /\ ~Complete(E, d) => Len(E.content[d]) <= 2
    BY <1>2, <1>6 DEF Tree, FewerDirs
  <1>10. ASSUME NEW d, NEW k, NEW i, Says(E, d, k, i), i \in Inum, IsDirOn(E, i)
         PROVE  /\ i # ROOTINO /\ E.content[i][2].inum = d
                /\ \A e, l : Says(E, e, l, i) => e = d /\ l = k
    <2>1. Says(D, d, k, i) /\ IsDirOn(D, i) /\ E.content[i] = D.content[i]
      BY <1>1, <1>10 DEF FewerDirs
    <2>2. QED  BY <1>1, <1>10, <2>1 DEF Tree
  <1>11. QED  BY <1>5, <1>8, <1>9, <1>10 DEF Tree

\* iput() frees the inode.
LEMMA NameIputFree == ASSUME NameInv, NEW p \in Proc, IputFree(p) PROVE NameInv'
  <1> DEFINE s == Todo(p)
             o == Ino(s)
  <1>1. /\ todo[p] # <<>> /\ Head(todo[p]).do = "put" /\ putting[p] = "free"
        /\ putting' = [putting EXCEPT ![p] = "drop"]
        /\ UNCHANGED <<pc, call, rest, cur, ip, cwd, fd, todo>>
    BY DEF IputFree, Doing, callVars
  <1>2. PICK E : E = Itrunc(Own(disk, s), o) /\ Freed(disk', E, o)
    BY DEF IputFree, Freed
  <1>3. PICK v : v = FALSE  OBVIOUS
  <1>4. Copied(itable', itable, s, v, FreeInode)  BY <1>3, Zenon DEF IputFree, Copied
  <1>5. /\ DiskInv /\ RefInv /\ ProcTypes /\ DiskOK(disk) /\ IsTable(itable) /\ Tree(disk)
        /\ Knows(p)
    BY DEF NameInv, DiskInv, RefInv
  <1>6. s \in Slot /\ Frees(p, s)  BY <1>1, <1>5, PutCounted DEF Frees
  <1>7. Mine(p, s) /\ o \in Alloc(disk) /\ Own(disk, s) = disk  BY <1>5, <1>6, FreesIs
  <1>8. disk.inode[o].nlink = 0  BY <1>5, <1>6 DEF Knows
  <1>9. Nums  BY <1>4, <1>5, <1>6, SetCopy DEF Nums
  <1>10. /\ disk'.inode[o].type = "none" /\ o \in Inum
         /\ \A j \in Inum : j # o => disk'.inode[j] = disk.inode[j]
                                     /\ disk'.content[j] = disk.content[j]
    <2>1. E = Itrunc(disk, o)  BY <1>2, <1>7
    <2>2. QED  BY <1>2, <1>5, <1>7, <2>1, Truncates DEF Alloc
  <1>11. DiskInv'  BY <1>5, DiskIputFree
  <1> HIDE DEF o, s
  <1>12. Only(p) /\ putting'[p] = "drop"  BY <1>1, <1>5 DEF ProcTypes, Only
  <1>13. Changes(p)
    <2>1. Touches(p, s) /\ Ino(s) = o  BY <1>6, <1>7 DEF Touches, o
    <2>2. \A i \in Alloc(disk) : SameInode(i) \/ i = o  BY <1>10 DEF SameInode, Alloc
    <2>3. \A i \in Alloc(disk) : disk'.inode[i].type = disk.inode[i].type \/ i = o
      BY <1>10 DEF Alloc
    <2>4. \A i \in Inum : IsDirOn(disk, i) /\ IsDirOn(disk', i) /\ Complete(disk, i)
                            => Complete(disk', i)
      BY <1>10 DEF IsDirOn, Complete
    <2>5. QED  BY <1>6, <2>1, <2>2, <2>3, <2>4 DEF Changes
  <1>14. \A t \in Slot : ~Frees(p, t)'  BY <1>12 DEF Frees
  <1>15. Moves(p) /\ Knows(p)' /\ \A i : p \in Between(i)' => p \in Between(i)
    BY <1>1, <1>9, <1>11, <1>12, <1>13, <1>14, PutKnows
  <1>16. FewerDirs(disk, disk')  BY <1>10 DEF FewerDirs, IsDirOn
  <1>17. ROOTINO # o /\ IsDirOn(disk', ROOTINO)  BY <1>8, <1>10, RootOn DEF IsDirOn
  <1>18. Tree(disk') /\ \A i : Linked(disk', i) \subseteq Linked(disk, i)
    BY <1>5, <1>16, <1>17, FewerTree
  <1>19. ASSUME NEW i, i \in Inum PROVE Covers(disk', i, Cardinality(Between(i)'))
    <2>1. PICK b, c : b = Cardinality(Between(i)) /\ c = Cardinality(Between(i)')  OBVIOUS
    <2>2. b \in Nat /\ c \in Nat /\ c <= b  BY <1>11, <1>15, <1>19, <2>1, BetweenStep
    <2>3. Covers(disk, i, b) /\ disk.inode[i].nlink \in Int
      BY <1>5, <1>19, <2>1, NlinkInt DEF NameInv
    <2>4. CASE i # o
      <3>1. disk'.inode[i] = disk.inode[i] /\ (i \in Alloc(disk') <=> i \in Alloc(disk))
        BY <1>10, <1>19, <2>4 DEF Alloc
      <3>2. Covers(disk', i, c)  BY <1>18, <1>19, <2>2, <2>3, <3>1, CoversSame
      <3>3. QED  BY <2>1, <3>2
    <2>5. CASE i = o
      <3>1. IsFiniteSet(Linked(disk, i)) /\ 0 >= Cardinality(Linked(disk, i)) + b
        BY <1>7, <1>8, <2>3, <2>5 DEF Covers
      <3>2. Cardinality(Linked(disk, i)) \in Nat  BY <3>1, FS_CardinalityType
      <3>3. Cardinality(Linked(disk, i)) = 0 /\ b = 0  BY <2>2, <3>1, <3>2
      <3>4. Linked(disk, i) = {}  BY <3>1, <3>3, FS_EmptySet
      <3>5. Linked(disk', i) = {} /\ c = 0  BY <1>18, <2>2, <3>3, <3>4
      <3>6. i \notin Alloc(disk')  BY <1>10, <2>5 DEF Alloc
      <3>7. IsFiniteSet(Linked(disk', i))  BY <3>5, FS_EmptySet
      <3>8. QED  BY <2>1, <3>5, <3>6, <3>7 DEF Covers
    <2>6. QED  BY <2>4, <2>5
  <1>20. QED  BY <1>11, <1>13, <1>15, <1>18, <1>19, NameStep
-----------------------------------------------------------------------------
(* Writing to files, and counting links.                                    *)

\* Inode i alone is written, and types stay.
Rewrote(i) == \A j \in Inum : /\ disk'.inode[j].type = disk.inode[j].type
                              /\ j # i => SameInode(j)

\* p has rewritten an inode that it refers to.
LEMMA RewroteIs ==
    ASSUME NEW p \in Proc, NEW s, Touches(p, s), Rewrote(Ino(s)),
           IsDirOn(disk, Ino(s)) /\ Complete(disk, Ino(s)) => Complete(disk', Ino(s))
    PROVE  Changes(p) /\ Alloc(disk') = Alloc(disk)
  <1>1. s \in Slot  BY DEF Touches, Mine
  <1>2. \A j \in Alloc(disk) : SameInode(j) \/ (Touches(p, s) /\ Ino(s) = j)
    BY DEF Rewrote, Alloc
  <1>3. \A j \in Inum : disk'.inode[j].type = disk.inode[j].type  BY DEF Rewrote
  <1>4. ASSUME NEW j \in Inum, IsDirOn(disk, j), Complete(disk, j) PROVE Complete(disk', j)
    <2>1. CASE j = Ino(s)  BY <1>4, <2>1
    <2>2. CASE j # Ino(s)  BY <1>4, <2>2 DEF Rewrote, SameInode, Complete
    <2>3. QED  BY <2>1, <2>2
  <1>5. Alloc(disk') = Alloc(disk)  BY <1>3 DEF Alloc
  <1>6. QED  BY <1>1, <1>2, <1>3, <1>4, <1>5 DEF Changes, Alloc

\* It is no directory, or keeps its content: the directories are the same.
LEMMA RewroteSame ==
    ASSUME NEW i, Rewrote(i), IsDirOn(disk, i) => disk'.content[i] = disk.content[i]
    PROVE  SameDirs(disk, disk')
  <1>1. ASSUME NEW d \in Inum
        PROVE  /\ IsDirOn(disk', d) <=> IsDirOn(disk, d)
               /\ IsDirOn(disk, d) => disk'.content[d] = disk.content[d]
    <2>1. IsDirOn(disk', d) <=> IsDirOn(disk, d)  BY DEF Rewrote, IsDirOn
    <2>2. CASE d = i  BY <2>1, <2>2
    <2>3. CASE d # i  BY <2>1, <2>3 DEF Rewrote, SameInode
    <2>4. QED  BY <2>2, <2>3
  <1>2. QED  BY <1>1 DEF SameDirs

\* A step that changes the links of one inode, and the calls in between as much.
LEMMA LinkStep ==
    ASSUME NameInv, DiskInv', NEW p \in Proc, Moves(p), Changes(p), Knows(p)',
           SameDirs(disk, disk'), Alloc(disk') = Alloc(disk), NEW o, o \in Alloc(disk),
           NEW n, n \in Int, disk'.inode[o].nlink = disk.inode[o].nlink + n,
           Cardinality(Between(o)') <= Cardinality(Between(o)) + n,
           \A j \in Inum : j # o => /\ disk'.inode[j].nlink = disk.inode[j].nlink
                                    /\ p \in Between(j)' => p \in Between(j)
    PROVE  NameInv'
  <1>1. DiskOK(disk) /\ DiskOK(disk') /\ Tree(disk)  BY DEF NameInv, DiskInv
  <1>2. Tree(disk') /\ \A i : Linked(disk', i) = Linked(disk, i)  BY <1>1, SameTree
  <1>3. ASSUME NEW i, i \in Inum PROVE Covers(disk', i, Cardinality(Between(i)'))
    <2>1. PICK b, c : b = Cardinality(Between(i)) /\ c = Cardinality(Between(i)')  OBVIOUS
    <2>2. b \in Nat /\ c \in Nat  BY <1>3, <2>1, BetweenStep
    <2>3. Covers(disk, i, b) /\ disk.inode[i].nlink \in Int /\ disk'.inode[i].nlink \in Int
      BY <1>1, <1>3, <2>1, NlinkInt DEF NameInv
    <2>4. CASE i # o
      <3>1. c <= b  BY <1>3, <2>1, <2>4, BetweenStep
      <3>2. Linked(disk', i) \subseteq Linked(disk, i)  BY <1>2
      <3>3. Covers(disk', i, c)  BY <1>3, <2>2, <2>3, <2>4, <3>1, <3>2, CoversSame
      <3>4. QED  BY <2>1, <3>3
    <2>5. CASE i = o
      <3>1. IsFiniteSet(Linked(disk', i)) /\ Cardinality(Linked(disk', i)) \in Nat
            /\ Cardinality(Linked(disk', i)) <= Cardinality(Linked(disk, i)) + 0
        BY <1>2, <2>3, FS_CardinalityType DEF Covers
      <3>2. i \in Alloc(disk) /\ i \in Alloc(disk') /\ c <= b + n
            /\ disk'.inode[i].nlink >= disk.inode[i].nlink + n /\ 0 \in Int /\ 0 + n <= n
        BY <2>1, <2>3, <2>5
      <3>3. PICK k : k = 0  OBVIOUS
      <3>4. /\ k \in Int /\ k + n <= n /\ n \in Int
            /\ Cardinality(Linked(disk', i)) <= Cardinality(Linked(disk, i)) + k
        BY <3>1, <3>2, <3>3
      <3>5. Covers(disk', i, c)  BY ONLY <2>2, <2>3, <3>1, <3>2, <3>4, CoversMove
      <3>6. QED  BY <2>1, <3>5
    <2>6. QED  BY <2>4, <2>5
  <1>4. QED  BY <1>2, <1>3, NameStep

\* write()
LEMMA NameFileWrite == ASSUME NameInv, NEW p \in Proc, FileWrite(p) PROVE NameInv'
  <1> DEFINE s == fd[p]
             i == Ino(s)
  <1>1. /\ pc[p] = "user" /\ todo[p] = <<>> /\ s # 0 /\ Free(s) /\ Loaded(s).type = "file"
        /\ UNCHANGED <<holder, pc, call, rest, cur, ip, cwd, fd, todo, putting>>
    BY DEF FileWrite, At, callVars
  <1>2. PICK w, off : /\ w = Writei(Own(disk, s), i, off, "data") /\ off = Len(disk.content[i])
                      /\ disk' = w.disk /\ itable' = Load(itable, s, w.disk.inode[i])
    BY Zenon DEF FileWrite
  <1>3. DiskInv /\ RefInv /\ DiskOK(disk) /\ Place(p) /\ Knows(p) /\ putting[p] = "no"
    BY <1>1, NoTasks DEF NameInv, DiskInv, RefInv
  <1>4. /\ Mine(p, s) /\ s \in Slot /\ Loaded(s) = disk.inode[i] /\ Own(disk, s) = disk
        /\ i \in Alloc(disk) /\ i \in Inum
    BY <1>1, <1>3, MineIs
  <1>5. off \in Nat
    <2>1. disk.content[i] \in Seq({"data"})  BY <1>1, <1>3, <1>4 DEF DiskOK, IsDisk, IsContent
    <2>2. QED  BY <1>2, <2>1
  <1>6. IsUnit(disk.inode[i].type, "data")  BY <1>1, <1>4 DEF IsUnit
  <1>7. w = Writei(disk, i, off, "data")  BY <1>2, <1>4
  <1>8. DiskOK(w.disk) /\ Writes(disk, w.disk, i)
    BY ONLY <1>3, <1>4, <1>5, <1>6, <1>7, WriteiIs
  <1>9. Rewrote(i) /\ \A j \in Inum : disk'.inode[j].nlink = disk.inode[j].nlink
    BY <1>2, <1>8 DEF Writes, Rewrote, SameInode
  <1>10. DiskInv'  BY <1>3, DiskFileWrite
  <1>11. Touches(p, s) /\ ~IsDirOn(disk, i)  BY <1>1, <1>4 DEF Touches, Refers, IsDirOn
  <1>12. Changes(p) /\ Alloc(disk') = Alloc(disk)  BY <1>9, <1>11, RewroteIs
  <1>13. SameDirs(disk, disk')  BY <1>9, <1>11, RewroteSame
  <1>14. Nums  BY <1>2, <1>3, <1>4, NumsLoad
  <1>15. cur[p] = 0 /\ ip[p] = 0  BY <1>1, <1>3 DEF Place
  <1>16. Had(p, cur'[p]) /\ Had(p, ip'[p]) /\ Had(p, cwd'[p]) /\ Had(p, fd'[p])
    BY <1>1 DEF Had, Refers
  <1>17. OfHad(p, todo'[p]) /\ Only(p)  BY <1>1 DEF OfHad, Only
  <1>18. Moves(p)  BY <1>3, <1>14, <1>16, <1>17, MovesIs
  <1>19. Rests(p)' /\ CwdOK(p) /\ FdOK(p)  BY <1>1, <1>3 DEF Rests, CwdOK, FdOK, Knows
  <1>20. Knows(p)'  BY <1>1, <1>3, <1>10, <1>12, <1>15, <1>18, <1>19, KnowsSelf
  <1>21. \A j \in Inum : p \in Between(j)' => p \in Between(j)  BY <1>1, <1>15 DEF Between
  <1>22. QED  BY <1>9, <1>10, <1>12, <1>13, <1>18, <1>20, <1>21, SameStep

\* open() of an inode that exists
LEMMA NameOpen ==
    ASSUME NameInv, NEW p \in Proc, NEW full \in BOOLEAN, Open(p, full) PROVE NameInv'
  <1> DEFINE s == cur[p]
             n == Loaded(s)
             bad == (n.type = "dir" /\ call[p].op = "trunc") \/ fd[p] # 0 \/ full
             cut == call[p].op = "trunc" /\ n.type = "file" /\ ~bad
             E == Itrunc(Own(disk, s), Ino(s))
             D == IF cut THEN E ELSE disk
  <1>1. /\ pc[p] = "open" /\ todo[p] = <<>> /\ UNCHANGED <<holder, cwd, putting>>
        /\ Free(s) /\ n.type # "none"
        /\ bad => fd' = fd /\ Return(p, <<Put(s)>>)
        /\ ~bad => fd' = [fd EXCEPT ![p] = s] /\ Return(p, <<>>)
    BY DEF Open, At, Ilock
  <1>2. disk' = D /\ itable' = Load(itable, s, IF D = disk THEN n ELSE D.inode[Ino(s)])
    BY DEF Open
  <1>3. cut => n.type = "file"  OBVIOUS
  <1> HIDE DEF bad, cut
  <1>4. /\ DiskInv /\ RefInv /\ ProcTypes /\ Place(p) /\ DiskOK(disk) /\ Knows(p)
        /\ putting[p] = "no"
    BY <1>1, NoTasks DEF NameInv, DiskInv, RefInv
  <1>5. s # 0 /\ Refers(p, s)  BY <1>1, <1>4 DEF Place, Refers
  <1>6. /\ Mine(p, s) /\ s \in Slot /\ n = disk.inode[Ino(s)] /\ Own(disk, s) = disk
        /\ Ino(s) \in Alloc(disk) /\ Ino(s) \in Inum
    BY <1>1, <1>4, <1>5, MineIs
  <1>7. PICK t \in Todos : Return(p, t) /\ OfHad(p, t)
    <2>1. PICK t : t = IF bad THEN <<Put(s)>> ELSE <<>>  OBVIOUS
    <2>2. t \in Todos /\ OfHad(p, t)  BY <1>5, <1>6, <2>1, PutsOfLists, TasksHad
    <2>3. Return(p, t)  BY <1>1, <2>1 DEF Return, Then, Forget
    <2>4. QED  BY <2>2, <2>3
  <1>8. DiskInv'  BY <1>4, DiskOpen
  <1>9. Kept(p) /\ CwdOK(p) /\ FdOK(p)
    <2>1. Slot \subseteq 0..NINODE  BY <1>4, PlaceFacts
    <2>2. fd' = fd \/ fd' = [fd EXCEPT ![p] = s]  BY <1>1
    <2>3. Kept(p)  BY <1>1, <1>4, <1>6, <2>1, <2>2 DEF ProcTypes, Kept
    <2>4. fd'[p] = fd[p] \/ fd'[p] = s  BY <1>4, <2>2 DEF ProcTypes
    <2>5. QED  BY <1>1, <2>3, <2>4 DEF CwdOK, FdOK
  <1>10. Nums  BY <1>2, <1>4, <1>6, NumsLoad
  <1>11. putting'[p] # "free"  BY <1>1, <1>4
  <1>12. CASE ~cut
    <2>1. disk' = disk  BY <1>2, <1>12
    <2>2. Changes(p)  BY <2>1, QuietChanges
    <2>3. Moves(p) /\ Knows(p)' /\ \A j : p \notin Between(j)'
      BY <1>7, <1>8, <1>9, <1>10, <1>11, <2>2, ReturnKnows
    <2>4. QED  BY <1>8, <2>1, <2>3, QuietStep
  <1>13. CASE cut
    <2>1. disk' = Itrunc(disk, Ino(s))  BY <1>2, <1>6, <1>13
    <2>2. /\ disk'.inode[Ino(s)].type = disk.inode[Ino(s)].type
          /\ disk'.inode[Ino(s)].nlink = disk.inode[Ino(s)].nlink
          /\ \A j \in Inum : j # Ino(s) => /\ disk'.inode[j] = disk.inode[j]
                                           /\ disk'.content[j] = disk.content[j]
      <3>1. PICK D2, T, y : D2 = disk' /\ y = Ino(s) /\ T = disk.inode[y].type  OBVIOUS
      <3>2. Cut(D2, disk, y, T) /\ Becomes(T, disk, y) /\ y \in Alloc(disk)
        BY <1>4, <1>6, <2>1, <3>1, ItruncIs DEF Becomes
      <3>3. /\ D2.inode[y].type = T /\ D2.inode[y].nlink = disk.inode[y].nlink
            /\ \A j \in Inum :
                 j # y => D2.inode[j] = disk.inode[j] /\ D2.content[j] = disk.content[j]
        BY ONLY <1>4, <3>2, CutIs
      <3>4. QED  BY <3>1, <3>3
    <2>3. Rewrote(Ino(s)) /\ \A j \in Inum : disk'.inode[j].nlink = disk.inode[j].nlink
      BY <2>2 DEF Rewrote, SameInode
    <2>4. Touches(p, s) /\ ~IsDirOn(disk, Ino(s))
      BY <1>3, <1>5, <1>6, <1>13 DEF Touches, IsDirOn
    <2>5. Changes(p) /\ Alloc(disk') = Alloc(disk)  BY <2>3, <2>4, RewroteIs
    <2>6. SameDirs(disk, disk')  BY <2>3, <2>4, RewroteSame
    <2>7. Moves(p) /\ Knows(p)' /\ \A j : p \notin Between(j)'
      BY <1>7, <1>8, <1>9, <1>10, <1>11, <2>5, ReturnKnows
    <2>8. QED  BY <1>8, <2>3, <2>5, <2>6, <2>7, SameStep
  <1>14. QED  BY <1>12, <1>13

\* link() counts the link.
LEMMA NameLink1 == ASSUME NameInv, NEW p \in Proc, Link1(p) PROVE NameInv'
  <1> DEFINE s == cur[p]
             dir == Loaded(s).type = "dir"
             D == NlinkPlus(Own(disk, s), Ino(s), 1)
  <1>1. /\ pc[p] = "link1" /\ todo[p] = <<>> /\ UNCHANGED <<holder, cwd, fd, putting>>
        /\ Free(s) /\ Loaded(s).type # "none"
        /\ dir => Return(p, <<Put(s)>>) /\ disk' = disk /\ itable' = Load(itable, s, Loaded(s))
        /\ ~dir => /\ ip' = [ip EXCEPT ![p] = s] /\ cur' = [cur EXCEPT ![p] = 0]
                   /\ Then(p, "link", <<>>) /\ UNCHANGED <<call, rest>>
                   /\ disk' = D /\ itable' = Load(itable, s, D.inode[Ino(s)])
    BY DEF Link1, At, Forget, Ilock
  <1>2. dir <=> Loaded(s).type = "dir"  OBVIOUS
  <1> HIDE DEF dir
  <1>3. /\ DiskInv /\ RefInv /\ ProcTypes /\ Place(p) /\ DiskOK(disk) /\ Knows(p)
        /\ putting[p] = "no"
    BY <1>1, NoTasks DEF NameInv, DiskInv, RefInv
  <1>4. s # 0 /\ Refers(p, s) /\ ip[p] = 0  BY <1>1, <1>3 DEF Place, Refers
  <1>5. /\ Mine(p, s) /\ s \in Slot /\ Loaded(s) = disk.inode[Ino(s)] /\ Own(disk, s) = disk
        /\ Ino(s) \in Inum /\ Ino(s) \in Alloc(disk)
    BY <1>1, <1>3, <1>4, MineIs
  <1>6. DiskInv'  BY <1>3, DiskLink1
  <1>7. CASE dir
    <2>1. PICK t : t = <<Put(s)>>  OBVIOUS
    <2>2. t \in Todos /\ OfHad(p, t)  BY <1>4, <1>5, <2>1, PutsOfLists, TasksHad
    <2>3. Return(p, t)  BY <1>1, <1>7, <2>1 DEF Return, Then, Forget
    <2>4. Nums /\ FdOK(p)  BY <1>1, <1>3, <1>5, <1>7, NumsLoad DEF FdOK
    <2>5. QED  BY <1>1, <1>3, <1>6, <1>7, <2>2, <2>3, <2>4, QuietReturn
  <1>8. CASE ~dir
    <2>1. /\ Only(p) /\ pc'[p] = "link" /\ todo'[p] = <<>> /\ ip'[p] = s /\ cur'[p] = 0
          /\ rest'[p] = rest[p]
      BY <1>1, <1>3, <1>8 DEF ProcTypes, Then, Only
    <2>2. disk' = NlinkPlus(disk, Ino(s), 1) /\ Nums
      BY <1>1, <1>3, <1>5, <1>8, NumsLoad
    <2>3. /\ disk'.content = disk.content /\ disk'.inode[Ino(s)].type = disk.inode[Ino(s)].type
          /\ disk'.inode[Ino(s)].nlink = disk.inode[Ino(s)].nlink + 1
          /\ \A j \in Inum : j # Ino(s) => disk'.inode[j] = disk.inode[j]
      <3>1. PICK k, E, y : k = 1 /\ E = NlinkPlus(disk, Ino(s), 1) /\ y = Ino(s)  OBVIOUS
      <3>2. k \in Int /\ E = NlinkPlus(disk, y, k) /\ y \in Inum  BY <1>5, <3>1
      <3>3. /\ NlinkPlus(disk, y, k).content = disk.content
            /\ NlinkPlus(disk, y, k).inode[y].nlink = disk.inode[y].nlink + k
            /\ NlinkPlus(disk, y, k).inode[y].type = disk.inode[y].type
            /\ \A j \in Inum : j # y => NlinkPlus(disk, y, k).inode[j] = disk.inode[j]
        BY ONLY <1>3, <3>2, NlinkIs
      <3>4. QED  BY <2>2, <3>1, <3>2, <3>3
    <2>4. Rewrote(Ino(s))  BY <2>3 DEF Rewrote, SameInode
    <2>5. Touches(p, s) /\ ~IsDirOn(disk, Ino(s))
      BY <1>2, <1>4, <1>5, <1>8 DEF Touches, IsDirOn
    <2>6. Changes(p) /\ Alloc(disk') = Alloc(disk)  BY <2>4, <2>5, RewroteIs
    <2>7. SameDirs(disk, disk')  BY <2>4, <2>5, RewroteSame
    <2>8. Had(p, cur'[p]) /\ Had(p, ip'[p]) /\ Had(p, cwd'[p]) /\ Had(p, fd'[p])
      BY <1>1, <2>1 DEF Had, Refers
    <2>9. OfHad(p, todo'[p])  BY <2>1 DEF OfHad
    <2>10. Moves(p)  BY <1>3, <2>1, <2>2, <2>8, <2>9, MovesIs
    <2>11. Stays(s)
      <3>1. PICK u : u = s  OBVIOUS
      <3>2. u # 0 /\ Refers(p, u) /\ Refers(p, u)'  BY <1>4, <2>1, <3>1 DEF Refers
      <3>3. Stays(u)  BY <1>6, <2>6, <2>10, <3>2, SelfStays
      <3>4. QED  BY <3>1, <3>3
    <2>12. Rests(p)' /\ CwdOK(p) /\ FdOK(p)
      BY <1>1, <1>3, <2>1 DEF Rests, CwdOK, FdOK, Knows
    <2>13. (ip[p] # 0 => OnDisk(ip[p]) /\ ~IsDirOn(disk, Ino(ip[p])))'
      BY <2>1, <2>5, <2>11 DEF Stays, OnDisk, IsDirOn, Ino
    <2>14. Knows(p)'
      BY <1>1, <1>3, <1>6, <2>1, <2>6, <2>10, <2>12, <2>13, KnowsSelf
    <2>15. PICK o, n : o = Ino(s) /\ n = 1  OBVIOUS
    <2>16. Cardinality(Between(o)') <= Cardinality(Between(o)) + n /\ n \in Int
      BY <1>5, <1>6, <2>10, <2>15, BetweenStep
    <2>17. \A j : j # o => (p \in Between(j)' => p \in Between(j))
      BY <2>1, <2>11, <2>15 DEF Between, Stays, Ino
    <2>18. /\ o \in Alloc(disk) /\ disk'.inode[o].nlink = disk.inode[o].nlink + n
           /\ \A j \in Inum : j # o => /\ disk'.inode[j].nlink = disk.inode[j].nlink
                                       /\ p \in Between(j)' => p \in Between(j)
      BY <1>5, <2>3, <2>15, <2>17
    <2>19. QED  BY <1>6, <2>6, <2>7, <2>10, <2>14, <2>16, <2>18, LinkStep
  <1>9. QED  BY <1>7, <1>8

\* A call takes a link away, for one that it stood for, and returns.
LEMMA LessReturn ==
    ASSUME NameInv, DiskInv', NEW p \in Proc, NEW s, s = ip[p], s # 0, Mine(p, s),
           pc[p] \in {"linkbad", "unlink3"}, Return(p, <<Put(s)>>),
           UNCHANGED <<cwd, fd, putting>>, putting[p] = "no",
           disk' = NlinkLess(disk, Ino(s)), NEW m, itable' = Load(itable, s, m)
    PROVE  NameInv'
  <1>1. /\ DiskInv /\ RefInv /\ ProcTypes /\ DiskOK(disk) /\ Knows(p)
    BY DEF NameInv, DiskInv, RefInv
  <1>2. s \in Slot /\ Refers(p, s) /\ itable[s].ref > 0  BY DEF Mine, Refers
  <1>3. Ino(s) \in Inum /\ Ino(s) \in Alloc(disk)
    <2>1. Ino(s) \in Inum  BY <1>1, <1>2, OwnIs
    <2>2. QED  BY <1>1, <2>1 DEF Knows, OnDisk, Alloc
  <1>4. PICK E, y, z : E = disk' /\ y = Ino(s) /\ z = 0  OBVIOUS
  <1>5. /\ E.content = disk.content /\ E.inode[y].type = disk.inode[y].type
        /\ E.inode[y].nlink = disk.inode[y].nlink - 1
        /\ \A j \in Inum : j # y => E.inode[j] = disk.inode[j]
    <2>1. E = NlinkLess(disk, y) /\ y \in Inum /\ z \in Int  BY <1>3, <1>4
    <2>2. /\ NlinkLess(disk, y).content = disk.content
          /\ NlinkLess(disk, y).inode[y].nlink = disk.inode[y].nlink - 1
          /\ NlinkLess(disk, y).inode[y].type = disk.inode[y].type
          /\ \A j \in Inum : j # y => NlinkLess(disk, y).inode[j] = disk.inode[j]
      BY ONLY <1>1, <2>1, NlinkIs
    <2>3. QED  BY <2>1, <2>2
  <1>6. Rewrote(Ino(s)) /\ disk'.content = disk.content
    BY <1>4, <1>5 DEF Rewrote, SameInode
  <1>7. Touches(p, s)  BY <1>2 DEF Touches
  <1>8. Changes(p) /\ Alloc(disk') = Alloc(disk)  BY <1>6, <1>7, RewroteIs DEF Complete
  <1>9. SameDirs(disk, disk')  BY <1>6, RewroteSame
  <1>10. PICK t : t = <<Put(s)>>  OBVIOUS
  <1>11. t \in Todos /\ OfHad(p, t)  BY <1>2, <1>10, PutsOfLists, TasksHad
  <1>12. Return(p, t)  BY <1>10 DEF Return, Then, Forget
  <1>13. Nums  BY <1>1, <1>2, NumsLoad
  <1>14. Kept(p) /\ CwdOK(p) /\ FdOK(p) /\ putting'[p] # "free"
    BY DEF DiskInv, RefInv, ProcTypes, Kept, CwdOK, FdOK
  <1>15. Moves(p) /\ Knows(p)' /\ \A j : p \notin Between(j)'
    BY <1>8, <1>11, <1>12, <1>13, <1>14, ReturnKnows
  <1>16. p \in Between(y)  BY <1>4 DEF Between
  <1>17. PICK n : n = -1  OBVIOUS
  <1>18. Cardinality(Between(y)') <= Cardinality(Between(y)) + n /\ n \in Int
    <2>1. y \in Inum /\ p \notin Between(y)'  BY <1>3, <1>4, <1>15
    <2>2. /\ Cardinality(Between(y)) \in Nat /\ Cardinality(Between(y)') \in Nat
          /\ Cardinality(Between(y)') <= Cardinality(Between(y)) - 1
      BY <1>15, <1>16, <2>1, BetweenStep
    <2>3. QED  BY <1>17, <2>2
  <1>19. disk'.inode[y].nlink = disk.inode[y].nlink + n
    <2>1. disk.inode[y].nlink \in Int  BY <1>1, <1>3, <1>4, NlinkInt
    <2>2. QED  BY <1>4, <1>5, <1>17, <2>1
  <1>20. \A j \in Inum : j # y => /\ disk'.inode[j].nlink = disk.inode[j].nlink
                                  /\ p \in Between(j)' => p \in Between(j)
    BY <1>4, <1>5, <1>15
  <1>21. y \in Alloc(disk)  BY <1>3, <1>4
  <1>22. QED  BY <1>8, <1>9, <1>15, <1>18, <1>19, <1>20, <1>21, LinkStep

\* link() takes the count back.
LEMMA NameLinkBad == ASSUME NameInv, NEW p \in Proc, LinkBad(p) PROVE NameInv'
  <1> DEFINE s == ip[p]
             D == NlinkLess(Own(disk, s), Ino(s))
  <1>1. /\ pc[p] = "linkbad" /\ todo[p] = <<>> /\ UNCHANGED <<holder, cwd, fd, putting>>
        /\ Free(s) /\ disk' = D /\ itable' = Load(itable, s, D.inode[Ino(s)])
        /\ Return(p, <<Put(s)>>)
    BY DEF LinkBad, At, Ilock
  <1>2. DiskInv /\ Place(p) /\ putting[p] = "no"
    BY <1>1, NoTasks DEF NameInv, DiskInv, RefInv
  <1>3. s # 0  BY <1>1, <1>2 DEF Place
  <1>4. Mine(p, s) /\ Own(disk, s) = disk  BY <1>1, <1>2, <1>3, MineIs
  <1>5. disk' = NlinkLess(disk, Ino(s))  BY <1>1, <1>4
  <1>6. DiskInv'  BY <1>2, DiskLinkBad
  <1>7. PICK u, m : u = ip[p] /\ m = D.inode[Ino(s)]  OBVIOUS
  <1> HIDE DEF D
  <1>8. itable' = Load(itable, u, m) /\ Return(p, <<Put(u)>>)
    BY <1>1, <1>7 DEF Return, Then, Forget
  <1>9. disk' = NlinkLess(disk, Ino(u)) /\ u # 0 /\ Mine(p, u)  BY <1>3, <1>4, <1>5, <1>7
  <1>10. QED  BY <1>1, <1>2, <1>6, <1>7, <1>8, <1>9, LessReturn

\* unlink() takes the link away.
LEMMA NameUnlink3 == ASSUME NameInv, NEW p \in Proc, Unlink3(p) PROVE NameInv'
  <1> DEFINE s == ip[p]
             D == NlinkLess(Own(disk, s), Ino(s))
  <1>1. /\ pc[p] = "unlink3" /\ todo[p] = <<>> /\ UNCHANGED <<cwd, fd, putting>>
        /\ disk' = D /\ itable' = Load(itable, s, D.inode[Ino(s)])
        /\ Return(p, <<Put(s)>>)
    BY DEF Unlink3, At
  <1>2. DiskInv /\ RefInv /\ Place(p) /\ putting[p] = "no"
    BY <1>1, NoTasks DEF NameInv, DiskInv, RefInv
  <1>3. s # 0 /\ pc[p] \in Locking  BY <1>1, <1>2 DEF Place, Locking
  <1>4. s \in Slot  BY <1>2, <1>3, PlaceFacts
  <1>5. holder[s] = p  BY <1>1, <1>2, <1>3, <1>4, HasLock
  <1>6. Mine(p, s) /\ Own(disk, s) = disk  BY <1>2, <1>3, <1>5, HeldIs
  <1>7. disk' = NlinkLess(disk, Ino(s))  BY <1>1, <1>6
  <1>8. DiskInv'  BY <1>2, DiskUnlink3
  <1>9. PICK u, m : u = ip[p] /\ m = D.inode[Ino(s)]  OBVIOUS
  <1> HIDE DEF D
  <1>10. itable' = Load(itable, u, m) /\ Return(p, <<Put(u)>>)
    BY <1>1, <1>9 DEF Return, Then, Forget
  <1>11. disk' = NlinkLess(disk, Ino(u)) /\ u # 0 /\ Mine(p, u)  BY <1>3, <1>6, <1>7, <1>9
  <1>12. QED  BY <1>1, <1>2, <1>8, <1>9, <1>10, <1>11, LessReturn
-----------------------------------------------------------------------------
(* Names come and go.                                                       *)

\* Entry k of directory d becomes one for inode i; else the directories stay.
Placed(D, E, d, k, i) ==
    /\ \A j \in Inum : /\ E.inode[j].type = D.inode[j].type
                       /\ j # d => E.content[j] = D.content[j]
    /\ Len(D.content[d]) <= Len(E.content[d]) /\ k \in 3..Len(E.content[d])
    /\ \A m \in 1..Len(E.content[d]) :
          m # k => m \in 1..Len(D.content[d]) /\ E.content[d][m] = D.content[d][m]
    /\ E.content[d][k].inum = i

\* The other names and every "." and ".." are the same.
LEMMA PlacedIs ==
    ASSUME NEW D, DiskOK(D), NEW E, DiskOK(E), NEW d, d \in Inum, IsDirOn(D, d), Complete(D, d),
           NEW k, NEW i, Placed(D, E, d, k, i)
    PROVE  /\ \A a, m, j : Says(E, a, m, j) /\ ~(a = d /\ m = k) => Says(D, a, m, j)
           /\ \A a, m, j : Says(D, a, m, j) /\ ~(a = d /\ m = k) => Says(E, a, m, j)
           /\ \A j : Says(E, d, k, j) <=> j = i
           /\ \A a \in Inum : IsDirOn(E, a) <=> IsDirOn(D, a)
           /\ \A a \in Inum : IsDirOn(D, a) =>
                 /\ Complete(E, a) <=> Complete(D, a)
                 /\ Len(E.content[a]) >= 2 <=> Len(D.content[a]) >= 2
                 /\ Len(D.content[a]) >= 2 => E.content[a][2] = D.content[a][2]
                 /\ Len(E.content[a]) <= 2 <=> a # d /\ Len(D.content[a]) <= 2
  <1>1. \A a \in Inum : IsDirOn(E, a) <=> IsDirOn(D, a)  BY DEF Placed, IsDirOn
  <1>2. \A a \in Inum : IsDirOn(D, a) => D.content[a] \in Seq(Entry) /\ E.content[a] \in Seq(Entry)
    BY <1>1 DEF DiskOK, IsDisk, IsContent, IsDirOn
  <1>3. PICK u, v : u = D.content[d] /\ v = E.content[d]  OBVIOUS
  <1>4. u \in Seq(Entry) /\ v \in Seq(Entry)  BY <1>2, <1>3
  <1>5. PICK x, y : x = Len(u) /\ y = Len(v)  OBVIOUS
  <1>6. x \in Nat /\ y \in Nat  BY <1>4, <1>5
  <1>7. /\ x <= y /\ k \in 3..y /\ v[k].inum = i /\ x >= 2
        /\ \A m \in 1..y : m # k => m \in 1..x /\ v[m] = u[m]
    BY <1>3, <1>5 DEF Placed, Complete
  <1>8. k \in Nat /\ k >= 3 /\ k <= y  BY <1>6, <1>7
  <1>9. 1 \in 1..y /\ 2 \in 1..y /\ 1 # k /\ 2 # k  BY <1>6, <1>8
  <1>10. v[1] = u[1] /\ v[2] = u[2] /\ y >= 3  BY <1>6, <1>7, <1>8, <1>9
  <1>11. ASSUME NEW a, NEW m, NEW j, Says(E, a, m, j), ~(a = d /\ m = k) PROVE Says(D, a, m, j)
    <2>1. a \in Inum /\ IsDirOn(E, a) /\ m \in 3..Len(E.content[a]) /\ E.content[a][m].inum = j
      BY <1>11 DEF Says
    <2>2. IsDirOn(D, a)  BY <1>1, <2>1
    <2>3. CASE a # d
      <3>1. E.content[a] = D.content[a]  BY <2>1, <2>3 DEF Placed
      <3>2. QED  BY <2>1, <2>2, <3>1 DEF Says
    <2>4. CASE a = d
      <3>1. m \in 3..y /\ v[m].inum = j /\ m # k  BY <1>3, <1>5, <1>11, <2>1, <2>4
      <3>2. m \in 1..y  BY <1>6, <3>1
      <3>3. m \in 1..x /\ v[m] = u[m]  BY <1>7, <3>1, <3>2
      <3>4. m \in 3..x  BY <1>6, <3>1, <3>3
      <3>5. QED  BY <1>3, <1>5, <2>1, <2>2, <2>4, <3>1, <3>3, <3>4 DEF Says
    <2>5. QED  BY <2>3, <2>4
  <1>12. ASSUME NEW a, NEW m, NEW j, Says(D, a, m, j), ~(a = d /\ m = k) PROVE Says(E, a, m, j)
    <2>1. a \in Inum /\ IsDirOn(D, a) /\ m \in 3..Len(D.content[a]) /\ D.content[a][m].inum = j
      BY <1>12 DEF Says
    <2>2. IsDirOn(E, a)  BY <1>1, <2>1
    <2>3. CASE a # d
      <3>1. E.content[a] = D.content[a]  BY <2>1, <2>3 DEF Placed
      <3>2. QED  BY <2>1, <2>2, <3>1 DEF Says
    <2>4. CASE a = d
      <3>1. m \in 3..x /\ u[m].inum = j /\ m # k  BY <1>3, <1>5, <1>12, <2>1, <2>4
      <3>2. m \in 1..y /\ m \in 3..y  BY <1>6, <1>7, <3>1
      <3>3. v[m] = u[m]  BY <1>7, <3>1, <3>2
      <3>4. QED  BY <1>3, <1>5, <2>1, <2>2, <2>4, <3>1, <3>2, <3>3 DEF Says
    <2>5. QED  BY <2>3, <2>4
  <1>13. \A j : Says(E, d, k, j) <=> j = i  BY <1>1, <1>3, <1>5, <1>7 DEF Says
  <1>14. ASSUME NEW a, a \in Inum, IsDirOn(D, a)
         PROVE  /\ Complete(E, a) <=> Complete(D, a)
                /\ Len(E.content[a]) >= 2 <=> Len(D.content[a]) >= 2
                /\ Len(D.content[a]) >= 2 => E.content[a][2] = D.content[a][2]
                /\ Len(E.content[a]) <= 2 <=> a # d /\ Len(D.content[a]) <= 2
    <2>1. CASE a # d
      <3>1. E.content[a] = D.content[a]  BY <1>14, <2>1 DEF Placed
      <3>2. QED  BY <2>1, <3>1 DEF Complete
    <2>2. CASE a = d
      <3>1. y >= 2 /\ ~(y <= 2) /\ x >= 2  BY <1>6, <1>7, <1>10
      <3>2. Complete(E, a)  BY <1>3, <1>5, <1>10, <2>2, <3>1 DEF Complete
      <3>3. QED  BY <1>3, <1>5, <1>10, <2>2, <3>1, <3>2
    <2>3. QED  BY <2>1, <2>2
  <1>15. QED  BY <1>1, <1>11, <1>12, <1>13, <1>14

\* A link of D or E is a pair of Inum and Nat.
LEMMA LinkedIs ==
    ASSUME NEW D, DiskOK(D), NEW x, NEW i
    PROVE  x \in Linked(D, i) <=> \E a, m : x = <<a, m>> /\ Link(D, a, m, i)
  <1>1. ASSUME NEW a, NEW m, Link(D, a, m, i) PROVE <<a, m>> \in Inum \X Nat
    <2>1. CASE Says(D, a, m, i)
      <3>1. a \in Inum /\ IsDirOn(D, a) /\ m \in 3..Len(D.content[a])  BY <2>1 DEF Says
      <3>2. D.content[a] \in Seq(Entry)  BY <3>1 DEF DiskOK, IsDisk, IsContent, IsDirOn
      <3>3. Len(D.content[a]) \in Nat  BY <3>2
      <3>4. QED  BY <3>1, <3>3
    <2>2. CASE m = 2 /\ Up(D, a, i)  BY <2>2 DEF Up
    <2>3. QED  BY <1>1, <2>1, <2>2 DEF Link
  <1>2. ASSUME NEW a, NEW m, x = <<a, m>>, Link(D, a, m, i) PROVE x \in Linked(D, i)
    <2>1. x \in Inum \X Nat /\ x[1] = a /\ x[2] = m  BY <1>1, <1>2
    <2>2. QED  BY <1>2, <2>1 DEF Linked
  <1>3. ASSUME x \in Linked(D, i) PROVE \E a, m : x = <<a, m>> /\ Link(D, a, m, i)
    <2>1. x \in Inum \X Nat /\ Link(D, x[1], x[2], i)  BY <1>3 DEF Linked
    <2>2. x = <<x[1], x[2]>>  BY <2>1
    <2>3. QED  BY <2>1, <2>2
  <1>4. QED  BY <1>2, <1>3

\* An entry that was not in use becomes a name of t: a file, or a directory that has none
\* and whose ".." is the one that gets the entry.
LEMMA AddLinks ==
    ASSUME NEW D, DiskOK(D), NEW E, DiskOK(E), Tree(D), NEW d, d \in Inum, IsDirOn(D, d),
           Complete(D, d), NEW k, NEW t, t \in Inum, Placed(D, E, d, k, t),
           \A j \in Inum : ~Says(D, d, k, j),
           IsDirOn(D, t) => ~HasName(D, t) /\ Complete(D, t) /\ D.content[t][2].inum = d
    PROVE  /\ Tree(E)
           /\ \A a, m, i : Link(E, a, m, i) =>
                 \/ Link(D, a, m, i)
                 \/ i = t /\ a = d /\ m = k
                 \/ i = d /\ IsDirOn(D, t) /\ a = t /\ m = 2
  <1>1. /\ \A a, m, j : Says(E, a, m, j) /\ ~(a = d /\ m = k) => Says(D, a, m, j)
        /\ \A a, m, j : Says(D, a, m, j) /\ ~(a = d /\ m = k) => Says(E, a, m, j)
        /\ \A j : Says(E, d, k, j) <=> j = t
        /\ \A a \in Inum : IsDirOn(E, a) <=> IsDirOn(D, a)
    BY PlacedIs
  <1>2. \A a \in Inum : IsDirOn(D, a) =>
           /\ Complete(E, a) <=> Complete(D, a)
           /\ Len(E.content[a]) >= 2 <=> Len(D.content[a]) >= 2
           /\ Len(D.content[a]) >= 2 => E.content[a][2] = D.content[a][2]
           /\ Len(E.content[a]) <= 2 <=> a # d /\ Len(D.content[a]) <= 2
    BY PlacedIs
  <1>3. \A a, m, j : Says(E, a, m, j) => Says(D, a, m, j) \/ (a = d /\ m = k /\ j = t)
    BY <1>1
  <1>4. \A j : HasName(E, j) => HasName(D, j) \/ j = t  BY <1>3 DEF HasName
  <1>5. /\ IsDirOn(D, ROOTINO) /\ D.content[ROOTINO][2].inum = ROOTINO /\ ROOTINO \in Inum
        /\ \A a \in Inum : IsDirOn(D, a) => /\ HasName(D, a) => Complete(D, a)
                                            /\ ~Complete(D, a) => Len(D.content[a]) <= 2
    BY InodeAssumption, FsAssumption DEF Tree, ROOTINO, Inum, InodeAssumption, FsAssumption
  <1>6. \A a, m, i : Says(D, a, m, i) /\ i \in Inum /\ IsDirOn(D, i) =>
           /\ i # ROOTINO /\ D.content[i][2].inum = a
           /\ \A e, l : Says(D, e, l, i) => e = a /\ l = m
    BY DEF Tree
  <1>7. HasName(D, ROOTINO) /\ Complete(D, ROOTINO)  BY <1>5 DEF HasName
  <1>8. IsDirOn(E, ROOTINO) /\ E.content[ROOTINO][2].inum = ROOTINO
    BY <1>1, <1>2, <1>5, <1>7 DEF Complete
  <1>9. ASSUME NEW a \in Inum, IsDirOn(E, a)
        PROVE  /\ HasName(E, a) => Complete(E, a)
               /\ ~Complete(E, a) => Len(E.content[a]) <= 2
    <2>1. IsDirOn(D, a)  BY <1>1, <1>9
    <2>2. HasName(E, a) => Complete(E, a)  BY <1>2, <1>4, <1>5, <2>1
    <2>3. ~Complete(E, a) => Len(E.content[a]) <= 2  BY <1>2, <1>5, <2>1
    <2>4. QED  BY <2>2, <2>3
  <1>10. ASSUME NEW a, NEW m, NEW i, Says(E, a, m, i), i \in Inum, IsDirOn(E, i)
         PROVE  /\ i # ROOTINO /\ E.content[i][2].inum = a
                /\ \A e, l : Says(E, e, l, i) => e = a /\ l = m
    <2>1. IsDirOn(D, i)  BY <1>1, <1>10
    <2>2. CASE Says(D, a, m, i)
      <3>1. HasName(D, i)  BY <2>2 DEF HasName
      <3>2. Complete(D, i) /\ i # t  BY <1>5, <1>10, <2>1, <3>1
      <3>3. E.content[i][2] = D.content[i][2]  BY <1>2, <1>10, <2>1, <3>2 DEF Complete
      <3>4. \A e, l : Says(E, e, l, i) => Says(D, e, l, i)  BY <1>3, <3>2
      <3>5. QED  BY <1>6, <1>10, <2>1, <2>2, <3>3, <3>4
    <2>3. CASE a = d /\ m = k /\ i = t
      <3>1. i # ROOTINO  BY <1>7, <2>1, <2>3
      <3>2. E.content[i][2] = D.content[i][2]  BY <1>2, <1>10, <2>1, <2>3 DEF Complete
      <3>3. \A e, l : Says(E, e, l, i) => e = d /\ l = k  BY <1>3, <2>1, <2>3 DEF HasName
      <3>4. QED  BY <2>1, <2>3, <3>1, <3>2, <3>3
    <2>4. QED  BY <1>3, <1>10, <2>2, <2>3
  <1>11. Tree(E)  BY <1>8, <1>9, <1>10 DEF Tree
  <1>12. ASSUME NEW a, NEW m, NEW i, Link(E, a, m, i)
         PROVE  \/ Link(D, a, m, i)
                \/ i = t /\ a = d /\ m = k
                \/ i = d /\ IsDirOn(D, t) /\ a = t /\ m = 2
    <2>1. CASE Says(E, a, m, i)  BY <1>3, <2>1 DEF Link
    <2>2. CASE m = 2 /\ Up(E, a, i)
      <3>1. /\ a \in Inum /\ IsDirOn(E, a) /\ Len(E.content[a]) >= 2
            /\ E.content[a][2].inum = i /\ HasName(E, a)
        BY <2>2 DEF Up
      <3>2. /\ IsDirOn(D, a) /\ Len(D.content[a]) >= 2 /\ D.content[a][2].inum = i
        BY <1>1, <1>2, <3>1
      <3>3. CASE HasName(D, a)  BY <2>2, <3>1, <3>2, <3>3 DEF Link, Up
      <3>4. CASE a = t  BY <2>2, <3>2, <3>4
      <3>5. QED  BY <1>4, <3>1, <3>3, <3>4
    <2>3. QED  BY <1>12, <2>1, <2>2 DEF Link
  <1>13. QED  BY <1>11, <1>12

\* A name of t goes.
LEMMA DropLinks ==
    ASSUME NEW D, DiskOK(D), NEW E, DiskOK(E), Tree(D), NEW d, d \in Inum, IsDirOn(D, d),
           Complete(D, d), NEW k, NEW t, t \in Inum, Says(D, d, k, t), Placed(D, E, d, k, 0)
    PROVE  /\ Tree(E)
           /\ \A a, m, i : Link(E, a, m, i) /\ i \in Inum =>
                 /\ Link(D, a, m, i) /\ ~(a = d /\ m = k)
                 /\ IsDirOn(D, t) => ~(a = t /\ m = 2)
           /\ Link(D, d, k, t)
           /\ IsDirOn(D, t) => Link(D, t, 2, d)
  <1>0. 0 \notin Inum  BY InodeAssumption DEF Inum, InodeAssumption
  <1>1. /\ \A a, m, j : Says(E, a, m, j) /\ ~(a = d /\ m = k) => Says(D, a, m, j)
        /\ \A a, m, j : Says(D, a, m, j) /\ ~(a = d /\ m = k) => Says(E, a, m, j)
        /\ \A j : Says(E, d, k, j) <=> j = 0
        /\ \A a \in Inum : IsDirOn(E, a) <=> IsDirOn(D, a)
    BY PlacedIs
  <1>2. \A a \in Inum : IsDirOn(D, a) =>
           /\ Complete(E, a) <=> Complete(D, a)
           /\ Len(E.content[a]) >= 2 <=> Len(D.content[a]) >= 2
           /\ Len(D.content[a]) >= 2 => E.content[a][2] = D.content[a][2]
           /\ Len(E.content[a]) <= 2 <=> a # d /\ Len(D.content[a]) <= 2
    BY PlacedIs
  <1>3. \A a, m, j : Says(E, a, m, j) /\ j \in Inum => Says(D, a, m, j) /\ ~(a = d /\ m = k)
    BY <1>0, <1>1
  <1>4. \A j \in Inum : HasName(E, j) => HasName(D, j)  BY <1>3 DEF HasName
  <1>5. /\ IsDirOn(D, ROOTINO) /\ D.content[ROOTINO][2].inum = ROOTINO /\ ROOTINO \in Inum
        /\ \A a \in Inum : IsDirOn(D, a) => /\ HasName(D, a) => Complete(D, a)
                                            /\ ~Complete(D, a) => Len(D.content[a]) <= 2
    BY InodeAssumption, FsAssumption DEF Tree, ROOTINO, Inum, InodeAssumption, FsAssumption
  <1>6. \A a, m, i : Says(D, a, m, i) /\ i \in Inum /\ IsDirOn(D, i) =>
           /\ i # ROOTINO /\ D.content[i][2].inum = a
           /\ \A e, l : Says(D, e, l, i) => e = a /\ l = m
    BY DEF Tree
  <1>7. HasName(D, ROOTINO) /\ Complete(D, ROOTINO)  BY <1>5 DEF HasName
  <1>8. IsDirOn(E, ROOTINO) /\ E.content[ROOTINO][2].inum = ROOTINO
    BY <1>1, <1>2, <1>5, <1>7 DEF Complete
  <1>9. ASSUME NEW a \in Inum, IsDirOn(E, a)
        PROVE  /\ HasName(E, a) => Complete(E, a)
               /\ ~Complete(E, a) => Len(E.content[a]) <= 2
    <2>1. IsDirOn(D, a)  BY <1>1, <1>9
    <2>2. HasName(E, a) => Complete(E, a)  BY <1>2, <1>4, <1>5, <2>1
    <2>3. ~Complete(E, a) => Len(E.content[a]) <= 2  BY <1>2, <1>5, <2>1
    <2>4. QED  BY <2>2, <2>3
  <1>10. ASSUME NEW a, NEW m, NEW i, Says(E, a, m, i), i \in Inum, IsDirOn(E, i)
         PROVE  /\ i # ROOTINO /\ E.content[i][2].inum = a
                /\ \A e, l : Says(E, e, l, i) => e = a /\ l = m
    <2>1. IsDirOn(D, i) /\ Says(D, a, m, i)  BY <1>1, <1>3, <1>10
    <2>2. HasName(D, i)  BY <2>1 DEF HasName
    <2>3. Complete(D, i)  BY <1>5, <1>10, <2>1, <2>2
    <2>4. E.content[i][2] = D.content[i][2]  BY <1>2, <1>10, <2>1, <2>3 DEF Complete
    <2>5. \A e, l : Says(E, e, l, i) => Says(D, e, l, i)  BY <1>3, <1>10
    <2>6. QED  BY <1>6, <1>10, <2>1, <2>4, <2>5
  <1>11. Tree(E)  BY <1>8, <1>9, <1>10 DEF Tree
  <1>12. IsDirOn(D, t) => ~HasName(E, t)
    <2>1. SUFFICES ASSUME IsDirOn(D, t), HasName(E, t) PROVE FALSE  OBVIOUS
    <2>2. t # ROOTINO  BY <1>6, <2>1
    <2>3. PICK a, m : Says(E, a, m, t)  BY <2>1, <2>2 DEF HasName
    <2>4. Says(D, a, m, t) /\ ~(a = d /\ m = k)  BY <1>3, <2>3
    <2>5. QED  BY <1>6, <2>1, <2>4
  <1>13. k \in 3..Len(D.content[d])  BY DEF Says
  <1>14. k # 2
    <2>1. D.content[d] \in Seq(Entry)  BY DEF DiskOK, IsDisk, IsContent, IsDirOn
    <2>2. Len(D.content[d]) \in Nat  BY <2>1
    <2>3. QED  BY <1>13, <2>2
  <1>15. ASSUME NEW a, NEW m, NEW i, Link(E, a, m, i), i \in Inum
         PROVE  /\ Link(D, a, m, i) /\ ~(a = d /\ m = k)
                /\ IsDirOn(D, t) => ~(a = t /\ m = 2)
    <2>1. CASE Says(E, a, m, i)
      <3>1. Says(D, a, m, i) /\ ~(a = d /\ m = k)  BY <1>3, <1>15, <2>1
      <3>2. m # 2
        <4>1. a \in Inum /\ IsDirOn(D, a) /\ m \in 3..Len(D.content[a])  BY <3>1 DEF Says
        <4>2. D.content[a] \in Seq(Entry)  BY <4>1 DEF DiskOK, IsDisk, IsContent, IsDirOn
        <4>3. Len(D.content[a]) \in Nat  BY <4>2
        <4>4. QED  BY <4>1, <4>3
      <3>3. QED  BY <3>1, <3>2 DEF Link
    <2>2. CASE m = 2 /\ Up(E, a, i)
      <3>1. /\ a \in Inum /\ IsDirOn(E, a) /\ Len(E.content[a]) >= 2
            /\ E.content[a][2].inum = i /\ HasName(E, a)
        BY <2>2 DEF Up
      <3>2. /\ IsDirOn(D, a) /\ Len(D.content[a]) >= 2 /\ D.content[a][2].inum = i
        BY <1>1, <1>2, <3>1
      <3>3. HasName(D, a)  BY <1>4, <3>1
      <3>4. Link(D, a, m, i)  BY <2>2, <3>1, <3>2, <3>3 DEF Link, Up
      <3>5. QED  BY <1>12, <1>14, <2>2, <3>1, <3>4
    <2>3. QED  BY <1>15, <2>1, <2>2 DEF Link
  <1>16. Link(D, d, k, t)  BY DEF Link
  <1>17. IsDirOn(D, t) => Link(D, t, 2, d)
    <2>1. SUFFICES ASSUME IsDirOn(D, t) PROVE Up(D, t, d)  BY DEF Link
    <2>2. HasName(D, t) /\ D.content[t][2].inum = d  BY <1>6, <2>1 DEF HasName
    <2>3. QED  BY <1>5, <2>1, <2>2 DEF Up, Complete
  <1>18. QED  BY <1>11, <1>15, <1>16, <1>17

\* From links to the sets of them.
LEMMA LinkedSub ==
    ASSUME NEW D, DiskOK(D), NEW E, DiskOK(E), NEW i, NEW u, NEW v, NEW x, x = <<u, v>>
    PROVE  /\ (\A a, m : Link(E, a, m, i) => Link(D, a, m, i))
                => Linked(E, i) \subseteq Linked(D, i)
           /\ (\A a, m : Link(E, a, m, i) => Link(D, a, m, i) \/ (a = u /\ m = v))
                => Linked(E, i) \subseteq Linked(D, i) \cup {x}
           /\ (\A a, m : Link(E, a, m, i) => Link(D, a, m, i) /\ ~(a = u /\ m = v))
                => Linked(E, i) \subseteq Linked(D, i) \ {x}
           /\ Link(D, u, v, i) => x \in Linked(D, i)
  <1>1. \A y : y \in Linked(D, i) <=> \E a, m : y = <<a, m>> /\ Link(D, a, m, i)  BY LinkedIs
  <1>2. \A y : y \in Linked(E, i) <=> \E a, m : y = <<a, m>> /\ Link(E, a, m, i)  BY LinkedIs
  <1>3. \A a, m : <<a, m>> = x <=> a = u /\ m = v  OBVIOUS
  <1>4. ASSUME \A a, m : Link(E, a, m, i) => Link(D, a, m, i)
        PROVE  Linked(E, i) \subseteq Linked(D, i)
    BY <1>1, <1>2, <1>4
  <1>5. ASSUME \A a, m : Link(E, a, m, i) => Link(D, a, m, i) \/ (a = u /\ m = v)
        PROVE  Linked(E, i) \subseteq Linked(D, i) \cup {x}
    <2>1. ASSUME NEW y, y \in Linked(E, i) PROVE y \in Linked(D, i) \/ y = x
      <3>1. PICK a, m : y = <<a, m>> /\ Link(E, a, m, i)  BY <1>2, <2>1
      <3>2. QED  BY <1>1, <1>3, <1>5, <3>1
    <2>2. QED  BY <2>1
  <1>6. ASSUME \A a, m : Link(E, a, m, i) => Link(D, a, m, i) /\ ~(a = u /\ m = v)
        PROVE  Linked(E, i) \subseteq Linked(D, i) \ {x}
    <2>1. ASSUME NEW y, y \in Linked(E, i) PROVE y \in Linked(D, i) /\ y # x
      <3>1. PICK a, m : y = <<a, m>> /\ Link(E, a, m, i)  BY <1>2, <2>1
      <3>2. QED  BY <1>1, <1>3, <1>6, <3>1
    <2>2. QED  BY <2>1
  <1>7. Link(D, u, v, i) => x \in Linked(D, i)  BY <1>1
  <1>8. QED  BY <1>4, <1>5, <1>6, <1>7

\* The links of an inode still cover its names: its link count changes by n, the calls by m.
LEMMA CoversNext ==
    ASSUME NameInv, DiskInv', NEW p \in Proc, Moves(p), NEW i, i \in Alloc(disk),
           i \in Alloc(disk'), NEW x, NEW m, m \in Int, NEW n, n \in Int,
           Cardinality(Between(i)') <= Cardinality(Between(i)) + m,
           disk'.inode[i].nlink = disk.inode[i].nlink + n
    PROVE  /\ Linked(disk', i) \subseteq Linked(disk, i) /\ m <= n
                => Covers(disk', i, Cardinality(Between(i)'))
           /\ Linked(disk', i) \subseteq Linked(disk, i) \cup {x} /\ 1 + m <= n
                => Covers(disk', i, Cardinality(Between(i)'))
           /\ Linked(disk', i) \subseteq Linked(disk, i) \ {x}
                /\ x \in Linked(disk, i) /\ m - 1 <= n
                => Covers(disk', i, Cardinality(Between(i)'))
  <1>1. i \in Inum  BY DEF Alloc
  <1>2. DiskOK(disk) /\ DiskOK(disk')  BY DEF NameInv, DiskInv
  <1>3. PICK b, c, S, T : /\ b = Cardinality(Between(i)) /\ c = Cardinality(Between(i)')
                          /\ S = Linked(disk, i) /\ T = Linked(disk', i)
    OBVIOUS
  <1>4. b \in Nat /\ c \in Nat /\ c <= b + m  BY <1>1, <1>3, BetweenStep
  <1>5. disk.inode[i].nlink \in Int /\ disk'.inode[i].nlink \in Int  BY <1>1, <1>2, NlinkInt
  <1>6. Covers(disk, i, b)  BY <1>1, <1>3 DEF NameInv
  <1>7. IsFiniteSet(S)  BY <1>3, <1>6 DEF Covers
  <1>8. ASSUME NEW k, k \in Int, IsFiniteSet(T), Cardinality(T) <= Cardinality(S) + k, k + m <= n
        PROVE  Covers(disk', i, c)
    <2>1. IsFiniteSet(Linked(disk', i))
          /\ Cardinality(Linked(disk', i)) <= Cardinality(Linked(disk, i)) + k
      BY <1>3, <1>8
    <2>2. disk'.inode[i].nlink >= disk.inode[i].nlink + n  BY <1>5
    <2>3. i \in Alloc(disk) /\ i \in Alloc(disk') /\ m \in Int /\ n \in Int  OBVIOUS
    <2>4. QED  BY ONLY <1>4, <1>5, <1>6, <1>8, <2>1, <2>2, <2>3, CoversMove
  <1>9. PICK z, o, w : z = 0 /\ o = 1 /\ w = -1  OBVIOUS
  <1>10. Cardinality(S) \in Nat /\ z \in Int /\ o \in Int /\ w \in Int  BY <1>7, <1>9, Fewer
  <1>11. ASSUME T \subseteq S, m <= n PROVE Covers(disk', i, c)
    <2>1. IsFiniteSet(T) /\ Cardinality(T) <= Cardinality(S)  BY <1>7, <1>11, Fewer
    <2>2. Cardinality(T) \in Nat  BY <2>1, FS_CardinalityType
    <2>3. Cardinality(T) <= Cardinality(S) + z /\ z + m <= n  BY <1>9, <1>10, <1>11, <2>1, <2>2
    <2>4. QED  BY <1>8, <1>10, <2>1, <2>3
  <1>12. ASSUME T \subseteq S \cup {x}, 1 + m <= n PROVE Covers(disk', i, c)
    <2>1. IsFiniteSet(T) /\ Cardinality(T) <= Cardinality(S) + 1  BY <1>7, <1>12, Fewer
    <2>2. Cardinality(T) <= Cardinality(S) + o /\ o + m <= n  BY <1>9, <1>12, <2>1
    <2>3. QED  BY <1>8, <1>10, <2>1, <2>2
  <1>13. ASSUME T \subseteq S \ {x}, x \in S, m - 1 <= n PROVE Covers(disk', i, c)
    <2>1. IsFiniteSet(T) /\ Cardinality(T) <= Cardinality(S) - 1  BY <1>7, <1>13, Fewer
    <2>2. Cardinality(T) \in Nat  BY <2>1, FS_CardinalityType
    <2>3. Cardinality(T) <= Cardinality(S) + w /\ w + m <= n  BY <1>9, <1>10, <1>13, <2>1, <2>2
    <2>4. QED  BY <1>8, <1>10, <2>1, <2>3
  <1>14. QED  BY <1>3, <1>11, <1>12, <1>13

\* An inode that the step does not touch.
LEMMA CoversKept ==
    ASSUME NameInv, DiskInv', NEW p \in Proc, Moves(p), NEW i, i \in Inum,
           p \in Between(i)' => p \in Between(i),
           i \in Alloc(disk') <=> i \in Alloc(disk), Linked(disk', i) \subseteq Linked(disk, i),
           disk'.inode[i].nlink = disk.inode[i].nlink
    PROVE  Covers(disk', i, Cardinality(Between(i)'))
  <1>1. DiskOK(disk)  BY DEF NameInv, DiskInv
  <1>2. PICK b, c : b = Cardinality(Between(i)) /\ c = Cardinality(Between(i)')  OBVIOUS
  <1>3. b \in Nat /\ c \in Nat /\ c <= b  BY <1>2, BetweenStep
  <1>4. disk.inode[i].nlink \in Int  BY <1>1, NlinkInt
  <1>5. Covers(disk, i, b)  BY <1>2 DEF NameInv
  <1>6. Covers(disk', i, c)  BY <1>3, <1>4, <1>5, CoversSame
  <1>7. QED  BY <1>2, <1>6

\* writei() of an entry after "." and "..".
LEMMA PlacedWrite ==
    ASSUME NEW D, DiskOK(D), NEW i, i \in Inum, IsDirOn(D, i), NEW off, off \in Nat, off >= 2,
           off <= Len(D.content[i]), NEW x, x \in Entry, NEW E, Writes(D, E, i),
           E.content[i] = Written(D.content[i], off, x), NEW k, k = off + 1
    PROVE  Placed(D, E, i, k, x.inum)
  <1>1. PICK u, v : u = D.content[i] /\ v = E.content[i]  OBVIOUS
  <1>2. u \in Seq(Entry)  BY <1>1 DEF DiskOK, IsDisk, IsContent, IsDirOn
  <1>3. PICK a, b : a = Len(u) /\ b = Len(v)  OBVIOUS
  <1>4. /\ v \in Seq(Entry) /\ b = IF off = a THEN a + 1 ELSE a
        /\ v[k] = x
        /\ \A m \in 1..a : m # k => v[m] = u[m]
    <2>1. v = Written(u, off, x) /\ off <= Len(u)  BY <1>1
    <2>2. PICK S : S = Entry  OBVIOUS
    <2>3. u \in Seq(S) /\ x \in S /\ off \in Nat  BY <1>2, <2>2
    <2>4. Written(u, off, x) \in Seq(S)  BY ONLY <2>1, <2>3, WrittenIs
    <2>5. /\ off = Len(u) => Len(Written(u, off, x)) = Len(u) + 1
          /\ off # Len(u) => Len(Written(u, off, x)) = Len(u)
      BY ONLY <2>1, <2>3, WrittenIs
    <2>6. Written(u, off, x)[off + 1] = x  BY ONLY <2>1, <2>3, WrittenIs
    <2>7. ASSUME NEW m, m \in 1..Len(u), m # off + 1 PROVE Written(u, off, x)[m] = u[m]
      <3>1. CASE off = Len(u)
        <4>1. Written(u, off, x) = Append(u, x)  BY <3>1 DEF Written
        <4>2. QED  BY <2>3, <2>7, <4>1
      <3>2. CASE off # Len(u)
        <4>1. Written(u, off, x) = [u EXCEPT ![off + 1] = x]  BY <3>2 DEF Written
        <4>2. QED  BY <2>3, <2>7, <4>1
      <3>3. QED  BY <3>1, <3>2
    <2>8. QED  BY <1>3, <2>1, <2>2, <2>4, <2>5, <2>6, <2>7
  <1>5. a \in Nat /\ b \in Nat /\ off <= a  BY <1>1, <1>2, <1>3, <1>4
  <1>6. a <= b /\ k \in 3..b  BY <1>4, <1>5
  <1>7. ASSUME NEW m, m \in 1..b, m # k PROVE m \in 1..a /\ v[m] = u[m]
    <2>1. m \in 1..a  BY <1>4, <1>5, <1>7
    <2>2. QED  BY <1>4, <1>7, <2>1
  <1>8. \A j \in Inum : /\ E.inode[j].type = D.inode[j].type
                        /\ j # i => E.content[j] = D.content[j]
    BY DEF Writes
  <1>9. QED  BY <1>1, <1>3, <1>4, <1>6, <1>7, <1>8 DEF Placed

\* Entry x is written where none was in use.
Takes(D, E, i, x) == \E k : /\ k \in 1..(Len(D.content[i]) + 1)
                            /\ k \in 1..Len(D.content[i]) => D.content[i][k].inum = 0
                            /\ E.content[i] = Written(D.content[i], k - 1, x)

\* What dirlink() does to the directory.
LEMMA DirlinkDoes ==
    ASSUME NEW D, DiskOK(D), NEW i, i \in Inum, IsDirOn(D, i),
           NEW name, name \in EntryNames, NEW inum, inum \in Inum,
           NEW W, W = Dirlink(D, i, name, inum)
    PROVE  /\ DiskOK(W.disk) /\ Writes(D, W.disk, i)
           /\ ~W.ok => W.disk.content[i] = D.content[i]
           /\ W.ok => Takes(D, W.disk, i, [name |-> name, inum |-> inum])
  <1>1. i \in Alloc(D) /\ IsDisk(D) /\ D.inode[i].type = "dir"  BY DEF Alloc, DiskOK, IsDirOn
  <1>2. CASE Dirlookup(D, i, name) # 0
    <2>1. PICK no : no = FALSE  OBVIOUS
    <2>2. W = Res(D, no)  BY <1>2, <2>1, Zenon DEF Dirlink, Res
    <2>3. W.disk = D /\ W.ok = no  BY <2>2, ResFields
    <2>4. ~W.ok  BY <2>1, <2>3, Zenon
    <2>5. QED  BY <2>3, <2>4 DEF Writes
  <1>3. CASE Dirlookup(D, i, name) = 0
    <2>1. PICK k, off : k = EmptyEntry(D, i) /\ off = k - 1  OBVIOUS
    <2>2. /\ k \in 1..(Len(D.content[i]) + 1)
          /\ k \in 1..Len(D.content[i]) => D.content[i][k].inum = 0
      BY <1>1, <2>1, EmptyEntryIs
    <2>3. off \in Nat
      <3>1. D.content[i] \in Seq(Entry)  BY <1>1 DEF IsDisk, IsContent
      <3>2. Len(D.content[i]) \in Nat  BY <3>1
      <3>3. QED  BY ONLY <2>1, <2>2, <3>2
    <2> DEFINE x == [name |-> name, inum |-> inum]
    <2>4. x \in Entry  BY InodeAssumption DEF Entry, Inum, InodeAssumption
    <2>5. W = Writei(D, i, off, x)  BY <1>3, <2>1 DEF Dirlink
    <2> HIDE DEF x
    <2>6. IsUnit(D.inode[i].type, x)  BY <1>1, <2>4 DEF IsUnit
    <2>7. DiskOK(D)  OBVIOUS
    <2>8. /\ DiskOK(W.disk) /\ Writes(D, W.disk, i)
          /\ W.ok => W.disk.content[i] = Written(D.content[i], off, x)
          /\ ~W.ok => W.disk.content[i] = D.content[i]
      <3>1. DiskOK(W.disk) /\ Writes(D, W.disk, i)
        BY ONLY <1>1, <2>3, <2>5, <2>6, <2>7, WriteiIs
      <3>2. W.ok => off <= Len(D.content[i]) /\ W.disk.content[i] = Written(D.content[i], off, x)
        BY ONLY <1>1, <2>3, <2>5, <2>6, <2>7, WriteiIs, SMTT(30)
      <3>3. ASSUME ~W.ok PROVE W.disk.content[i] = D.content[i]
        BY ONLY <1>1, <2>3, <2>5, <2>6, <2>7, <3>3, WriteiIs
      <3>4. QED  BY <3>1, <3>2, <3>3
    <2>9. W.ok => W.disk.content[i] = Written(D.content[i], k - 1, x)  BY <2>1, <2>8
    <2>10. W.ok => Takes(D, W.disk, i, x)  BY <2>2, <2>9 DEF Takes
    <2>11. QED  BY <2>8, <2>10 DEF x
  <1>4. QED  BY <1>2, <1>3

\* When it fails, the directory is as it was.
LEMMA DirlinkFails ==
    ASSUME NEW D, DiskOK(D), NEW i, i \in Inum, IsDirOn(D, i),
           NEW name, name \in EntryNames, NEW inum, inum \in Inum,
           NEW W, W = Dirlink(D, i, name, inum), ~W.ok
    PROVE  W.disk.content[i] = D.content[i]
  <1>1. /\ DiskOK(W.disk) /\ Writes(D, W.disk, i)
        /\ ~W.ok => W.disk.content[i] = D.content[i]
        /\ W.ok => Takes(D, W.disk, i, [name |-> name, inum |-> inum])
    BY DirlinkDoes, SMTT(30)
  <1>2. QED  BY <1>1

\* In a directory that has its "." and "..", dirlink() gives inum a name.
LEMMA DirlinkPlaces ==
    ASSUME NEW D, DiskOK(D), NEW i, i \in Inum, IsDirOn(D, i), Complete(D, i),
           NEW name, name \in EntryNames, NEW inum, inum \in Inum,
           NEW W, W = Dirlink(D, i, name, inum), W.ok
    PROVE  \E k : Placed(D, W.disk, i, k, inum) /\ \A j \in Inum : ~Says(D, i, k, j)
  <1> DEFINE x == [name |-> name, inum |-> inum]
  <1>0. x \in Entry /\ x.inum = inum  BY InodeAssumption DEF Entry, Inum, InodeAssumption
  <1>1. PICK k : /\ k \in 1..(Len(D.content[i]) + 1)
                 /\ k \in 1..Len(D.content[i]) => D.content[i][k].inum = 0
                 /\ W.disk.content[i] = Written(D.content[i], k - 1, x)
    BY DirlinkDoes DEF Takes
  <1> HIDE DEF x
  <1>2. Writes(D, W.disk, i)  BY DirlinkDoes
  <1>3. D.content[i] \in Seq(Entry)  BY DEF DiskOK, IsDisk, IsContent, IsDirOn
  <1>4. PICK n : n = Len(D.content[i])  OBVIOUS
  <1>5. n \in Nat /\ n >= 2 /\ k \in Nat /\ k >= 1 /\ k <= n + 1
    BY <1>1, <1>3, <1>4 DEF Complete
  <1>6. 0 \notin Inum  BY InodeAssumption DEF Inum, InodeAssumption
  <1>7. k # 1 /\ k # 2
    <2>1. 1 \in 1..n /\ 2 \in 1..n  BY <1>5
    <2>2. D.content[i][1].inum # 0 /\ D.content[i][2].inum # 0  BY <1>6 DEF Complete
    <2>3. QED  BY <1>1, <1>4, <2>1, <2>2
  <1>8. PICK off : off = k - 1  OBVIOUS
  <1>9. off \in Nat /\ off >= 2 /\ off <= Len(D.content[i]) /\ k = off + 1
    BY <1>4, <1>5, <1>7, <1>8
  <1>10. W.disk.content[i] = Written(D.content[i], off, x)  BY <1>1, <1>8
  <1>11. Placed(D, W.disk, i, k, x.inum)  BY <1>0, <1>2, <1>9, <1>10, PlacedWrite
  <1>12. ASSUME NEW j \in Inum, Says(D, i, k, j) PROVE FALSE
    <2>1. k \in 3..Len(D.content[i]) /\ D.content[i][k].inum = j  BY <1>12 DEF Says
    <2>2. k \in 1..Len(D.content[i])  BY <1>4, <1>5, <2>1
    <2>3. QED  BY <1>1, <1>6, <2>1, <2>2
  <1>13. QED  BY <1>0, <1>11, <1>12

\* link() writes the name.
LEMMA NameLink2 == ASSUME NameInv, NEW p \in Proc, Link2(p) PROVE NameInv'
  <1> DEFINE s == cur[p]
  <1>1. PICK w : /\ w = Dirlink(Own(disk, s), Ino(s), Elem(rest[p]), Ino(ip[p]))
                 /\ disk' = w.disk /\ itable' = Load(itable, s, w.disk.inode[Ino(s)])
                 /\ w.ok => Return(p, <<Put(s), Put(ip[p])>>)
                 /\ ~w.ok => Failed(p, <<Put(s)>>)
    BY Zenon DEF Link2
  <1>2. /\ pc[p] = "link2" /\ todo[p] = <<>> /\ UNCHANGED <<holder, cwd, fd, putting>>
        /\ Free(s) /\ Loaded(s).type = "dir"
    BY DEF Link2, At, IsDir
  <1>3. /\ DiskInv /\ RefInv /\ ProcTypes /\ Place(p) /\ DiskOK(disk) /\ Knows(p) /\ Tree(disk)
        /\ putting[p] = "no"
    BY <1>2, NoTasks DEF NameInv, DiskInv, RefInv
  <1>4. s # 0 /\ ip[p] # 0 /\ Refers(p, s) /\ Refers(p, ip[p])  BY <1>2, <1>3 DEF Place, Refers
  <1>5. /\ Mine(p, s) /\ s \in Slot /\ Loaded(s) = disk.inode[Ino(s)] /\ Own(disk, s) = disk
        /\ Ino(s) \in Inum
    BY <1>2, <1>3, <1>4, MineIs
  <1>6. ip[p] \in Slot /\ Ino(ip[p]) \in Inum  BY <1>3, <1>4, PointsInum
  <1>7. Elem(rest[p]) \in EntryNames  BY <1>2, <1>3, LastElem
  <1>8. PICK d, t, name : d = Ino(s) /\ t = Ino(ip[p]) /\ name = Elem(rest[p])  OBVIOUS
  <1>9. /\ d \in Inum /\ t \in Inum /\ name \in EntryNames /\ IsDirOn(disk, d)
        /\ Complete(disk, d) /\ ~IsDirOn(disk, t) /\ t \in Alloc(disk)
    <2>1. IsDirOn(disk, d)  BY <1>2, <1>5, <1>8 DEF IsDirOn
    <2>2. Complete(disk, d)  BY <1>3, <1>4, <1>8, <2>1 DEF Knows, Enters
    <2>3. ~IsDirOn(disk, t) /\ disk.inode[t].type # "none"
      BY <1>2, <1>3, <1>4, <1>8 DEF Knows, OnDisk
    <2>4. QED  BY <1>5, <1>6, <1>7, <1>8, <2>1, <2>2, <2>3 DEF Alloc
  <1>10. w = Dirlink(disk, d, name, t)  BY <1>1, <1>5, <1>8
  <1>11. DiskOK(w.disk) /\ Writes(disk, w.disk, d) /\ (~w.ok => w.disk.content[d] = disk.content[d])
    <2>1. DiskOK(w.disk) /\ Writes(disk, w.disk, d)  BY ONLY <1>3, <1>9, <1>10, DirlinkDoes
    <2>2. ASSUME ~w.ok PROVE w.disk.content[d] = disk.content[d]
      BY ONLY <1>3, <1>9, <1>10, <2>2, DirlinkFails
    <2>3. QED  BY <2>1, <2>2
  <1>12. Rewrote(d) /\ \A j \in Inum : disk'.inode[j].nlink = disk.inode[j].nlink
    BY <1>1, <1>11 DEF Writes, Rewrote, SameInode
  <1>13. DiskInv' /\ DiskOK(disk')  BY <1>1, <1>3, <1>11, DiskLink2
  <1>14. Touches(p, s) /\ Nums  BY <1>1, <1>3, <1>4, <1>5, NumsLoad DEF Touches
  <1>15. Kept(p) /\ CwdOK(p) /\ FdOK(p) /\ putting'[p] # "free"
    BY <1>2, <1>3 DEF ProcTypes, Kept, CwdOK, FdOK
  <1>16. CASE ~w.ok
    <2>1. disk'.content[d] = disk.content[d]  BY <1>1, <1>11, <1>16
    <2>2. Changes(p) /\ Alloc(disk') = Alloc(disk)
      BY <1>8, <1>12, <1>14, <2>1, RewroteIs DEF Complete
    <2>3. SameDirs(disk, disk')  BY <1>12, <2>1, RewroteSame
    <2>4. PICK l : l = <<Put(s)>>  OBVIOUS
    <2>5. l \in Todos /\ OfHad(p, l)  BY <1>4, <1>5, <2>4, PutsOfLists, TasksHad
    <2>6. Failed(p, l)  BY <1>1, <1>16, <2>4 DEF Failed, Return, Then, Forget
    <2>7. UNCHANGED <<cwd, fd, putting>> /\ putting[p] # "free" /\ pc[p] \in {"parent", "link2"}
      BY <1>2, <1>3
    <2>8. Moves(p) /\ Knows(p)' /\ \A i : p \in Between(i)' => p \in Between(i)
      BY <1>13, <1>14, <2>2, <2>5, <2>6, <2>7, FailedKnows
    <2>9. QED  BY <1>12, <1>13, <2>2, <2>3, <2>8, SameStep
  <1>17. CASE w.ok
    <2>1. PICK k : Placed(disk, w.disk, d, k, t) /\ \A j \in Inum : ~Says(disk, d, k, j)
      BY ONLY <1>3, <1>9, <1>10, <1>17, DirlinkPlaces
    <2>2. Placed(disk, disk', d, k, t)  BY <1>1, <2>1
    <2>3. Complete(disk', d)  BY <1>3, <1>9, <1>13, <2>2, PlacedIs
    <2>4. Changes(p) /\ Alloc(disk') = Alloc(disk)  BY <1>8, <1>12, <1>14, <2>3, RewroteIs
    <2>5. PICK l : l = <<Put(s), Put(ip[p])>>  OBVIOUS
    <2>6. l \in Todos /\ OfHad(p, l)  BY <1>4, <1>5, <1>6, <2>5, PutsOfLists, TasksHad
    <2>7. Return(p, l)  BY <1>1, <1>17, <2>5 DEF Return, Then, Forget
    <2>8. Moves(p) /\ Knows(p)' /\ \A j : p \notin Between(j)'
      BY <1>13, <1>14, <1>15, <2>4, <2>6, <2>7, ReturnKnows
    <2>9. /\ Tree(disk')
          /\ \A a, m, i : Link(disk', a, m, i) => Link(disk, a, m, i) \/ (i = t /\ a = d /\ m = k)
      <3>1. PICK D, E : D = disk /\ E = disk'  OBVIOUS
      <3>2. /\ DiskOK(D) /\ DiskOK(E) /\ Tree(D) /\ d \in Inum /\ IsDirOn(D, d) /\ Complete(D, d)
            /\ t \in Inum /\ Placed(D, E, d, k, t) /\ (\A j \in Inum : ~Says(D, d, k, j))
            /\ ~IsDirOn(D, t)
        BY <1>3, <1>9, <1>13, <2>1, <2>2, <3>1
      <3>3. Tree(E) /\ \A a, m, i : Link(E, a, m, i) => \/ Link(D, a, m, i)
                                                        \/ i = t /\ a = d /\ m = k
                                                        \/ i = d /\ IsDirOn(D, t) /\ a = t /\ m = 2
        BY ONLY <3>2, AddLinks
      <3>4. QED  BY <3>1, <3>2, <3>3
    <2>10. ASSUME NEW i, i \in Inum PROVE Covers(disk', i, Cardinality(Between(i)'))
      <3>1. CASE i # t
        <4>1. \A a, m : Link(disk', a, m, i) => Link(disk, a, m, i)  BY <2>9, <3>1
        <4>2. PICK x : x = <<d, k>>  OBVIOUS
        <4>3. Linked(disk', i) \subseteq Linked(disk, i)  BY <1>3, <1>13, <4>1, <4>2, LinkedSub
        <4>4. QED  BY <1>12, <1>13, <2>4, <2>8, <2>10, <4>3, CoversKept
      <3>2. CASE i = t
        <4>1. PICK x, m, n : x = <<d, k>> /\ m = -1 /\ n = 0  OBVIOUS
        <4>2. Linked(disk', t) \subseteq Linked(disk, t) \cup {x}
          <5>1. \A a, b : Link(disk', a, b, t) => Link(disk, a, b, t) \/ (a = d /\ b = k)
            BY <2>9
          <5>2. QED  BY <1>3, <1>13, <4>1, <5>1, LinkedSub
        <4>3. p \in Between(t) /\ p \notin Between(t)'  BY <1>2, <1>4, <1>8, <2>8 DEF Between
        <4>4. /\ Cardinality(Between(t)) \in Nat /\ Cardinality(Between(t)') \in Nat
              /\ Cardinality(Between(t)') <= Cardinality(Between(t)) - 1
          BY <1>9, <1>13, <2>8, <4>3, BetweenStep
        <4>5. disk.inode[t].nlink \in Int  BY <1>3, <1>9, NlinkInt
        <4>6. /\ Cardinality(Between(t)') <= Cardinality(Between(t)) + m /\ m \in Int /\ n \in Int
              /\ disk'.inode[t].nlink = disk.inode[t].nlink + n /\ 1 + m <= n
          BY <1>9, <1>12, <4>1, <4>4, <4>5
        <4>7. t \in Alloc(disk) /\ t \in Alloc(disk')  BY <1>9, <2>4
        <4>8. Covers(disk', t, Cardinality(Between(t)'))
          BY <1>13, <2>8, <4>2, <4>6, <4>7, CoversNext
        <4>9. QED  BY <3>2, <4>8
      <3>3. QED  BY <3>1, <3>2
    <2>11. QED  BY <1>13, <2>4, <2>8, <2>9, <2>10, NameStep
  <1>18. QED  BY <1>16, <1>17

\* Two entries of itable are loaded.
LEMMA NumsLoadTwice ==
    ASSUME RefInv, NEW s \in Slot, NEW d \in Slot, NEW n, NEW m,
           itable' = Load(Load(itable, s, n), d, m)
    PROVE  Nums
  <1>1. IsTable(itable)  BY DEF RefInv
  <1>2. PICK T : T = Load(itable, s, n)  OBVIOUS
  <1>3. IsTable(T) /\ \A t \in Slot : T[t].inum = itable[t].inum  BY <1>1, <1>2, LoadIs
  <1>4. itable' = Load(T, d, m)  BY <1>2
  <1>5. \A t \in Slot : itable'[t].inum = T[t].inum  BY <1>3, <1>4, LoadIs
  <1>6. QED  BY <1>3, <1>5 DEF Nums

\* A step to "unlink3" or "created", with the lock of ip.
LEMMA KnowsSwap ==
    ASSUME NameInv, DiskInv', NEW p \in Proc, NEW s, s = ip[p], s # 0, NEW d, d = cur[p],
           NEW l, l \in {"unlink3", "created"}, Then(p, l, <<Put(d)>>),
           cur' = [cur EXCEPT ![p] = 0], UNCHANGED <<call, rest, ip, cwd, fd, putting>>,
           putting[p] = "no", Nums, Changes(p)
    PROVE  /\ Moves(p) /\ Knows(p)' /\ pc'[p] = l /\ ip'[p] = s /\ itable'[s].inum = Ino(s)
  <1>1. RefInv /\ ProcTypes /\ Knows(p)  BY DEF NameInv, DiskInv, RefInv
  <1>2. /\ Only(p) /\ pc'[p] = l /\ todo'[p] = <<Put(d)>> /\ ip'[p] = s /\ cur'[p] = 0
        /\ rest'[p] = rest[p] /\ putting'[p] = "no"
    BY <1>1 DEF ProcTypes, Then, Only
  <1>3. Had(p, cur'[p]) /\ Had(p, ip'[p]) /\ Had(p, cwd'[p]) /\ Had(p, fd'[p])
    BY <1>2 DEF Had, Refers
  <1>4. OfHad(p, todo'[p])
    <2>1. Refers(p, d)  BY DEF Refers
    <2>2. QED  BY <1>2, <2>1, TasksHad
  <1>5. Moves(p)  BY <1>1, <1>2, <1>3, <1>4, MovesIs
  <1>6. Refers(p, s) /\ Refers(p, s)'  BY <1>2 DEF Refers
  <1>7. Stays(s)  BY <1>5, <1>6, SelfStays
  <1>8. Rests(p)' /\ CwdOK(p) /\ FdOK(p)  BY <1>1, <1>2 DEF Rests, CwdOK, FdOK, Knows
  <1>9. (ip[p] # 0 => OnDisk(ip[p]))'  BY <1>2, <1>7 DEF Stays, OnDisk, Ino
  <1>10. /\ pc'[p] \notin {"link2", "unlink1", "create1"}
         /\ pc'[p] \notin {"link", "parent", "link2", "linkbad"}
         /\ pc'[p] \notin {"unlink2", "create2"}
    BY <1>2
  <1>11. Knows(p)'  BY <1>2, <1>5, <1>8, <1>9, <1>10, KnowsSelf
  <1>12. QED  BY <1>2, <1>5, <1>7, <1>11 DEF Stays

\* unlink() erases the name, if it may.
LEMMA NameUnlink2 == ASSUME NameInv, NEW p \in Proc, Unlink2(p) PROVE NameInv'
  <1> DEFINE s == ip[p]
             d == cur[p]
             k == Dirlookup(disk, Ino(d), Elem(rest[p]))
             x == [name |-> "", inum |-> 0]
             w == Writei(Own(disk, d), Ino(d), k - 1, x)
             D == IF Loaded(s).type = "dir" THEN NlinkLess(w.disk, Ino(d)) ELSE w.disk
             may == MayUnlink(s)
  <1>1. /\ pc[p] = "unlink2" /\ todo[p] = <<>> /\ UNCHANGED <<cwd, fd, putting>>
        /\ Free(s) /\ Loaded(s).type # "none"
        /\ may => /\ holder' = [holder EXCEPT ![s] = p, ![d] = None]
                  /\ cur' = [cur EXCEPT ![p] = 0] /\ Then(p, "unlink3", <<Put(d)>>)
                  /\ UNCHANGED <<call, rest, ip>>
        /\ ~may => /\ itable' = Load(itable, s, Loaded(s)) /\ UNCHANGED <<disk, holder>>
                   /\ Return(p, <<Put(s), Unlock(d), Put(d)>>)
    BY DEF Unlink2, At, Forget, Ilock
  <1>2. may => /\ w.ok /\ disk' = D
               /\ itable' = Load(Load(itable, s, Loaded(s)), d, D.inode[Ino(d)])
    BY Zenon DEF Unlink2
  <1> HIDE DEF may, x
  <1>3. /\ DiskInv /\ RefInv /\ ProcTypes /\ Stage(p) /\ DiskOK(disk) /\ Knows(p) /\ Tree(disk)
        /\ Place(p) /\ putting[p] = "no"
    BY <1>1, NoTasks DEF NameInv, DiskInv, RefInv
  <1>4. /\ s \in Slot /\ d \in Slot /\ s # d /\ Mine(p, s) /\ Mine(p, d)
        /\ Ino(s) \in Inum /\ Ino(d) \in Inum /\ Ino(s) # Ino(d)
        /\ Loaded(s) = disk.inode[Ino(s)] /\ Own(disk, d) = disk
        /\ disk.inode[Ino(d)].type = "dir"
    BY <1>1, <1>3, BothAre
  <1>5. DiskInv'  BY <1>3, DiskUnlink2
  <1>6. s # 0 /\ d # 0 /\ Refers(p, s) /\ Refers(p, d)  BY <1>1, <1>3 DEF Place, Refers
  <1>7. CASE ~may
    <2>1. PICK l : l = <<Put(s), Unlock(d), Put(d)>>  OBVIOUS
    <2>2. l \in Todos /\ OfHad(p, l)  BY <1>4, <1>6, <2>1, PutsOfLists, TasksHad
    <2>3. Return(p, l)  BY <1>1, <1>7, <2>1 DEF Return, Then, Forget
    <2>4. Nums /\ FdOK(p)  BY <1>1, <1>3, <1>4, <1>7, NumsLoad DEF FdOK
    <2>5. disk' = disk /\ UNCHANGED <<cwd, putting>> /\ (\A q \in Proc : q # p => fd'[q] = fd[q])
      BY <1>1, <1>7
    <2>6. QED  BY <1>3, <1>5, <2>2, <2>3, <2>4, <2>5, QuietReturn
  <1>8. CASE may
    <2>1. PICK off, g, t, dir, V : /\ off = k - 1 /\ g = Ino(d) /\ t = Ino(s)
                                   /\ dir = (Loaded(s).type = "dir") /\ V = w.disk
      OBVIOUS
    <2>2. /\ g \in Inum /\ t \in Inum /\ g # t /\ IsDirOn(disk, g) /\ Complete(disk, g)
          /\ (dir <=> IsDirOn(disk, t)) /\ t \in Alloc(disk)
      <3>1. IsDirOn(disk, g)  BY <1>4, <2>1 DEF IsDirOn
      <3>2. Complete(disk, g)  BY <1>3, <1>6, <2>1, <3>1 DEF Knows, Enters
      <3>3. QED  BY <1>1, <1>4, <2>1, <3>1, <3>2 DEF IsDirOn, Alloc
    <2>3. Says(disk, g, k, t) /\ k \in Nat /\ k >= 3
      <3>1. PICK name, m : name = Elem(rest[p]) /\ m = k  OBVIOUS
      <3>2. m = Dirlookup(disk, g, name) /\ m # 0 /\ name # ".." /\ name # "."
            /\ disk.content[g][m].inum = t
        BY <1>1, <1>3, <2>1, <3>1 DEF Stage, Knows
      <3>3. m >= 3 /\ Says(disk, g, m, disk.content[g][m].inum)
        BY ONLY <1>3, <2>2, <3>2, LookupIs
      <3>4. m \in Nat
        <4>1. IsDisk(disk) /\ disk.inode[g].type = "dir"  BY <1>3, <2>2 DEF DiskOK, IsDirOn
        <4>2. QED  BY <2>2, <3>2, <4>1, DirlookupIs
      <3>5. QED  BY <3>1, <3>2, <3>3, <3>4
    <2> HIDE DEF k
    <2>4. off \in Nat /\ off >= 2 /\ k = off + 1  BY <2>1, <2>3
    <2>5. w = Writei(disk, g, off, x)  BY <1>4, <2>1
    <2>6. x \in Entry /\ x.inum = 0
      <3>1. 0 \in 0..(ninodes - 1)
        BY FsAssumption, InodeAssumption DEF FsAssumption, InodeAssumption
      <3>2. PICK e : e = ""  OBVIOUS
      <3>3. e \in EntryNames  BY <3>2 DEF EntryNames
      <3>4. x = [name |-> e, inum |-> 0]  BY <3>2 DEF x
      <3>5. QED  BY <3>1, <3>3, <3>4 DEF Entry
    <2>7. IsUnit(disk.inode[g].type, x) /\ g \in Alloc(disk)
      BY <2>2, <2>6 DEF IsUnit, IsDirOn, Alloc
    <2>8. w.ok  BY <1>2, <1>8, Zenon
    <2> HIDE DEF w
    <2>9. DiskOK(V) /\ Writes(disk, V, g)
      <3>1. DiskOK(w.disk) /\ Writes(disk, w.disk, g)
        BY ONLY <1>3, <2>4, <2>5, <2>7, WriteiIs
      <3>2. QED  BY <2>1, <3>1
    <2>10. off <= Len(disk.content[g]) /\ V.content[g] = Written(disk.content[g], off, x)
      <3>1. w.ok => /\ off <= Len(disk.content[g])
                    /\ w.disk.content[g] = Written(disk.content[g], off, x)
        BY ONLY <1>3, <2>4, <2>5, <2>7, WriteiIs, SMTT(30)
      <3>2. QED  BY <2>1, <2>8, <3>1
    <2>11. Placed(disk, V, g, k, 0)
      <3>1. PICK y, c : y = x /\ c = x.inum  OBVIOUS
      <3>2. y \in Entry /\ c = y.inum /\ V.content[g] = Written(disk.content[g], off, y)
        BY <2>6, <2>10, <3>1
      <3>3. off <= Len(disk.content[g])  BY <2>10
      <3>4. Placed(disk, V, g, k, y.inum)
        BY ONLY <1>3, <2>2, <2>4, <2>9, <3>2, <3>3, PlacedWrite
      <3>5. QED  BY <2>6, <3>1, <3>4
    <2>12. /\ disk'.content = V.content
           /\ \A j \in Inum : disk'.inode[j].type = V.inode[j].type
           /\ \A j \in Inum : j # g => disk'.inode[j].nlink = V.inode[j].nlink
           /\ dir => disk'.inode[g].nlink = V.inode[g].nlink - 1
           /\ ~dir => disk'.inode[g].nlink = V.inode[g].nlink
      <3>1. disk' = D  BY <1>2, <1>8
      <3>2. CASE ~dir
        <4>1. D = V  BY <2>1, <3>2
        <4>2. QED  BY <3>1, <3>2, <4>1
      <3>3. CASE dir
        <4>1. D = NlinkLess(V, g)  BY <2>1, <3>3
        <4>2. PICK e : e = 0  OBVIOUS
        <4>3. e \in Int  BY <4>2
        <4>4. /\ NlinkLess(V, g).content = V.content
              /\ NlinkLess(V, g).inode[g].nlink = V.inode[g].nlink - 1
              /\ NlinkLess(V, g).inode[g].type = V.inode[g].type
              /\ \A j \in Inum : j # g => NlinkLess(V, g).inode[j] = V.inode[j]
          BY ONLY <2>2, <2>9, <4>3, NlinkIs
        <4>5. QED  BY <3>1, <3>3, <4>1, <4>4
      <3>4. QED  BY <3>2, <3>3
    <2>13. itable' = Load(Load(itable, s, Loaded(s)), d, D.inode[Ino(d)])  BY <1>2, <1>8
    <2> HIDE DEF D
    <2>14. Placed(disk, disk', g, k, 0)  BY <2>11, <2>12 DEF Placed
    <2>15. Rewrote(g) /\ DiskOK(disk')
      BY <1>5, <2>9, <2>12 DEF Rewrote, SameInode, Writes, DiskInv
    <2>16. Complete(disk', g)  BY <1>3, <2>2, <2>14, <2>15, PlacedIs
    <2>17. Touches(p, d)  BY <1>4, <1>6 DEF Touches
    <2>18. Changes(p) /\ Alloc(disk') = Alloc(disk)  BY <2>1, <2>15, <2>16, <2>17, RewroteIs
    <2>19. Nums  BY <1>3, <1>4, <2>13, NumsLoadTwice
    <2>20. Moves(p) /\ Knows(p)' /\ pc'[p] = "unlink3" /\ ip'[p] = s /\ itable'[s].inum = t
      <3>1. PICK a, b, l : a = ip[p] /\ b = cur[p] /\ l = "unlink3"  OBVIOUS
      <3>2. /\ a # 0 /\ l \in {"unlink3", "created"} /\ Then(p, l, <<Put(b)>>)
            /\ cur' = [cur EXCEPT ![p] = 0] /\ UNCHANGED <<call, rest, ip, cwd, fd, putting>>
        BY <1>1, <1>6, <1>8, <3>1 DEF Then
      <3>3. Moves(p) /\ Knows(p)' /\ pc'[p] = l /\ ip'[p] = a /\ itable'[a].inum = Ino(a)
        BY <1>3, <1>5, <2>18, <2>19, <3>1, <3>2, KnowsSwap
      <3>4. QED  BY <2>1, <3>1, <3>3
    <2>21. /\ Tree(disk')
           /\ \A a, m, i : Link(disk', a, m, i) /\ i \in Inum =>
                 /\ Link(disk, a, m, i) /\ ~(a = g /\ m = k)
                 /\ dir => ~(a = t /\ m = 2)
           /\ Link(disk, g, k, t)
           /\ dir => Link(disk, t, 2, g)
      BY <1>3, <2>2, <2>3, <2>14, <2>15, DropLinks
    <2>22. \A j \in Inum : j # t => p \notin Between(j)'
      BY <2>20 DEF Between, Ino
    <2>23. \A j \in Inum : j # g => disk'.inode[j].nlink = disk.inode[j].nlink
      BY <2>9, <2>12 DEF Writes
    <2>24. disk.inode[g].nlink \in Int /\ disk.inode[t].nlink \in Int  BY <1>3, <2>2, NlinkInt
    <2>25. Covers(disk', t, Cardinality(Between(t)'))
      <3>1. PICK y, m, n : y = <<g, k>> /\ m = 1 /\ n = 0  OBVIOUS
      <3>2. Linked(disk', t) \subseteq Linked(disk, t) \ {y} /\ y \in Linked(disk, t)
        <4>1. \A a, b : Link(disk', a, b, t) => Link(disk, a, b, t) /\ ~(a = g /\ b = k)
          BY <2>2, <2>21
        <4>2. Linked(disk', t) \subseteq Linked(disk, t) \ {y}
          BY <1>3, <2>15, <3>1, <4>1, LinkedSub
        <4>3. y \in Linked(disk, t)  BY <1>3, <2>15, <2>21, <3>1, LinkedSub
        <4>4. QED  BY <4>2, <4>3
      <3>3. Cardinality(Between(t)') <= Cardinality(Between(t)) + 1
        BY <1>5, <2>2, <2>20, BetweenStep
      <3>4. /\ Cardinality(Between(t)') <= Cardinality(Between(t)) + m /\ m \in Int /\ n \in Int
            /\ disk'.inode[t].nlink = disk.inode[t].nlink + n /\ m - 1 <= n
        BY <2>2, <2>23, <2>24, <3>1, <3>3
      <3>5. t \in Alloc(disk) /\ t \in Alloc(disk')  BY <2>2, <2>18
      <3>6. QED  BY <1>5, <2>20, <3>2, <3>4, <3>5, CoversNext
    <2>26. ASSUME NEW i, i \in Inum, i # t PROVE Linked(disk', i) \subseteq Linked(disk, i)
      <3>1. \A a, b : Link(disk', a, b, i) => Link(disk, a, b, i)  BY <2>21, <2>26
      <3>2. PICK y : y = <<g, k>>  OBVIOUS
      <3>3. QED  BY <1>3, <2>15, <3>1, <3>2, LinkedSub
    <2>27. ASSUME dir PROVE Covers(disk', g, Cardinality(Between(g)'))
      <3>1. PICK y, m, n, e : y = <<t, e>> /\ m = 0 /\ n = -1 /\ e = 2  OBVIOUS
      <3>2. Linked(disk', g) \subseteq Linked(disk, g) \ {y} /\ y \in Linked(disk, g)
        <4>1. \A a, b : Link(disk', a, b, g) => Link(disk, a, b, g) /\ ~(a = t /\ b = e)
          BY <2>2, <2>21, <2>27, <3>1
        <4>2. Link(disk, t, e, g)  BY <2>21, <2>27, <3>1
        <4>3. Linked(disk', g) \subseteq Linked(disk, g) \ {y}
          BY <1>3, <2>15, <3>1, <4>1, LinkedSub
        <4>4. y \in Linked(disk, g)  BY <1>3, <2>15, <3>1, <4>2, LinkedSub
        <4>5. QED  BY <4>3, <4>4
      <3>3. /\ Cardinality(Between(g)) \in Nat /\ Cardinality(Between(g)') \in Nat
            /\ Cardinality(Between(g)') <= Cardinality(Between(g))
        BY <1>5, <2>2, <2>20, <2>22, BetweenStep
      <3>4. /\ Cardinality(Between(g)') <= Cardinality(Between(g)) + m /\ m \in Int /\ n \in Int
            /\ m - 1 <= n
        BY <3>1, <3>3
      <3>5. disk'.inode[g].nlink = disk.inode[g].nlink + n
        BY <2>2, <2>9, <2>12, <2>24, <2>27, <3>1 DEF Writes
      <3>6. g \in Alloc(disk) /\ g \in Alloc(disk')  BY <2>7, <2>18
      <3>7. QED  BY <1>5, <2>20, <3>2, <3>4, <3>5, <3>6, CoversNext
    <2>28. ASSUME NEW i, i \in Inum PROVE Covers(disk', i, Cardinality(Between(i)'))
      <3>1. CASE i = t  BY <2>25, <3>1
      <3>2. CASE i = g /\ dir  BY <2>27, <3>2
      <3>3. CASE i # t /\ ~(i = g /\ dir)
        <4>1. disk'.inode[i].nlink = disk.inode[i].nlink
          BY <2>9, <2>12, <2>23, <2>28, <3>3 DEF Writes
        <4>2. Linked(disk', i) \subseteq Linked(disk, i) /\ p \notin Between(i)'
          BY <2>22, <2>26, <2>28, <3>3
        <4>3. QED  BY <1>5, <2>18, <2>20, <2>28, <4>1, <4>2, CoversKept
      <3>4. QED  BY <3>1, <3>2, <3>3
    <2>29. QED  BY <1>5, <2>18, <2>20, <2>21, <2>28, NameStep
  <1>9. QED  BY <1>7, <1>8

-----------------------------------------------------------------------------
(* create()                                                                 *)

\* What t has in it is no name.
Bare(D, t) == IsDirOn(D, t) => Len(D.content[t]) <= 2

\* An inode that has no name changes, and says nothing before or after.
LEMMA Unnamed ==
    ASSUME NEW D, DiskOK(D), NEW E, DiskOK(E), Tree(D), NEW t, t \in Inum, Bare(D, t), Bare(E, t),
           ~HasName(D, t),
           \A j \in Inum : j # t => /\ E.inode[j].type = D.inode[j].type
                                    /\ E.content[j] = D.content[j]
    PROVE  /\ Tree(E)
           /\ \A a, m, i : Says(E, a, m, i) => Says(D, a, m, i)
           /\ \A i : HasName(E, i) => HasName(D, i)
           /\ \A a, m, i : Link(E, a, m, i) => Link(D, a, m, i)
  <1>1. ASSUME NEW F, DiskOK(F), Bare(F, t), NEW m, NEW i PROVE ~Says(F, t, m, i)
    <2>1. SUFFICES ASSUME Says(F, t, m, i) PROVE FALSE  OBVIOUS
    <2>2. IsDirOn(F, t) /\ m \in 3..Len(F.content[t])  BY <2>1 DEF Says
    <2>3. F.content[t] \in Seq(Entry)  BY <1>1, <2>2 DEF DiskOK, IsDisk, IsContent, IsDirOn
    <2>4. Len(F.content[t]) \in Nat /\ Len(F.content[t]) <= 2  BY <1>1, <2>2, <2>3 DEF Bare
    <2>5. QED  BY <2>2, <2>4
  <1>2. \A a \in Inum : a # t => /\ IsDirOn(E, a) <=> IsDirOn(D, a)
                                 /\ E.content[a] = D.content[a]
    BY DEF IsDirOn
  <1>3. ASSUME NEW a, NEW m, NEW i PROVE Says(E, a, m, i) <=> Says(D, a, m, i)
    <2>1. CASE a = t  BY <1>1, <2>1
    <2>2. CASE a # t  BY <1>2, <2>2 DEF Says
    <2>3. QED  BY <2>1, <2>2
  <1>4. ASSUME NEW i PROVE HasName(E, i) <=> HasName(D, i)  BY <1>3 DEF HasName
  <1>5. /\ IsDirOn(D, ROOTINO) /\ D.content[ROOTINO][2].inum = ROOTINO /\ ROOTINO \in Inum
        /\ \A a \in Inum : IsDirOn(D, a) => /\ HasName(D, a) => Complete(D, a)
                                            /\ ~Complete(D, a) => Len(D.content[a]) <= 2
    BY InodeAssumption, FsAssumption DEF Tree, ROOTINO, Inum, InodeAssumption, FsAssumption
  <1>6. \A a, m, i : Says(D, a, m, i) /\ i \in Inum /\ IsDirOn(D, i) =>
           /\ i # ROOTINO /\ D.content[i][2].inum = a
           /\ \A e, l : Says(D, e, l, i) => e = a /\ l = m
    BY DEF Tree
  <1>7. t # ROOTINO  BY DEF HasName
  <1>8. IsDirOn(E, ROOTINO) /\ E.content[ROOTINO][2].inum = ROOTINO  BY <1>2, <1>5, <1>7
  <1>9. ASSUME NEW a \in Inum, IsDirOn(E, a)
        PROVE  /\ HasName(E, a) => Complete(E, a)
               /\ ~Complete(E, a) => Len(E.content[a]) <= 2
    <2>1. CASE a = t  BY <1>4, <1>9, <2>1 DEF Bare
    <2>2. CASE a # t
      <3>1. IsDirOn(D, a) /\ E.content[a] = D.content[a]  BY <1>2, <1>9, <2>2
      <3>2. QED  BY <1>4, <1>5, <3>1 DEF Complete
    <2>3. QED  BY <2>1, <2>2
  <1>10. ASSUME NEW a, NEW m, NEW i, Says(E, a, m, i), i \in Inum, IsDirOn(E, i)
         PROVE  /\ i # ROOTINO /\ E.content[i][2].inum = a
                /\ \A e, l : Says(E, e, l, i) => e = a /\ l = m
    <2>1. Says(D, a, m, i)  BY <1>3, <1>10
    <2>2. i # t  BY <2>1 DEF HasName
    <2>3. IsDirOn(D, i) /\ E.content[i] = D.content[i]  BY <1>2, <1>10, <2>2
    <2>4. QED  BY <1>3, <1>6, <1>10, <2>1, <2>3
  <1>11. Tree(E)  BY <1>8, <1>9, <1>10 DEF Tree
  <1>12. ASSUME NEW a, NEW m, NEW i, Link(E, a, m, i) PROVE Link(D, a, m, i)
    <2>1. CASE Says(E, a, m, i)  BY <1>3, <2>1 DEF Link
    <2>2. CASE m = 2 /\ Up(E, a, i)
      <3>1. a \in Inum /\ a # t /\ HasName(D, a)  BY <1>4, <2>2 DEF Up
      <3>2. Up(D, a, i)  BY <1>2, <2>2, <3>1 DEF Up
      <3>3. QED  BY <2>2, <3>2 DEF Link
    <2>3. QED  BY <1>12, <2>1, <2>2 DEF Link
  <1>13. QED  BY <1>3, <1>4, <1>11, <1>12

\* An inode without links has no name.
LEMMA NoName ==
    ASSUME NameInv, NEW i, i \in Inum, disk.inode[i].type = "none" \/ disk.inode[i].nlink = 0
    PROVE  ~HasName(disk, i)
  <1>1. i # ROOTINO  BY RootOn
  <1>2. ASSUME NEW a, NEW m, Says(disk, a, m, i) PROVE FALSE
    <2>1. disk.inode[i].type # "none" /\ disk.inode[i].nlink >= 1  BY <1>2, NamedIs
    <2>2. DiskOK(disk)  BY DEF NameInv, DiskInv
    <2>3. QED  BY <2>1
  <1>3. QED  BY <1>1, <1>2 DEF HasName

\* The slot of a new inode is nobody's.
LEMMA NewAlone ==
    ASSUME NameInv, DiskInv', NEW p \in Proc, Only(p), Nums, NEW r, r \in Slot, ip'[p] = r,
           cur'[p] = cur[p], UNCHANGED <<cwd, fd>>, disk.inode[itable'[r].inum].type = "none"
    PROVE  Alone(p, r)'
  <1>1. RefInv /\ RefInv'  BY DEF NameInv, DiskInv
  <1>2. itable'[r].ref > 0
    <2>1. Points(p, r)'  BY DEF Points
    <2>2. QED  BY <1>1, <2>1, CountedNext
  <1>3. ASSUME NEW q \in Proc, r \in {cur[q], cwd[q], fd[q], ip[q]} PROVE FALSE
    <2>1. r # 0 /\ Knows(q)  BY <1>1, PlaceFacts DEF NameInv
    <2>2. OnDisk(r)  BY <1>3, <2>1 DEF Knows
    <2>3. Points(q, r)  BY <1>3 DEF Points
    <2>4. itable[r].ref > 0  BY <1>1, <2>3, CountedAll
    <2>5. itable'[r].inum = Ino(r)  BY <1>2, <2>4 DEF Nums, Ino
    <2>6. QED  BY <2>2, <2>5 DEF OnDisk
  <1>4. ASSUME NEW q \in Proc PROVE r \notin {cur'[q], cwd'[q], fd'[q]} /\ (q # p => ip'[q] # r)
    <2>1. cur'[q] = cur[q] /\ cwd'[q] = cwd[q] /\ fd'[q] = fd[q] /\ (q # p => ip'[q] = ip[q])
      BY DEF Only
    <2>2. QED  BY <1>3, <2>1
  <1>5. QED  BY <1>4 DEF Alone

\* create() finds the name, or allocates an inode.
LEMMA NameCreate1 == ASSUME NameInv, NEW p \in Proc, Create1(p) PROVE NameInv'
  <1> DEFINE s == cur[p]
             k == Dirlookup(disk, Ino(s), Elem(rest[p]))
             i == IF k = 0 THEN Least(FreeInums(disk)) ELSE disk.content[Ino(s)][k].inum
             T == Load(itable, s, Loaded(s))
             full == k = 0 /\ FreeInums(disk) = {}
  <1>1. /\ pc[p] = "create1" /\ todo[p] = <<>> /\ UNCHANGED <<cwd, fd, putting>>
        /\ Free(s) /\ Loaded(s).type = "dir"
        /\ full => itable' = T /\ Return(p, <<Put(s)>>) /\ holder' = holder /\ disk' = disk
        /\ ~full => /\ ~NoSlot(i) /\ itable' = Iget(T, i) /\ ip' = [ip EXCEPT ![p] = IgetSlot(i)]
                    /\ UNCHANGED <<call, rest>>
                    /\ k # 0 => /\ cur' = [cur EXCEPT ![p] = 0] /\ Then(p, "exists", <<Put(s)>>)
                                /\ holder' = holder /\ disk' = disk
                    /\ k = 0 => /\ holder' = [holder EXCEPT ![s] = p]
                                /\ Then(p, "create2", <<>>) /\ cur' = cur
                                /\ disk' = Ialloc(disk, i, Type(p))
    BY DEF Create1, At, Forget, IsDir
  <1>2. /\ DiskInv /\ RefInv /\ ProcTypes /\ Place(p) /\ Made(p) /\ DiskOK(disk) /\ Knows(p)
        /\ Tree(disk) /\ putting[p] = "no"
    BY <1>1, NoTasks DEF NameInv, DiskInv, RefInv
  <1>3. s # 0 /\ Refers(p, s) /\ ip[p] = 0 /\ call[p].op \in Makes
    BY <1>1, <1>2 DEF Place, Made, Refers
  <1>4. Mine(p, s) /\ s \in Slot /\ Loaded(s) = disk.inode[Ino(s)] /\ Ino(s) \in Inum
    BY <1>1, <1>2, <1>3, MineIs
  <1>5. ~full /\ k = 0 => i \in Inum /\ disk.inode[i].type = "none"
    <2> SUFFICES ASSUME ~full, k = 0 PROVE i \in FreeInums(disk)  BY DEF FreeInums
    <2>1. FreeInums(disk) \subseteq Nat
      BY InodeAssumption DEF FreeInums, Inum, InodeAssumption
    <2>2. QED  BY <2>1, LeastIs
  <1>6. k # 0 => i = disk.content[Ino(s)][k].inum  OBVIOUS
  <1> HIDE DEF i, full
  <1>7. DiskInv' /\ DiskOK(disk') /\ RefInv'  BY <1>2, DiskCreate1 DEF DiskInv
  <1>8. OnDisk(s) /\ IsDirOn(disk, Ino(s)) /\ Complete(disk, Ino(s))
    BY <1>1, <1>2, <1>3, <1>4 DEF Knows, Enters, IsDirOn
  <1>9. CASE full
    <2>1. PICK t : t = <<Put(s)>>  OBVIOUS
    <2>2. t \in Todos /\ OfHad(p, t)  BY <1>3, <1>4, <2>1, PutsOfLists, TasksHad
    <2>3. Return(p, t)  BY <1>1, <1>9, <2>1 DEF Return, Then, Forget
    <2>4. Nums /\ FdOK(p)  BY <1>1, <1>2, <1>4, <1>9, NumsLoad DEF FdOK
    <2>5. QED  BY <1>1, <1>2, <1>7, <1>9, <2>2, <2>3, <2>4, QuietReturn
  <1>10. CASE ~full /\ k # 0
    <2>1. Elem(rest[p]) # ".."
      <3>1. rest[p] \in Seq(STRING) /\ Len(rest[p]) = 1  BY <1>1, <1>2 DEF ProcTypes, Made
      <3>2. 1 \in DOMAIN rest[p] /\ Elem(rest[p]) = rest[p][1]  BY <3>1 DEF Elem
      <3>3. QED  BY <1>2, <3>2 DEF Knows, Rests
    <2>2. PICK r : r = IgetSlot(i)  OBVIOUS
    <2>3. Nums /\ r \in Slot /\ itable'[r].inum = i /\ Had(p, r) /\ disk.inode[i].type # "none"
      <3>1. PICK u, a, x, y, m : /\ u = s /\ a = k /\ x = i /\ y = Loaded(s)
                                 /\ m = Elem(rest[p])
        OBVIOUS
      <3>2. a = Dirlookup(disk, Ino(u), m) /\ x = disk.content[Ino(u)][a].inum
        BY <1>6, <1>10, <3>1
      <3>3. /\ NameInv /\ p \in Proc /\ u \in Slot /\ Refers(p, u) /\ OnDisk(u)
            /\ IsDirOn(disk, Ino(u)) /\ Complete(disk, Ino(u)) /\ m # ".." /\ a # 0
            /\ ~NoSlot(x) /\ itable' = Iget(Load(itable, u, y), x)
        BY <1>1, <1>3, <1>4, <1>8, <1>10, <2>1, <3>1
      <3>4. Gets(p, x)  BY ONLY <3>2, <3>3, GetsNamed
      <3>5. Gets(p, i)  BY <3>1, <3>4
      <3>6. QED  BY <2>2, <3>5 DEF Gets
    <2> HIDE DEF k
    <2>4. /\ Only(p) /\ pc'[p] = "exists" /\ todo'[p] = <<Put(s)>> /\ cur'[p] = 0
          /\ rest'[p] = rest[p] /\ ip'[p] = r /\ cwd'[p] = cwd[p] /\ fd'[p] = fd[p]
          /\ putting'[p] = "no" /\ disk' = disk
      BY <1>1, <1>2, <1>10, <2>2 DEF ProcTypes, Then, Only
    <2>5. Had(p, cur'[p]) /\ Had(p, ip'[p]) /\ Had(p, cwd'[p]) /\ Had(p, fd'[p])
      <3>1. Had(p, 0) /\ Had(p, cwd[p]) /\ Had(p, fd[p])  BY DEF Had, Refers
      <3>2. QED  BY <2>3, <2>4, <3>1
    <2>6. OfHad(p, todo'[p])  BY <1>3, <2>4, TasksHad
    <2>7. Moves(p)  BY <1>2, <2>3, <2>4, <2>5, <2>6, MovesIs
    <2>8. Changes(p)  BY <2>4, QuietChanges
    <2>9. Rests(p)' /\ CwdOK(p) /\ FdOK(p)  BY <1>2, <2>4 DEF Rests, CwdOK, FdOK, Knows
    <2>10. (ip[p] # 0 => OnDisk(ip[p]))'  BY <2>3, <2>4 DEF OnDisk, Ino
    <2>11. Knows(p)'  BY <1>7, <2>4, <2>7, <2>8, <2>9, <2>10, KnowsSelf
    <2>12. \A j \in Inum : p \in Between(j)' => p \in Between(j)  BY <2>4 DEF Between
    <2>13. QED  BY <1>7, <2>4, <2>7, <2>11, <2>12, QuietStep
  <1>11. CASE ~full /\ k = 0
    <2>1. PICK r, t : r = IgetSlot(i) /\ t = i  OBVIOUS
    <2>2. t \in Inum /\ disk.inode[t].type = "none"  BY <1>5, <1>11, <2>1
    <2>3. Type(p) \in {"dir", "file", "dev"}  BY <1>3 DEF Type, Makes
    <2>4. /\ disk'.content = disk.content /\ disk'.inode[t].type = Type(p)
          /\ disk'.inode[t].nlink = 0 /\ \A j \in Inum : j # t => disk'.inode[j] = disk.inode[j]
      BY <1>1, <1>2, <1>11, <2>1, <2>2, <2>3, IallocIs
    <2>5. Nums /\ r \in Slot /\ itable'[r].inum = t
      <3>1. PICK U : U = T  OBVIOUS
      <3>2. IsTable(U) /\ \A a \in Slot : U[a].ref = itable[a].ref /\ U[a].inum = itable[a].inum
        BY <1>2, <1>4, <3>1, LoadIs DEF RefInv
      <3>3. ~NoSlot(t) /\ itable' = Iget(U, t) /\ r = IgetSlot(t)  BY <1>1, <1>11, <2>1, <3>1
      <3>4. Nums /\ IgetSlot(t) \in Slot /\ itable'[IgetSlot(t)].inum = t
        BY ONLY <1>2, <2>2, <3>2, <3>3, GetIs
      <3>5. QED  BY <3>3, <3>4
    <2> HIDE DEF k
    <2>6. /\ Only(p) /\ pc'[p] = "create2" /\ todo'[p] = <<>> /\ cur'[p] = s
          /\ rest'[p] = rest[p] /\ ip'[p] = r /\ cwd'[p] = cwd[p] /\ fd'[p] = fd[p]
          /\ putting'[p] = "no"
      BY <1>1, <1>2, <1>11, <2>1 DEF ProcTypes, Then, Only
    <2>7. Had(p, cur'[p]) /\ Had(p, ip'[p]) /\ Had(p, cwd'[p]) /\ Had(p, fd'[p])
      <3>1. Had(p, cur[p]) /\ Had(p, cwd[p]) /\ Had(p, fd[p])  BY DEF Had, Refers
      <3>2. Had(p, r)  BY <2>2, <2>5 DEF Had, Fetched
      <3>3. QED  BY <2>6, <3>1, <3>2
    <2>8. OfHad(p, todo'[p])  BY <2>6 DEF OfHad
    <2>9. Moves(p)  BY <1>2, <2>5, <2>6, <2>7, <2>8, MovesIs
    <2>10. Changes(p)
      <3>1. \A j \in Alloc(disk) : SameInode(j) /\ disk'.inode[j].type = disk.inode[j].type
        BY <2>2, <2>4 DEF Alloc, SameInode
      <3>2. \A j \in Inum : Complete(disk, j) => Complete(disk', j)  BY <2>4 DEF Complete
      <3>3. QED  BY <3>1, <3>2 DEF Changes
    <2>11. disk.content[t] = <<>>  BY <1>2, <2>2 DEF DiskOK, IsDisk, IsContent
    <2>12. /\ Tree(disk') /\ \A a, m, j : Link(disk', a, m, j) => Link(disk, a, m, j)
      <3>1. ~HasName(disk, t)  BY <2>2, NoName
      <3>2. Bare(disk, t) /\ Bare(disk', t)  BY <2>4, <2>11 DEF Bare
      <3>3. \A j \in Inum : j # t => /\ disk'.inode[j].type = disk.inode[j].type
                                     /\ disk'.content[j] = disk.content[j]
        BY <2>4
      <3>4. QED  BY <1>2, <1>7, <2>2, <3>1, <3>2, <3>3, Unnamed
    <2>13. ASSUME NEW u, u \in {cur[p], cwd[p], fd[p]}, u # 0 PROVE Stays(u)
      <3>1. Refers(p, u) /\ Refers(p, u)'  BY <2>6, <2>13 DEF Refers
      <3>2. QED  BY <1>7, <2>9, <2>10, <2>13, <3>1, SelfStays
    <2>14. Stays(s) /\ Stays(cwd[p]) /\ (fd[p] # 0 => Stays(fd[p]))
      <3>1. cwd[p] # 0  BY <1>2, PlaceFacts
      <3>2. QED  BY <1>3, <2>13, <3>1
    <2>15. Rests(p)'  BY <1>2, <2>6 DEF Rests, Knows
    <2>16. (OnDisk(cwd[p]) /\ IsDirOn(disk, Ino(cwd[p])) /\ Complete(disk, Ino(cwd[p])))'
      BY <1>2, <2>6, <2>14 DEF Knows, Stays, OnDisk, IsDirOn, Ino
    <2>17. (fd[p] # 0 => OnDisk(fd[p]))'  BY <2>6, <2>14 DEF Stays, OnDisk, Ino
    <2>18. (ip[p] # 0 => OnDisk(ip[p]))'
      <3>1. disk'.inode[itable'[r].inum].type # "none"  BY <2>3, <2>4, <2>5
      <3>2. QED  BY <2>6, <3>1 DEF OnDisk, Ino
    <2>19. (OnDisk(cur[p]) /\ Enters(cur[p]) /\ IsDirOn(disk, Ino(cur[p])))'
      BY <1>8, <2>6, <2>14 DEF Stays, OnDisk, Enters, IsDirOn, Ino
    <2>20. Alone(p, r)'  BY <1>1, <1>7, <2>2, <2>5, <2>6, NewAlone
    <2>21. /\ disk'.content[itable'[ip'[p]].inum] = <<>>
           /\ disk'.inode[itable'[ip'[p]].inum].nlink = 0 /\ Alone(p, ip[p])'
      BY <2>4, <2>5, <2>6, <2>11, <2>20 DEF Alone
    <2>22. \A a \in Slot : ~Frees(p, a)'  BY <2>6 DEF Frees
    <2>23. Knows(p)'
      BY <2>6, <2>15, <2>16, <2>17, <2>18, <2>19, <2>21, <2>22 DEF Knows, Ino
    <2>24. \A j : p \notin Between(j)'  BY <2>6 DEF Between
    <2>25. ASSUME NEW j, j \in Inum PROVE Linked(disk', j) \subseteq Linked(disk, j)
      <3>1. \A a, b : Link(disk', a, b, j) => Link(disk, a, b, j)  BY <2>12
      <3>2. PICK y : y = <<t, t>>  OBVIOUS
      <3>3. QED  BY <1>2, <1>7, <3>1, <3>2, LinkedSub
    <2>26. ASSUME NEW j, j \in Inum PROVE Covers(disk', j, Cardinality(Between(j)'))
      <3>1. CASE j # t
        <4>1. j \in Alloc(disk') <=> j \in Alloc(disk)  BY <2>4, <2>26, <3>1 DEF Alloc
        <4>2. disk'.inode[j].nlink = disk.inode[j].nlink  BY <2>4, <2>26, <3>1
        <4>3. QED  BY <1>7, <2>9, <2>24, <2>25, <2>26, <4>1, <4>2, CoversKept
      <3>2. CASE j = t
        <4>1. PICK b, c : b = Cardinality(Between(t)) /\ c = Cardinality(Between(t)')  OBVIOUS
        <4>2. b \in Nat /\ c \in Nat /\ c <= b  BY <1>7, <2>2, <2>9, <2>24, <4>1, BetweenStep
        <4>3. Linked(disk, t) = {} /\ b = 0
          <5>1. Covers(disk, t, b) /\ t \notin Alloc(disk)  BY <2>2, <4>1 DEF NameInv, Alloc
          <5>2. QED  BY <5>1 DEF Covers
        <4>4. Linked(disk', t) = {} /\ c = 0  BY <2>2, <2>25, <4>2, <4>3
        <4>5. t \in Alloc(disk')  BY <2>2, <2>3, <2>4 DEF Alloc
        <4>6. IsFiniteSet({}) /\ Cardinality({}) = 0  BY FS_EmptySet
        <4>7. Covers(disk', t, c)  BY <2>4, <4>4, <4>5, <4>6 DEF Covers
        <4>8. QED  BY <3>2, <4>1, <4>7
      <3>3. QED  BY <3>1, <3>2
    <2>27. QED  BY <1>7, <2>9, <2>10, <2>12, <2>23, <2>26, NameStep
  <1>12. QED  BY <1>9, <1>10, <1>11

\* A sequence with one element more.
LEMMA AppendIs ==
    ASSUME NEW S, NEW u, u \in Seq(S), Len(u) = 1, NEW b, b \in S, NEW c, c = Append(u, b)
    PROVE  Len(c) = 2 /\ c[1] = u[1] /\ c[2] = b
  <1>1. Len(u) \in Nat /\ DOMAIN u = 1..Len(u)  OBVIOUS
  <1>2. Len(c) = Len(u) + 1 /\ c[Len(u) + 1] = b  OBVIOUS
  <1>3. \A k \in 1..Len(u) : c[k] = u[k]  OBVIOUS
  <1>4. QED  BY <1>1, <1>2, <1>3

\* A directory with no free entry grows.
LEMMA TakesLast ==
    ASSUME NEW D, DiskOK(D), NEW E, NEW i, i \in Inum, IsDirOn(D, i), NEW x, Takes(D, E, i, x),
           \A k \in 1..Len(D.content[i]) : D.content[i][k].inum # 0
    PROVE  E.content[i] = Append(D.content[i], x)
  <1>1. D.content[i] \in Seq(Entry)  BY DEF DiskOK, IsDisk, IsContent, IsDirOn
  <1>2. PICK n : n = Len(D.content[i])  OBVIOUS
  <1>3. n \in Nat  BY <1>1, <1>2
  <1>4. PICK k : /\ k \in 1..(n + 1)
                 /\ k \in 1..n => D.content[i][k].inum = 0
                 /\ E.content[i] = Written(D.content[i], k - 1, x)
    BY <1>2 DEF Takes
  <1>5. k - 1 = n
    <2>1. k \notin 1..n  BY <1>2, <1>4
    <2>2. QED  BY <1>3, <1>4, <2>1
  <1>6. QED  BY <1>2, <1>4, <1>5 DEF Written

\* dirlink() of an entry to a directory with no free entry.
LEMMA DirlinkGrows ==
    ASSUME NEW D, DiskOK(D), NEW i, i \in Inum, IsDirOn(D, i),
           NEW name, name \in EntryNames, NEW inum, inum \in Inum,
           NEW W, W = Dirlink(D, i, name, inum), W.ok,
           \A k \in 1..Len(D.content[i]) : D.content[i][k].inum # 0
    PROVE  W.disk.content[i] = Append(D.content[i], [name |-> name, inum |-> inum])
  <1>1. PICK x : x = [name |-> name, inum |-> inum]  OBVIOUS
  <1>2. /\ DiskOK(W.disk) /\ Writes(D, W.disk, i)
        /\ ~W.ok => W.disk.content[i] = D.content[i]
        /\ W.ok => Takes(D, W.disk, i, [name |-> name, inum |-> inum])
    BY DirlinkDoes, SMTT(30)
  <1>3. PICK E : E = W.disk  OBVIOUS
  <1>4. Takes(D, E, i, x)  BY <1>1, <1>2, <1>3
  <1>5. E.content[i] = Append(D.content[i], x)  BY <1>4, TakesLast
  <1>6. QED  BY <1>1, <1>3, <1>5

\* create() writes "." and ".." to the new directory t.
LEMMA DotsAre ==
    ASSUME NEW D, DiskOK(D), NEW t, t \in Inum, IsDirOn(D, t), D.content[t] = <<>>,
           NEW g, g \in Inum, NEW m, m = AndThen(Dirlink(D, t, ".", t), t, "..", g)
    PROVE  /\ DiskOK(m.disk) /\ Writes(D, m.disk, t) /\ Len(m.disk.content[t]) <= 2
           /\ m.ok => Complete(m.disk, t) /\ m.disk.content[t][2].inum = g
  <1>1. PICK X, dot, dots : X = Dirlink(D, t, dot, t) /\ dot = "." /\ dots = ".."  OBVIOUS
  <1>2. dot \in EntryNames /\ dots \in EntryNames  BY <1>1 DEF EntryNames
  <1>3. m = AndThen(X, t, dots, g)  BY <1>1
  <1>4. DiskOK(X.disk) /\ Writes(D, X.disk, t)  BY ONLY <1>1, <1>2, DirlinkDoes, DiskOK(D),
                                                   t \in Inum, IsDirOn(D, t)
  <1>5. IsDirOn(X.disk, t)  BY <1>4 DEF Writes, IsDirOn
  <1>6. 0 \notin Inum  BY InodeAssumption DEF Inum, InodeAssumption
  <1>7. CASE ~X.ok
    <2>1. m = X  BY <1>3, <1>7 DEF AndThen
    <2>2. X.disk.content[t] = <<>>
      <3>1. X.disk.content[t] = D.content[t]
        BY ONLY <1>1, <1>2, <1>7, DirlinkFails, DiskOK(D), t \in Inum, IsDirOn(D, t)
      <3>2. QED  BY <3>1
    <2>3. Len(m.disk.content[t]) <= 2  BY <2>1, <2>2
    <2>4. QED  BY <1>4, <1>7, <2>1, <2>3
  <1>8. CASE X.ok
    <2>1. PICK Y, a, b : /\ Y = X.disk /\ a = [name |-> dot, inum |-> t]
                         /\ b = [name |-> dots, inum |-> g]
      OBVIOUS
    <2>2. Y.content[t] = <<a>>
      <3>1. \A k \in 1..Len(D.content[t]) : D.content[t][k].inum # 0  OBVIOUS
      <3>2. X.disk.content[t] = Append(D.content[t], [name |-> dot, inum |-> t])
        BY ONLY <1>1, <1>2, <1>8, <3>1, DirlinkGrows, DiskOK(D), t \in Inum, IsDirOn(D, t)
      <3>3. QED  BY <2>1, <3>2
    <2>3. DiskOK(Y) /\ Writes(D, Y, t) /\ IsDirOn(Y, t)  BY <1>4, <1>5, <2>1
    <2>4. m = Dirlink(Y, t, dots, g)  BY <1>3, <1>8, <2>1 DEF AndThen
    <2>5. DiskOK(m.disk) /\ Writes(Y, m.disk, t)
      BY ONLY <1>2, <2>3, <2>4, DirlinkDoes, t \in Inum, g \in Inum
    <2>6. Writes(D, m.disk, t)  BY <2>3, <2>5 DEF Writes
    <2>7. CASE ~m.ok
      <3>1. m.disk.content[t] = Y.content[t]
        BY ONLY <1>2, <2>3, <2>4, <2>7, DirlinkFails, t \in Inum, g \in Inum
      <3>2. PICK c : c = m.disk.content[t]  OBVIOUS
      <3>3. c = <<a>>  BY <2>2, <3>1, <3>2
      <3>4. Len(c) <= 2  BY ONLY <3>3
      <3>5. QED  BY <2>5, <2>6, <2>7, <3>2, <3>4
    <2>8. CASE m.ok
      <3>1. \A k \in 1..Len(Y.content[t]) : Y.content[t][k].inum # 0  BY <1>6, <2>1, <2>2
      <3>2. m.disk.content[t] = Append(Y.content[t], [name |-> dots, inum |-> g])
        BY ONLY <1>2, <2>3, <2>4, <2>8, <3>1, DirlinkGrows, t \in Inum, g \in Inum
      <3>3. PICK c : c = m.disk.content[t]  OBVIOUS
      <3>4. c = Append(<<a>>, b)  BY ONLY <2>1, <2>2, <3>2, <3>3
      <3>5. Len(c) = 2 /\ c[1] = a /\ c[2] = b
        <4>1. PICK u, S : u = <<a>> /\ S = {a, b}  OBVIOUS
        <4>2. u \in Seq(S) /\ b \in S /\ Len(u) = 1 /\ u[1] = a  BY ONLY <4>1
        <4>3. c = Append(u, b)  BY ONLY <3>4, <4>1
        <4>4. QED  BY ONLY <4>2, <4>3, AppendIs
      <3>6. a.name = "." /\ a.inum = t /\ b.name = ".." /\ b.inum = g  BY <1>1, <2>1
      <3>7. c[1].name = "." /\ c[1].inum = t /\ c[2].name = ".." /\ c[2].inum = g /\ g # 0
        BY <1>6, <3>5, <3>6
      <3>8. Complete(m.disk, t)  BY ONLY <3>3, <3>5, <3>7 DEF Complete
      <3>9. Len(m.disk.content[t]) <= 2 /\ m.disk.content[t][2].inum = g
        BY ONLY <3>3, <3>5, <3>7
      <3>10. QED  BY ONLY <2>5, <2>6, <3>8, <3>9
    <2>9. QED  BY <2>7, <2>8
  <1>9. QED  BY <1>7, <1>8

\* The disk M, when create() has set the links of t and written "." and "..": t has no
\* name yet, and the other inodes are as they were on D.
Prepared(D, M, t, g, ok) ==
    /\ DiskOK(M) /\ Tree(M) /\ ~HasName(M, t) /\ Bare(M, t)
    /\ \A a, m, i : Link(M, a, m, i) => Link(D, a, m, i)
    /\ \A j \in Inum : j # t => M.inode[j] = D.inode[j] /\ M.content[j] = D.content[j]
    /\ M.inode[t].type = D.inode[t].type /\ M.inode[t].nlink = 1
    /\ ok /\ IsDirOn(M, t) => Complete(M, t) /\ M.content[t][2].inum = g

LEMMA PreparedIs ==
    ASSUME NEW D, DiskOK(D), Tree(D), NEW t, t \in Inum, NEW g, g \in Inum,
           D.content[t] = <<>>, ~HasName(D, t), NEW type, type = D.inode[t].type,
           NEW L, LinksSet(L, D, t, 1),
           NEW m, type # "dir" => m.disk = L,
           type = "dir" => m = AndThen(Dirlink(L, t, ".", t), t, "..", g)
    PROVE  Prepared(D, m.disk, t, g, m.ok)
  <1>1. /\ DiskOK(L) /\ L.content = D.content /\ L.inode[t].nlink = 1
        /\ L.inode[t].type = D.inode[t].type
        /\ \A j \in Inum : j # t => L.inode[j] = D.inode[j]
    <2>1. PICK n : n = 1  OBVIOUS
    <2>2. n \in Int /\ LinksSet(L, D, t, n)  BY <2>1
    <2>3. /\ DiskOK(L) /\ L.content = D.content /\ L.inode[t].nlink = n
          /\ L.inode[t].type = D.inode[t].type
          /\ \A j \in Inum : j # t => L.inode[j] = D.inode[j]
      BY ONLY <2>2, SetNlink, DiskOK(D), t \in Inum
    <2>4. QED  BY <2>1, <2>3
  <1>2. PICK M, ok : M = m.disk /\ ok = m.ok  OBVIOUS
  <1>3. /\ DiskOK(M) /\ Bare(M, t)
        /\ \A j \in Inum : j # t => M.inode[j] = D.inode[j] /\ M.content[j] = D.content[j]
        /\ M.inode[t].type = D.inode[t].type /\ M.inode[t].nlink = 1
        /\ ok /\ IsDirOn(M, t) => Complete(M, t) /\ M.content[t][2].inum = g
    <2>1. CASE type # "dir"
      <3>1. M = L /\ ~IsDirOn(L, t)  BY <1>1, <1>2, <2>1 DEF IsDirOn
      <3>2. QED  BY <1>1, <3>1 DEF Bare
    <2>2. CASE type = "dir"
      <3>1. IsDirOn(L, t) /\ L.content[t] = <<>>  BY <1>1, <2>2 DEF IsDirOn
      <3>2. m = AndThen(Dirlink(L, t, ".", t), t, "..", g)  BY <2>2
      <3>3. /\ DiskOK(m.disk) /\ Writes(L, m.disk, t) /\ Len(m.disk.content[t]) <= 2
            /\ m.ok => Complete(m.disk, t) /\ m.disk.content[t][2].inum = g
        BY ONLY <1>1, <3>1, <3>2, DotsAre, t \in Inum, g \in Inum
      <3>4. /\ DiskOK(M) /\ Writes(L, M, t) /\ Len(M.content[t]) <= 2
            /\ ok => Complete(M, t) /\ M.content[t][2].inum = g
        BY <1>2, <3>3
      <3>5. QED  BY <1>1, <3>4 DEF Writes, Bare
    <2>3. QED  BY <2>1, <2>2
  <1>4. Tree(M) /\ ~HasName(M, t) /\ \A a, k, i : Link(M, a, k, i) => Link(D, a, k, i)
    <2>1. Bare(D, t)  BY DEF Bare
    <2>2. \A j \in Inum : j # t => /\ M.inode[j].type = D.inode[j].type
                                   /\ M.content[j] = D.content[j]
      BY <1>3
    <2>3. DiskOK(M) /\ Bare(M, t)  BY <1>3
    <2>4. /\ Tree(M)
          /\ \A i : HasName(M, i) => HasName(D, i)
          /\ \A a, k, i : Link(M, a, k, i) => Link(D, a, k, i)
      BY <2>1, <2>2, <2>3, Unnamed
    <2>5. QED  BY <2>4
  <1>5. Prepared(D, M, t, g, ok)  BY <1>3, <1>4 DEF Prepared
  <1>6. QED  BY <1>2, <1>5

\* What create() leaves on the disk E, when it fails and when it does not.
Unmade(D, E, t, g) ==
    /\ Tree(E) /\ \A a, m, i : Link(E, a, m, i) => Link(D, a, m, i)
    /\ Complete(E, g) /\ E.inode[g].nlink = D.inode[g].nlink
MadeAs(D, E, t, g, k) ==
    /\ Tree(E)
    /\ \A a, m, i : Link(E, a, m, i) =>
          \/ Link(D, a, m, i)
          \/ i = t /\ a = g /\ m = k
          \/ i = g /\ IsDirOn(D, t) /\ a = t /\ m = 2
    /\ Complete(E, g) /\ E.inode[t].nlink = 1
    /\ IsDirOn(D, t) => E.inode[g].nlink = D.inode[g].nlink + 1
    /\ ~IsDirOn(D, t) => E.inode[g].nlink = D.inode[g].nlink

\* create() fails: t gets its links back to 0.
LEMMA UnmadeIs ==
    ASSUME NEW D, DiskOK(D), NEW t, t \in Inum, NEW g, g \in Inum, t # g,
           IsDirOn(D, g), Complete(D, g), NEW M, NEW ok, Prepared(D, M, t, g, ok),
           NEW V, DiskOK(V), Writes(M, V, g), V.content[g] = M.content[g],
           NEW E, LinksSet(E, V, t, 0)
    PROVE  Unmade(D, E, t, g)
  <1>1. /\ DiskOK(E) /\ E.content = V.content /\ E.inode[t].nlink = 0
        /\ E.inode[t].type = V.inode[t].type
        /\ \A j \in Inum : j # t => E.inode[j] = V.inode[j]
    <2>1. 0 \in Int  OBVIOUS
    <2>2. QED  BY <2>1, SetNlink
  <1>2. \A j \in Inum : E.inode[j].type = M.inode[j].type /\ E.content[j] = M.content[j]
    BY <1>1 DEF Writes
  <1>3. SameDirs(M, E)  BY <1>2 DEF SameDirs, IsDirOn
  <1>4. Tree(E) /\ \A i : Linked(E, i) = Linked(M, i)
    BY <1>3, SameTree DEF Prepared
  <1>5. ASSUME NEW a, NEW m, NEW i, Link(E, a, m, i) PROVE Link(D, a, m, i)
    <2>1. PICK x : x = <<a, m>>  OBVIOUS
    <2>2. x \in Linked(E, i)  BY <1>1, <1>5, <2>1, LinkedIs
    <2>3. DiskOK(M)  BY DEF Prepared
    <2>4. PICK b, k : x = <<b, k>> /\ Link(M, b, k, i)  BY <1>4, <2>2, <2>3, LinkedIs
    <2>5. Link(M, a, m, i)  BY <2>1, <2>4
    <2>6. QED  BY <2>5 DEF Prepared
  <1>6. Complete(E, g)  BY <1>2 DEF Prepared, Complete
  <1>7. E.inode[g].nlink = D.inode[g].nlink  BY <1>1 DEF Writes, Prepared
  <1>8. QED  BY <1>4, <1>5, <1>6, <1>7 DEF Unmade

\* create() writes the name.
LEMMA MadeAsIs ==
    ASSUME NEW D, DiskOK(D), NEW t, t \in Inum, NEW g, g \in Inum, t # g,
           IsDirOn(D, g), Complete(D, g), NEW M, NEW ok, ok, Prepared(D, M, t, g, ok),
           NEW name, name \in EntryNames, NEW w, w = Dirlink(M, g, name, t), w.ok,
           NEW n, n \in Int, IsDirOn(D, t) => n = 1, ~IsDirOn(D, t) => n = 0,
           NEW E, E = NlinkPlus(w.disk, g, n)
    PROVE  \E k : MadeAs(D, E, t, g, k)
  <1>1. IsDirOn(M, g) /\ Complete(M, g) /\ DiskOK(M) /\ (IsDirOn(M, t) <=> IsDirOn(D, t))
    BY DEF Prepared, IsDirOn, Complete
  <1>2. PICK V : V = w.disk  OBVIOUS
  <1>3. DiskOK(V) /\ Writes(M, V, g)
    <2>1. DiskOK(w.disk) /\ Writes(M, w.disk, g)
      BY ONLY <1>1, DirlinkDoes, w = Dirlink(M, g, name, t), g \in Inum, t \in Inum,
              name \in EntryNames
    <2>2. QED  BY <1>2, <2>1
  <1>4. PICK k : Placed(M, V, g, k, t) /\ \A j \in Inum : ~Says(M, g, k, j)
    <2>1. \E k : Placed(M, w.disk, g, k, t) /\ \A j \in Inum : ~Says(M, g, k, j)
      BY ONLY <1>1, DirlinkPlaces, w = Dirlink(M, g, name, t), g \in Inum, t \in Inum,
              name \in EntryNames, w.ok
    <2>2. QED  BY <1>2, <2>1
  <1>5. /\ Tree(V)
        /\ \A a, m, i : Link(V, a, m, i) =>
              \/ Link(M, a, m, i)
              \/ i = t /\ a = g /\ m = k
              \/ i = g /\ IsDirOn(M, t) /\ a = t /\ m = 2
    <2>1. Tree(M)  BY DEF Prepared
    <2>2. IsDirOn(M, t) => ~HasName(M, t) /\ Complete(M, t) /\ M.content[t][2].inum = g
      BY DEF Prepared
    <2>3. Placed(M, V, g, k, t)  BY <1>4
    <2>4. \A j \in Inum : ~Says(M, g, k, j)  BY <1>4
    <2>5. QED  BY ONLY <1>1, <1>3, <2>1, <2>2, <2>3, <2>4, AddLinks, g \in Inum, t \in Inum
  <1>6. Complete(V, g)  BY <1>1, <1>3, <1>4, PlacedIs
  <1>7. /\ DiskOK(E) /\ E.content = V.content /\ E.inode[g].nlink = V.inode[g].nlink + n
        /\ E.inode[g].type = V.inode[g].type
        /\ \A j \in Inum : j # g => E.inode[j] = V.inode[j]
    <2>1. E = NlinkPlus(V, g, n)  BY <1>2
    <2>2. /\ DiskOK(NlinkPlus(V, g, n)) /\ NlinkPlus(V, g, n).content = V.content
          /\ NlinkPlus(V, g, n).inode[g].nlink = V.inode[g].nlink + n
          /\ NlinkPlus(V, g, n).inode[g].type = V.inode[g].type
          /\ \A j \in Inum : j # g => NlinkPlus(V, g, n).inode[j] = V.inode[j]
      BY ONLY <1>3, NlinkIs, g \in Inum, n \in Int
    <2>3. QED  BY <2>1, <2>2
  <1>8. SameDirs(V, E)  BY <1>7 DEF SameDirs, IsDirOn
  <1>9. Tree(E) /\ \A i : Linked(E, i) = Linked(V, i)  BY <1>5, <1>8, SameTree
  <1>10. ASSUME NEW a, NEW m, NEW i, Link(E, a, m, i)
         PROVE  \/ Link(D, a, m, i)
                \/ i = t /\ a = g /\ m = k
                \/ i = g /\ IsDirOn(D, t) /\ a = t /\ m = 2
    <2>1. PICK x : x = <<a, m>>  OBVIOUS
    <2>2. x \in Linked(E, i)  BY <1>7, <1>10, <2>1, LinkedIs
    <2>3. PICK b, l : x = <<b, l>> /\ Link(V, b, l, i)  BY <1>3, <1>9, <2>2, LinkedIs
    <2>4. Link(V, a, m, i)  BY <2>1, <2>3
    <2>5. Link(M, a, m, i) => Link(D, a, m, i)  BY DEF Prepared
    <2>6. QED  BY <1>1, <1>5, <2>4, <2>5
  <1>11. Complete(E, g)  BY <1>6, <1>7 DEF Complete
  <1>12. E.inode[t].nlink = 1  BY <1>3, <1>7 DEF Writes, Prepared
  <1>13. E.inode[g].nlink = D.inode[g].nlink + n /\ D.inode[g].nlink \in Int
    BY <1>3, <1>7, NlinkInt DEF Writes, Prepared
  <1>14. /\ IsDirOn(D, t) => E.inode[g].nlink = D.inode[g].nlink + 1
         /\ ~IsDirOn(D, t) => E.inode[g].nlink = D.inode[g].nlink
    BY <1>13
  <1>15. MadeAs(D, E, t, g, k)  BY <1>9, <1>10, <1>11, <1>12, <1>14 DEF MadeAs
  <1>16. QED  BY <1>15

\* What create() writes to the disk: no name and no link more, or both.
LEMMA CreateDoes ==
    ASSUME NEW D, DiskOK(D), Tree(D), NEW t, t \in Inum, NEW g, g \in Inum, t # g,
           IsDirOn(D, g), Complete(D, g), D.content[t] = <<>>, ~HasName(D, t),
           NEW type, type = D.inode[t].type, NEW name, name \in EntryNames,
           NEW L, LinksSet(L, D, t, 1),
           NEW m, type # "dir" => m.disk = L,
           type = "dir" => m = AndThen(Dirlink(L, t, ".", t), t, "..", g),
           NEW w, w = AndThen(m, g, name, t),
           NEW E, ~w.ok => LinksSet(E, w.disk, t, 0),
           w.ok => E = NlinkPlus(w.disk, g, IF type = "dir" THEN 1 ELSE 0)
    PROVE  /\ ~w.ok => Unmade(D, E, t, g)
           /\ w.ok => \E k : MadeAs(D, E, t, g, k)
  <1>1. Prepared(D, m.disk, t, g, m.ok)  BY PreparedIs
  <1>2. PICK M, ok, V : M = m.disk /\ ok = m.ok /\ V = w.disk  OBVIOUS
  <1>3. Prepared(D, M, t, g, ok)  BY <1>1, <1>2
  <1>4. IsDirOn(M, g) /\ DiskOK(M)  BY <1>3 DEF Prepared, IsDirOn
  <1>5. ASSUME ~w.ok, DiskOK(V), Writes(M, V, g), V.content[g] = M.content[g]
        PROVE  Unmade(D, E, t, g)
    <2>1. LinksSet(E, V, t, 0)  BY <1>2, <1>5
    <2>2. QED  BY <1>3, <1>5, <2>1, UnmadeIs
  <1>6. CASE ~ok
    <2>1. w = m  BY <1>2, <1>6 DEF AndThen
    <2>2. ~w.ok /\ V = M  BY <1>2, <1>6, <2>1
    <2>3. Writes(M, V, g) /\ V.content[g] = M.content[g] /\ DiskOK(V)  BY <1>4, <2>2 DEF Writes
    <2>4. QED  BY <1>5, <2>2, <2>3
  <1>7. CASE ok
    <2>1. w = Dirlink(M, g, name, t)  BY <1>2, <1>7 DEF AndThen
    <2>2. DiskOK(w.disk) /\ Writes(M, w.disk, g)
      BY ONLY <1>4, <2>1, DirlinkDoes, g \in Inum, t \in Inum, name \in EntryNames
    <2>3. ASSUME ~w.ok PROVE Unmade(D, E, t, g)
      <3>1. w.disk.content[g] = M.content[g]
        BY ONLY <1>4, <2>1, <2>3, DirlinkFails, g \in Inum, t \in Inum, name \in EntryNames
      <3>2. QED  BY <1>2, <1>5, <2>2, <2>3, <3>1
    <2>4. ASSUME w.ok PROVE \E k : MadeAs(D, E, t, g, k)
      <3>1. PICK n : n = IF type = "dir" THEN 1 ELSE 0  OBVIOUS
      <3>2. /\ n \in Int
            /\ IsDirOn(D, t) => n = 1
            /\ ~IsDirOn(D, t) => n = 0
        BY <3>1 DEF IsDirOn
      <3>3. E = NlinkPlus(w.disk, g, n)  BY <2>4, <3>1
      <3>4. QED
        BY ONLY <1>3, <1>7, <2>1, <2>4, <3>2, <3>3, MadeAsIs, DiskOK(D), t \in Inum, g \in Inum,
                t # g, IsDirOn(D, g), Complete(D, g), name \in EntryNames
    <2>5. QED  BY <2>3, <2>4
  <1>8. QED  BY <1>6, <1>7

\* p has written the inodes of both slots, and the second is a complete directory still.
LEMMA BothChanges ==
    ASSUME NEW p \in Proc, NEW s, Touches(p, s), NEW d, Touches(p, d),
           Both(disk, disk', Ino(s), Ino(d)), ~Complete(disk, Ino(s)), Complete(disk', Ino(d))
    PROVE  Changes(p) /\ Alloc(disk') = Alloc(disk)
  <1>1. s \in Slot /\ d \in Slot  BY DEF Touches, Mine
  <1>2. PICK t, g : t = Ino(s) /\ g = Ino(d)  OBVIOUS
  <1>3. \A j \in Inum : j # t /\ j # g => SameInode(j)  BY <1>2 DEF Both, SameInode
  <1>4. \A j \in Alloc(disk) : SameInode(j) \/ \E a \in Slot : Touches(p, a) /\ Ino(a) = j
    BY <1>1, <1>2, <1>3 DEF Alloc
  <1>5. ASSUME NEW j \in Inum PROVE disk'.inode[j].type = disk.inode[j].type
    <2>1. CASE j = t  BY <1>2, <2>1 DEF Both
    <2>2. CASE j = g  BY <1>2, <2>2 DEF Both
    <2>3. CASE j # t /\ j # g  BY <1>2, <2>3 DEF Both
    <2>4. QED  BY <2>1, <2>2, <2>3
  <1>6. ASSUME NEW j \in Inum, Complete(disk, j) PROVE Complete(disk', j)
    <2>1. CASE j = g  BY <1>2, <2>1
    <2>2. CASE j # g
      <3>1. j # t  BY <1>2, <1>6
      <3>2. QED  BY <1>3, <1>6, <2>2, <3>1 DEF SameInode, Complete
    <2>3. QED  BY <2>1, <2>2
  <1>7. Alloc(disk') = Alloc(disk)  BY <1>5 DEF Alloc
  <1>8. QED  BY <1>4, <1>5, <1>6, <1>7 DEF Changes, Alloc

\* create() writes the inode and its name.
LEMMA NameCreate2 == ASSUME NameInv, NEW p \in Proc, Create2(p) PROVE NameInv'
  <1> DEFINE s == ip[p]
             d == cur[p]
             D == [Own(Own(disk, d), s) EXCEPT !.inode[Ino(s)].nlink = 1]
             made == IF Type(p) # "dir" THEN [disk |-> D, ok |-> TRUE]
                     ELSE AndThen(Dirlink(D, Ino(s), ".", Ino(s)), Ino(s), "..", Ino(d))
             w == AndThen(made, Ino(d), Elem(rest[p]), Ino(s))
             E == IF ~w.ok THEN [w.disk EXCEPT !.inode[Ino(s)].nlink = 0]
                  ELSE NlinkPlus(w.disk, Ino(d), IF Type(p) = "dir" THEN 1 ELSE 0)
  <1>1. /\ pc[p] = "create2" /\ todo[p] = <<>> /\ UNCHANGED <<cwd, fd, putting>>
        /\ Free(s) /\ Loaded(s).type # "none"
    BY DEF Create2, At, Ilock
  <1>2. /\ disk' = E
        /\ itable' = Load(Load(itable, s, E.inode[Ino(s)]), d, E.inode[Ino(d)])
    BY Zenon DEF Create2
  <1>3. /\ w.ok => /\ cur' = [cur EXCEPT ![p] = 0] /\ Then(p, "created", <<Put(d)>>)
                   /\ UNCHANGED <<call, rest, ip>>
        /\ ~w.ok => UNCHANGED holder /\ Return(p, <<Put(s), Unlock(d), Put(d)>>)
    BY Zenon DEF Create2, Forget
  <1>4. /\ DiskInv /\ RefInv /\ ProcTypes /\ Place(p) /\ Stage(p) /\ DiskOK(disk) /\ Knows(p)
        /\ Tree(disk) /\ putting[p] = "no"
    BY <1>1, NoTasks DEF NameInv, DiskInv, RefInv
  <1>5. /\ s \in Slot /\ d \in Slot /\ s # d /\ Mine(p, s) /\ Mine(p, d)
        /\ Ino(s) \in Inum /\ Ino(d) \in Inum /\ Ino(s) # Ino(d)
        /\ Loaded(s) = disk.inode[Ino(s)] /\ Own(disk, s) = disk /\ Own(disk, d) = disk
        /\ disk.inode[Ino(d)].type = "dir"
    BY <1>1, <1>4, BothAre
  <1>6. disk.inode[Ino(s)].type = Type(p)  BY <1>1, <1>4 DEF Stage
  <1>7. PICK t, g : t = Ino(s) /\ g = Ino(d)  OBVIOUS
  <1>8. s # 0 /\ d # 0 /\ Refers(p, s) /\ Refers(p, d)  BY <1>1, <1>4 DEF Place, Refers
  <1>9. /\ t \in Inum /\ g \in Inum /\ t # g /\ IsDirOn(disk, g) /\ Complete(disk, g)
        /\ disk.content[t] = <<>> /\ disk.inode[t].nlink = 0 /\ ~HasName(disk, t)
        /\ t \in Alloc(disk) /\ g \in Alloc(disk) /\ ~Complete(disk, t)
    <2>1. IsDirOn(disk, g)  BY <1>5, <1>7 DEF IsDirOn
    <2>2. Complete(disk, g)  BY <1>4, <1>7, <1>8, <2>1 DEF Knows, Enters
    <2>3. disk.content[t] = <<>> /\ disk.inode[t].nlink = 0  BY <1>1, <1>4, <1>7 DEF Knows
    <2>4. ~HasName(disk, t)  BY <1>5, <1>7, <2>3, NoName
    <2>5. ~Complete(disk, t)
      <3>1. Len(disk.content[t]) = 0  BY <2>3
      <3>2. QED  BY <3>1 DEF Complete
    <2>6. t \in Alloc(disk) /\ g \in Alloc(disk)  BY <1>1, <1>5, <1>7 DEF Alloc
    <2>7. QED  BY <1>5, <1>7, <2>1, <2>2, <2>3, <2>4, <2>5, <2>6
  <1>10. /\ Both(disk, E, t, g)
         /\ ~w.ok => Unmade(disk, E, t, g) /\ E.inode[t].nlink = 0
         /\ w.ok => \E k : MadeAs(disk, E, t, g, k)
    <2>1. LinksSet(D, disk, t, 1)  BY <1>5, <1>7 DEF LinksSet
    <2> HIDE DEF D
    <2>2. /\ Type(p) # "dir" => made.disk = D
          /\ Type(p) = "dir" => made = AndThen(Dirlink(D, t, ".", t), t, "..", g)
      <3>1. PICK yes : yes = TRUE  OBVIOUS
      <3>2. Type(p) # "dir" => made = Res(D, yes)  BY <3>1, Zenon DEF Res
      <3>3. Type(p) # "dir" => made.disk = D  BY <3>2, ResFields
      <3>4. Type(p) = "dir"
              => made = AndThen(Dirlink(D, Ino(s), ".", Ino(s)), Ino(s), "..", Ino(d))
        BY Zenon
      <3>5. QED  BY <1>7, <3>3, <3>4
    <2> HIDE DEF made
    <2>3. /\ ~w.ok => LinksSet(E, w.disk, t, 0)
          /\ w.ok => E = NlinkPlus(w.disk, g, IF Type(p) = "dir" THEN 1 ELSE 0)
      BY <1>7 DEF LinksSet
    <2>4. w = AndThen(made, g, Elem(rest[p]), t)  BY <1>7
    <2> HIDE DEF w, E
    <2>5. Elem(rest[p]) \in EntryNames  BY <1>1, <1>4, LastElem
    <2>6. PICK name, type, m, W, F, L : /\ name = Elem(rest[p]) /\ type = Type(p) /\ m = made
                                        /\ W = w /\ F = E /\ L = D
      OBVIOUS
    <2>7. /\ LinksSet(L, disk, t, 1) /\ name \in EntryNames /\ type = disk.inode[t].type
          /\ W = AndThen(m, g, name, t)
      BY <1>6, <1>7, <2>1, <2>4, <2>5, <2>6
    <2>8. type # "dir" => m.disk = L  BY <2>2, <2>6
    <2>9. type = "dir" => m = AndThen(Dirlink(L, t, ".", t), t, "..", g)  BY <2>2, <2>6
    <2>10. ~W.ok => LinksSet(F, W.disk, t, 0)  BY <2>3, <2>6
    <2>11. W.ok => F = NlinkPlus(W.disk, g, IF type = "dir" THEN 1 ELSE 0)  BY <2>3, <2>6
    <2>12. /\ ~W.ok => Unmade(disk, F, t, g)
           /\ W.ok => \E k : MadeAs(disk, F, t, g, k)
      BY ONLY <1>4, <1>9, <2>7, <2>8, <2>9, <2>10, <2>11, CreateDoes
    <2>13. Both(disk, F, t, g)
      <3>1. disk.inode[g].type = "dir"  BY <1>9 DEF IsDirOn
      <3>2. QED  BY ONLY <1>4, <1>9, <2>7, <2>8, <2>9, <2>10, <2>11, <3>1, MadeIs
    <2>14. ASSUME ~w.ok PROVE E.inode[t].nlink = 0
      <3>1. PICK V, n : V = w.disk /\ n = 0  OBVIOUS
      <3>2. LinksSet(E, V, t, n) /\ n \in Int  BY <2>3, <2>14, <3>1
      <3>3. DiskOK(V)
        <4>1. DiskOK(made.disk) /\ IsDirOn(made.disk, g)
          <5>1. Prepared(disk, m.disk, t, g, m.ok)
            BY ONLY <1>4, <1>9, <2>7, <2>8, <2>9, PreparedIs
          <5>2. QED  BY <1>9, <2>6, <5>1 DEF Prepared, IsDirOn
        <4>2. m.disk.inode[g].type = "dir" /\ DiskOK(m.disk)  BY <2>6, <4>1 DEF IsDirOn
        <4>3. DiskOK(W.disk)  BY ONLY <1>9, <2>7, <4>2, AndThenIs
        <4>4. QED  BY <2>6, <3>1, <4>3
      <3>4. E.inode[t].nlink = n  BY <1>9, <3>2, <3>3, SetNlink
      <3>5. QED  BY <3>1, <3>4
    <2>15. QED  BY <2>6, <2>12, <2>13, <2>14
  <1>11. PICK ok : ok <=> w.ok  OBVIOUS
  <1> HIDE DEF E, w, made, D
  <1>12. /\ Both(disk, disk', t, g)
         /\ ~ok => Unmade(disk, disk', t, g) /\ disk'.inode[t].nlink = 0
         /\ ok => \E k : MadeAs(disk, disk', t, g, k)
    BY <1>2, <1>10, <1>11
  <1>13. Complete(disk', g)
    <2>1. CASE ok  BY <1>12, <2>1 DEF MadeAs
    <2>2. CASE ~ok  BY <1>12, <2>2 DEF Unmade
    <2>3. QED  BY <2>1, <2>2
  <1>14. Changes(p) /\ Alloc(disk') = Alloc(disk)
    <2>1. Touches(p, s) /\ Touches(p, d)  BY <1>5, <1>8 DEF Touches
    <2>2. PICK a, b : a = s /\ b = d  OBVIOUS
    <2>3. /\ Touches(p, a) /\ Touches(p, b) /\ Both(disk, disk', Ino(a), Ino(b))
          /\ ~Complete(disk, Ino(a)) /\ Complete(disk', Ino(b))
      BY <1>7, <1>9, <1>12, <1>13, <2>1, <2>2
    <2>4. QED  BY <2>3, BothChanges
  <1>15. Nums  BY <1>2, <1>4, <1>5, NumsLoadTwice
  <1>16. DiskInv' /\ DiskOK(disk')  BY <1>4, DiskCreate2 DEF DiskInv
  <1>17. ASSUME NEW i, i \in Inum, i # t, i # g
         PROVE  disk'.inode[i].nlink = disk.inode[i].nlink
    BY <1>12, <1>17 DEF Both
  <1>18. CASE ~ok
    <2>1. PICK l : l = <<Put(s), Unlock(d), Put(d)>>  OBVIOUS
    <2>2. l \in Todos /\ OfHad(p, l)  BY <1>5, <1>8, <2>1, PutsOfLists, TasksHad
    <2>3. Return(p, l) /\ Kept(p) /\ CwdOK(p) /\ FdOK(p) /\ putting'[p] # "free"
      BY <1>1, <1>3, <1>4, <1>11, <1>18, <2>1
      DEF Return, Then, Forget, ProcTypes, Kept, CwdOK, FdOK
    <2>4. Moves(p) /\ Knows(p)' /\ \A j : p \notin Between(j)'
      BY <1>14, <1>15, <1>16, <2>2, <2>3, ReturnKnows
    <2>5. /\ Tree(disk') /\ disk'.inode[g].nlink = disk.inode[g].nlink
          /\ \A a, m, i : Link(disk', a, m, i) => Link(disk, a, m, i)
      BY <1>12, <1>18 DEF Unmade
    <2>6. ASSUME NEW i, i \in Inum PROVE Covers(disk', i, Cardinality(Between(i)'))
      <3>1. disk'.inode[i].nlink = disk.inode[i].nlink
        BY <1>9, <1>12, <1>17, <1>18, <2>5, <2>6
      <3>2. \A a, m : Link(disk', a, m, i) => Link(disk, a, m, i)  BY <2>5
      <3>3. PICK y : y = <<t, t>>  OBVIOUS
      <3>4. Linked(disk', i) \subseteq Linked(disk, i)  BY <1>4, <1>16, <3>2, <3>3, LinkedSub
      <3>5. QED  BY <1>14, <1>16, <2>4, <2>6, <3>1, <3>4, CoversKept
    <2>7. QED  BY <1>14, <1>16, <2>4, <2>5, <2>6, NameStep
  <1>19. CASE ok
    <2>1. Moves(p) /\ Knows(p)' /\ pc'[p] = "created"
      <3>1. PICK a, b, l : a = ip[p] /\ b = cur[p] /\ l = "created"  OBVIOUS
      <3>2. /\ a # 0 /\ l \in {"unlink3", "created"} /\ Then(p, l, <<Put(b)>>)
            /\ cur' = [cur EXCEPT ![p] = 0] /\ UNCHANGED <<call, rest, ip, cwd, fd, putting>>
        BY <1>1, <1>3, <1>8, <1>11, <1>19, <3>1 DEF Then
      <3>3. Moves(p) /\ Knows(p)' /\ pc'[p] = l
        BY <1>4, <1>14, <1>15, <1>16, <3>1, <3>2, KnowsSwap
      <3>4. QED  BY <3>1, <3>3
    <2>2. \A j : p \notin Between(j)'  BY <2>1 DEF Between
    <2>3. PICK k : MadeAs(disk, disk', t, g, k)  BY <1>12, <1>19
    <2>4. PICK dir : dir <=> IsDirOn(disk, t)  OBVIOUS
    <2>5. /\ Tree(disk') /\ disk'.inode[t].nlink = 1
          /\ dir => disk'.inode[g].nlink = disk.inode[g].nlink + 1
          /\ ~dir => disk'.inode[g].nlink = disk.inode[g].nlink
      BY <2>3, <2>4 DEF MadeAs
    <2>6. \A a, m, i : Link(disk', a, m, i) => \/ Link(disk, a, m, i)
                                               \/ i = t /\ a = g /\ m = k
                                               \/ i = g /\ dir /\ a = t /\ m = 2
      BY <2>3, <2>4 DEF MadeAs
    <2>7. ASSUME NEW i, i \in Inum
          PROVE  /\ Cardinality(Between(i)) \in Nat /\ Cardinality(Between(i)') \in Nat
                 /\ Cardinality(Between(i)') <= Cardinality(Between(i))
      BY <1>16, <2>1, <2>2, <2>7, BetweenStep
    <2>8. Covers(disk', t, Cardinality(Between(t)'))
      <3>1. PICK y, m, n : y = <<g, k>> /\ m = 0 /\ n = 1  OBVIOUS
      <3>2. \A a, b : Link(disk', a, b, t) => Link(disk, a, b, t) \/ (a = g /\ b = k)
        BY <1>9, <2>6
      <3>3. Linked(disk', t) \subseteq Linked(disk, t) \cup {y}
        BY <1>4, <1>16, <3>1, <3>2, LinkedSub
      <3>4. /\ Cardinality(Between(t)') <= Cardinality(Between(t)) + m /\ m \in Int /\ n \in Int
            /\ disk'.inode[t].nlink = disk.inode[t].nlink + n /\ 1 + m <= n
        BY <1>9, <2>5, <2>7, <3>1
      <3>5. t \in Alloc(disk) /\ t \in Alloc(disk')  BY <1>9, <1>14
      <3>6. QED  BY <1>16, <2>1, <3>3, <3>4, <3>5, CoversNext
    <2>9. ASSUME dir PROVE Covers(disk', g, Cardinality(Between(g)'))
      <3>1. PICK y, m, n, e : y = <<t, e>> /\ m = 0 /\ n = 1 /\ e = 2  OBVIOUS
      <3>2. \A a, b : Link(disk', a, b, g) => Link(disk, a, b, g) \/ (a = t /\ b = e)
        BY <1>9, <2>6, <3>1
      <3>3. Linked(disk', g) \subseteq Linked(disk, g) \cup {y}
        BY <1>4, <1>16, <3>1, <3>2, LinkedSub
      <3>4. /\ Cardinality(Between(g)') <= Cardinality(Between(g)) + m /\ m \in Int /\ n \in Int
            /\ disk'.inode[g].nlink = disk.inode[g].nlink + n /\ 1 + m <= n
        BY <1>9, <2>5, <2>7, <2>9, <3>1
      <3>5. g \in Alloc(disk) /\ g \in Alloc(disk')  BY <1>9, <1>14
      <3>6. QED  BY <1>16, <2>1, <3>3, <3>4, <3>5, CoversNext
    <2>10. ASSUME NEW i, i \in Inum, i # t, i = g => ~dir
           PROVE  Covers(disk', i, Cardinality(Between(i)'))
      <3>1. disk'.inode[i].nlink = disk.inode[i].nlink  BY <1>17, <2>5, <2>10
      <3>2. \A a, m : Link(disk', a, m, i) => Link(disk, a, m, i)  BY <2>6, <2>10
      <3>3. PICK y : y = <<t, t>>  OBVIOUS
      <3>4. Linked(disk', i) \subseteq Linked(disk, i)  BY <1>4, <1>16, <3>2, <3>3, LinkedSub
      <3>5. QED  BY <1>14, <1>16, <2>1, <2>2, <2>10, <3>1, <3>4, CoversKept
    <2>11. ASSUME NEW i, i \in Inum PROVE Covers(disk', i, Cardinality(Between(i)'))
      <3>1. CASE i = t  BY <2>8, <3>1
      <3>2. CASE i = g /\ dir  BY <2>9, <3>2
      <3>3. CASE i # t /\ ~(i = g /\ dir)  BY <2>10, <2>11, <3>3
      <3>4. QED  BY <3>1, <3>2, <3>3
    <2>12. QED  BY <1>14, <1>16, <2>1, <2>5, <2>11, NameStep
  <1>20. QED  BY <1>18, <1>19

-----------------------------------------------------------------------------
(* The third part of the invariant holds, from the disk that mkfs makes on. *)

\* The entries of the root directory: "." and "..", and nothing else.
LEMMA RootEntries ==
    /\ Len(RootDir) \in Nat /\ Len(RootDir) >= 2
    /\ RootDir[1] = [name |-> ".", inum |-> ROOTINO]
    /\ RootDir[2] = [name |-> "..", inum |-> ROOTINO]
    /\ \A k \in 3..Len(RootDir) : RootDir[k].inum = 0
  <1> DEFINE n == (2 \div DPB + 1) * DPB
  <1>1. n \in Nat /\ n >= 2
    <2>1. DPB \in Nat /\ DPB > 0  BY InodeAssumption DEF InodeAssumption
    <2>2. PICK q : q = 2 \div DPB  OBVIOUS
    <2>3. q \in Nat  BY <2>1, <2>2
    <2>4. n = (q + 1) * DPB  BY <2>2
    <2>5. CASE DPB = 1
      <3>1. q = 2  BY <2>2, <2>5
      <3>2. QED  BY <2>4, <2>5, <3>1
    <2>6. CASE DPB # 1
      <3>1. PICK m : m = q * DPB  OBVIOUS
      <3>2. m \in Nat /\ (q + 1) * DPB = m + DPB  BY <2>1, <2>3, <3>1
      <3>3. QED  BY ONLY <2>1, <2>4, <2>6, <3>2
    <2>7. QED  BY <2>5, <2>6
  <1> DEFINE f(k) == CASE k = 1 -> [name |-> ".", inum |-> ROOTINO]
                       [] k = 2 -> [name |-> "..", inum |-> ROOTINO]
                       [] OTHER -> [name |-> "", inum |-> 0]
  <1>2. RootDir = [k \in 1..n |-> f(k)]  BY DEF RootDir
  <1>3. f(1) = [name |-> ".", inum |-> ROOTINO] /\ f(2) = [name |-> "..", inum |-> ROOTINO]
    OBVIOUS
  <1>4. ASSUME NEW k, k # 1, k # 2 PROVE f(k).inum = 0  BY <1>4
  <1> HIDE DEF n, f
  <1>5. Len(RootDir) = n  BY <1>1, <1>2
  <1>6. \A k \in 1..n : RootDir[k] = f(k)  BY <1>2
  <1>7. 1 \in 1..n /\ 2 \in 1..n /\ \A k \in 3..n : k \in 1..n /\ k # 1 /\ k # 2  BY <1>1
  <1>8. \A k \in 3..n : RootDir[k].inum = 0  BY <1>4, <1>6, <1>7
  <1>9. QED  BY <1>1, <1>3, <1>5, <1>6, <1>7, <1>8

\* The state that the kernel starts in
LEMMA NameInit == Init => NameInv
  <1> SUFFICES ASSUME Init PROVE NameInv  OBVIOUS
  <1>1. DiskInv /\ DiskOK(disk) /\ RefInv  BY DiskInit DEF DiskInv
  <1>2. ROOTINO \in Inum /\ 1 \in Slot /\ 0 \notin Inum
    BY FsAssumption, InodeAssumption DEF FsAssumption, InodeAssumption, Slot, ROOTINO, Inum
  <1>3. /\ disk.inode[ROOTINO] = Root /\ disk.content[ROOTINO] = RootDir
        /\ \A i \in Inum : i # ROOTINO => disk.inode[i] = FreeInode /\ disk.content[i] = <<>>
    <2> DEFINE N == [i \in Inum |-> IF i = ROOTINO THEN Root ELSE FreeInode]
               B == [b \in Block |-> NoBlocks]
               U == {1}
               C == [i \in Inum |-> IF i = ROOTINO THEN RootDir ELSE <<>>]
    <2>1. disk = Dsk(N, B, U, C)  BY DEF Init, Dsk
    <2>2. disk.inode = N /\ disk.content = C
      <3> HIDE DEF N, B, U, C
      <3>1. QED  BY <2>1, DskFields
    <2>3. QED  BY <1>2, <2>2
  <1>4. Root.type = "dir" /\ Root.nlink = 1 /\ FreeInode.type = "none"
    BY FreeInodeIs, RootIs DEF Root
  <1>5. \A d \in Inum : IsDirOn(disk, d) <=> d = ROOTINO  BY <1>2, <1>3, <1>4 DEF IsDirOn
  <1>6. ASSUME NEW d, NEW k, NEW i, Says(disk, d, k, i) PROVE i = 0
    <2>1. d = ROOTINO /\ k \in 3..Len(RootDir) /\ RootDir[k].inum = i
      BY <1>3, <1>5, <1>6 DEF Says
    <2>2. QED  BY <2>1, RootEntries
  <1>7. Complete(disk, ROOTINO) /\ disk.content[ROOTINO][2].inum = ROOTINO
    <2>1. RootDir[1].name = "." /\ RootDir[1].inum = ROOTINO
          /\ RootDir[2].name = ".." /\ RootDir[2].inum = ROOTINO
      BY RootEntries
    <2>2. ROOTINO # 0 /\ Len(RootDir) >= 2  BY <1>2, RootEntries
    <2>3. QED  BY <1>3, <2>1, <2>2 DEF Complete
  <1>8. Tree(disk)  BY <1>2, <1>5, <1>6, <1>7 DEF Tree
  <1>9. ASSUME NEW i, i \in Inum PROVE Covers(disk, i, Cardinality(Between(i)))
    <2>1. Between(i) = {}  BY DEF Between, Init
    <2>2. Cardinality(Between(i)) = 0  BY <2>1, FS_EmptySet
    <2>3. ASSUME NEW a, NEW m, Link(disk, a, m, i)
          PROVE  a = ROOTINO /\ m = 2 /\ i = ROOTINO
      <3>1. ~Says(disk, a, m, i)  BY <1>2, <1>6, <1>9
      <3>2. m = 2 /\ Up(disk, a, i)  BY <2>3, <3>1 DEF Link
      <3>3. a = ROOTINO  BY <1>5, <3>2 DEF Up
      <3>4. QED  BY <1>7, <3>2, <3>3 DEF Up
    <2>4. PICK x, S : x = <<ROOTINO, 2>> /\ S = {x}  OBVIOUS
    <2>5. \A y : y \in Linked(disk, i) => y = x /\ i = ROOTINO
      <3>1. \A y : y \in Linked(disk, i) <=> \E a, m : y = <<a, m>> /\ Link(disk, a, m, i)
        BY <1>1, LinkedIs
      <3>2. QED  BY <2>3, <2>4, <3>1
    <2>6. CASE i = ROOTINO
      <3>1. IsFiniteSet(S) /\ Cardinality(S) = 1  BY <2>4, FS_Singleton
      <3>2. Linked(disk, i) \subseteq S  BY <2>4, <2>5
      <3>3. IsFiniteSet(Linked(disk, i)) /\ Cardinality(Linked(disk, i)) <= 1
            /\ Cardinality(Linked(disk, i)) \in Nat
        BY <3>1, <3>2, FS_Subset, FS_CardinalityType
      <3>4. i \in Alloc(disk) /\ disk.inode[i].nlink = 1  BY <1>3, <1>4, <1>9, <2>6 DEF Alloc
      <3>5. QED  BY <2>2, <3>3, <3>4 DEF Covers
    <2>7. CASE i # ROOTINO
      <3>1. Linked(disk, i) = {}  BY <2>5, <2>7
      <3>2. i \notin Alloc(disk)  BY <1>3, <1>4, <1>9, <2>7 DEF Alloc
      <3>3. IsFiniteSet({})  BY FS_EmptySet
      <3>4. QED  BY <2>2, <3>1, <3>2, <3>3 DEF Covers
    <2>8. QED  BY <2>6, <2>7
  <1>10. ASSUME NEW p \in Proc PROVE Knows(p)
    <2>1. /\ pc[p] = "user" /\ cur[p] = 0 /\ ip[p] = 0 /\ cwd[p] = 1 /\ fd[p] = 0
          /\ rest[p] = <<>> /\ putting[p] = "no"
      BY <1>10 DEF Init
    <2>2. Ino(1) = ROOTINO
      <3>1. itable[1] = [FreeEntry EXCEPT !.inum = ROOTINO, !.ref = Cardinality(Proc)]
        BY <1>2 DEF Init
      <3>2. QED  BY <3>1 DEF Ino, FreeEntry
    <2>3. OnDisk(1) /\ IsDirOn(disk, Ino(1)) /\ Complete(disk, Ino(1))
      BY <1>2, <1>5, <1>7, <2>2 DEF OnDisk, IsDirOn
    <2>4. Rests(p)  BY <2>1 DEF Rests
    <2>5. \A s \in Slot : ~Frees(p, s)  BY <2>1 DEF Frees
    <2>6. QED  BY <2>1, <2>3, <2>4, <2>5 DEF Knows
  <1>11. QED  BY <1>1, <1>8, <1>9, <1>10 DEF NameInv

\* A step that changes nothing
LEMMA NameStutter == ASSUME NameInv, UNCHANGED vars PROVE NameInv'
  <1>1. /\ holder' = holder /\ pc' = pc /\ call' = call /\ rest' = rest /\ cur' = cur /\ ip' = ip
        /\ cwd' = cwd /\ fd' = fd /\ todo' = todo /\ putting' = putting /\ itable' = itable
        /\ disk' = disk
    BY DEF vars, fsVars, callVars
  <1>2. DiskInv'  BY DiskStutter DEF NameInv
  <1>3. Tree(disk')  BY <1>1 DEF NameInv
  <1>4. ASSUME NEW i, i \in Inum PROVE Covers(disk', i, Cardinality(Between(i)'))
    <2>1. Between(i)' = Between(i)  BY <1>1 DEF Between, Ino
    <2>2. Covers(disk, i, Cardinality(Between(i)))  BY <1>4 DEF NameInv
    <2>3. QED  BY <1>1, <2>1, <2>2
  <1>5. ASSUME NEW p \in Proc PROVE Knows(p)'
    <2>1. Knows(p)  BY DEF NameInv
    <2>2. \A s : /\ Frees(p, s)' <=> Frees(p, s)
                 /\ OnDisk(s)' <=> OnDisk(s)
                 /\ Enters(s)' <=> Enters(s)
                 /\ Alone(p, s)' <=> Alone(p, s)
      BY <1>1 DEF Frees, Todo, OnDisk, Enters, Alone, Ino
    <2>3. Rests(p)' <=> Rests(p)  BY <1>1 DEF Rests
    <2>4. QED  BY <1>1, <2>1, <2>2, <2>3 DEF Knows, Ino
  <1>6. QED  BY <1>1, <1>2, <1>3, <1>4, <1>5 DEF NameInv, Covers

\* Every step keeps the invariant, for calls whose paths have no "..".
LEMMA NameNext == ASSUME NoDotdot PROVE NameInv /\ [Next]_vars => NameInv'
  <1> SUFFICES ASSUME NameInv, [Next]_vars PROVE NameInv'  OBVIOUS
  <1>1. CASE UNCHANGED vars  BY <1>1, NameStutter
  <1>2. ASSUME NEW p \in Proc, Iput(p) PROVE NameInv'
    BY <1>2, NameIunlock, NameIputDrop, NameIputLock, NameIputFree DEF Iput
  <1>3. ASSUME NEW p \in Proc, Walk(p) \/ WalkEnd(p) \/ Chdir(p) PROVE NameInv'
    BY <1>3, NameWalk, NameWalkEnd, NameChdir
  <1>4. ASSUME NEW p \in Proc, NEW c \in Call[p], Syscall(p, c) PROVE NameInv'
    BY <1>4, NameSyscall
  <1>5. ASSUME NEW p \in Proc, NEW full \in BOOLEAN, Open(p, full) \/ Created(p, full)
        PROVE  NameInv'
    BY <1>5, NameOpen, NameCreated
  <1>6. ASSUME NEW p \in Proc, FileWrite(p) \/ FileClose(p) PROVE NameInv'
    BY <1>6, NameFileWrite, NameFileClose
  <1>7. ASSUME NEW p \in Proc, Link1(p) \/ LinkParent(p) \/ Link2(p) \/ LinkBad(p) PROVE NameInv'
    BY <1>7, NameLink1, NameLinkParent, NameLink2, NameLinkBad
  <1>8. ASSUME NEW p \in Proc, Unlink1(p) \/ Unlink2(p) \/ Unlink3(p) PROVE NameInv'
    BY <1>8, NameUnlink1, NameUnlink2, NameUnlink3
  <1>9. ASSUME NEW p \in Proc, Create1(p) \/ Exists(p) \/ Create2(p) PROVE NameInv'
    BY <1>9, NameCreate1, NameExists, NameCreate2
  <1>10. QED  BY <1>1, <1>2, <1>3, <1>4, <1>5, <1>6, <1>7, <1>8, <1>9 DEF Next

\* The links that LinksCoverNames counts
LEMMA LinksAre ==
    ASSUME DiskOK(disk), NEW i, i \in Inum PROVE LinksTo(i) \subseteq Linked(disk, i)
  <1>1. 0 \notin Inum  BY InodeAssumption DEF Inum, InodeAssumption
  <1>2. ASSUME NEW x, x \in Names
        PROVE  \E a, m : x = <<a, m>> /\ Says(disk, a, m, Target(x))
    <2>1. PICK d \in Dirs :
             x \in {d} \X {k \in 3..Len(disk.content[d]) : disk.content[d][k].inum # 0}
      BY <1>2 DEF Names
    <2>2. PICK k : x = <<d, k>> /\ k \in 3..Len(disk.content[d])  BY <2>1
    <2>3. Target(x) = disk.content[d][k].inum  BY <2>2 DEF Target
    <2>4. QED  BY <2>2, <2>3 DEF Says, Dirs, IsDirOn
  <1>3. ASSUME NEW x, x \in LinksTo(i) PROVE \E a, m : x = <<a, m>> /\ Link(disk, a, m, i)
    <2>1. x \in Names \cup Dotdots /\ Target(x) = i  BY <1>3 DEF LinksTo
    <2>2. CASE x \in Names  BY <1>2, <2>1, <2>2 DEF Link
    <2>3. CASE x \in Dotdots
      <3>1. PICK d : x = <<d, 2>> /\ d \in Dirs /\ d \in Named /\ Len(disk.content[d]) >= 2
        BY <2>3 DEF Dotdots
      <3>2. Target(x) = disk.content[d][2].inum  BY <3>1 DEF Target
      <3>3. HasName(disk, d)
        <4>1. CASE d = ROOTINO  BY <4>1 DEF HasName
        <4>2. CASE d # ROOTINO
          <5>1. PICK y \in Names : d = Target(y)  BY <3>1, <4>2 DEF Named
          <5>2. QED  BY <1>2, <5>1 DEF HasName
        <4>3. QED  BY <4>1, <4>2
      <3>4. Up(disk, d, i)  BY <2>1, <3>1, <3>2, <3>3 DEF Up, Dirs, IsDirOn
      <3>5. QED  BY <3>1, <3>4 DEF Link
    <2>4. QED  BY <2>1, <2>2, <2>3
  <1>4. QED  BY <1>3, LinkedIs

\* No inode has fewer links than names, for any number of processes, inodes, blocks and
\* slots and for all calls whose paths have no "..": sys_link() counts before it writes
\* the name, sys_unlink() after it has erased it, and create() before it writes the name.
THEOREM LinksCover == ASSUME NoDotdot PROVE Spec => []LinksCoverNames
  <1>1. NameInv => LinksCoverNames
    <2> SUFFICES ASSUME NameInv, NEW i, i \in Inum
                 PROVE  LET links == Cardinality(LinksTo(i)) + Cardinality(Between(i))
                        IN  IF i \in Allocated THEN disk.inode[i].nlink >= links ELSE links = 0
      BY DEF LinksCoverNames
    <2>1. DiskOK(disk)  BY DEF NameInv, DiskInv
    <2>2. PICK b, c, L : /\ b = Cardinality(Between(i)) /\ c = Cardinality(LinksTo(i))
                         /\ L = Linked(disk, i)
      OBVIOUS
    <2>3. b \in Nat
      <3>1. Between(i) \subseteq Proc  BY DEF Between
      <3>2. IsFiniteSet(Between(i))  BY <3>1, FsAssumption, FS_Subset DEF FsAssumption
      <3>3. QED  BY <2>2, <3>2, FS_CardinalityType
    <2>4. Covers(disk, i, b)  BY <2>2 DEF NameInv
    <2>5. IsFiniteSet(L) /\ LinksTo(i) \subseteq L  BY <2>1, <2>2, <2>4, LinksAre DEF Covers
    <2>6. c \in Nat /\ Cardinality(L) \in Nat /\ c <= Cardinality(L)
      BY <2>2, <2>5, FS_Subset, FS_CardinalityType
    <2>7. disk.inode[i].nlink \in Int  BY <2>1, NlinkInt
    <2>8. CASE i \in Allocated
      <3>1. i \in Alloc(disk)  BY <2>8 DEF Allocated, Alloc
      <3>2. disk.inode[i].nlink >= Cardinality(L) + b  BY <2>2, <2>4, <3>1 DEF Covers
      <3>3. disk.inode[i].nlink >= c + b  BY <2>3, <2>6, <2>7, <3>2
      <3>4. QED  BY <2>2, <2>8, <3>3
    <2>9. CASE i \notin Allocated
      <3>1. i \notin Alloc(disk)  BY <2>9 DEF Allocated, Alloc
      <3>2. L = {} /\ b = 0  BY <2>2, <2>4, <3>1 DEF Covers
      <3>3. Cardinality(L) = 0  BY <3>2, FS_EmptySet
      <3>4. c + b = 0  BY <2>3, <2>6, <3>2, <3>3
      <3>5. QED  BY <2>2, <2>9, <3>4
    <2>10. QED  BY <2>8, <2>9
  <1>2. NameInv /\ [Next]_vars => NameInv'  BY NameNext
  <1>3. QED  BY <1>1, <1>2, NameInit, PTL DEF Spec

\* The panics of ilock(), dirlookup() and sys_unlink() are not reached either, for all
\* calls whose paths have no "..": what a call, a current directory or an open file
\* points to is allocated, and what unlink() has looked up has a link.
THEOREM NeverPanics == ASSUME NoDotdot PROVE Spec => []NoPanic
  <1>1. NameInv /\ IputSafe => NoPanic
    <2> SUFFICES ASSUME NameInv, NEW p \in Proc
                 PROVE  /\ fd[p] # 0 => Loaded(fd[p]).type # "none"
                        /\ Loaded(cwd[p]).type = "dir"
                        /\ \A s \in Wants(p) : Free(s) => Loaded(s).type # "none"
                        /\ At(p, "link2") \/ At(p, "unlink1") \/ At(p, "create1")
                              => Loaded(cur[p]).type = "dir"
                        /\ At(p, "unlink2") /\ Free(ip[p]) => Loaded(ip[p]).nlink >= 1
      BY DEF NoPanic
    <2>1. DiskInv /\ RefInv /\ Knows(p) /\ Place(p) /\ Stage(p) /\ DiskOK(disk) /\ 0 \notin Slot
      BY PlaceFacts DEF NameInv, DiskInv
    <2>2. ASSUME NEW s, Refers(p, s), s # 0
          PROVE  Loaded(s) = disk.inode[Ino(s)] /\ OnDisk(s)
      <3>1. s \in Slot  BY <2>1, <2>2, PlaceFacts DEF Refers
      <3>2. Points(p, s)  BY <2>2 DEF Refers, Points
      <3>3. itable[s].ref > 0  BY <2>1, <3>1, <3>2, Counted1
      <3>4. OnDisk(s)  BY <2>1, <2>2 DEF Refers, Knows
      <3>5. QED  BY <2>1, <3>1, <3>3, <3>4, OwnIs
    <2>3. ASSUME NEW s, Refers(p, s), s # 0 PROVE Loaded(s).type # "none"
      BY <2>2, <2>3 DEF OnDisk
    <2>4. /\ fd[p] # 0 => Refers(p, fd[p])
          /\ cur[p] # 0 => Refers(p, cur[p])
          /\ ip[p] # 0 => Refers(p, ip[p])
          /\ cwd[p] # 0 /\ Refers(p, cwd[p])
      BY <2>1, PlaceFacts DEF Refers
    <2>5. fd[p] # 0 => Loaded(fd[p]).type # "none"  BY <2>3, <2>4
    <2>6. Loaded(cwd[p]).type = "dir"  BY <2>1, <2>2, <2>4 DEF Knows, IsDirOn
    <2>7. ASSUME NEW s, s \in Wants(p) PROVE Loaded(s).type # "none"
      <3>1. CASE pc[p] \in {"open", "chdir", "link1", "link2", "unlink1", "create1"}
        <4>1. s = cur[p] /\ cur[p] # 0  BY <2>1, <2>7, <3>1 DEF Wants, Place
        <4>2. QED  BY <2>3, <2>4, <4>1
      <3>2. CASE pc[p] \in {"namei", "parent"}
        <4>1. s = cur[p] /\ cur[p] # 0  BY <2>1, <2>7, <3>2 DEF Wants, Place
        <4>2. QED  BY <2>3, <2>4, <4>1
      <3>3. CASE pc[p] \in {"linkbad", "unlink2", "unlink3", "exists", "create2"}
        <4>1. s = ip[p] /\ ip[p] # 0  BY <2>1, <2>7, <3>3 DEF Wants, Place
        <4>2. QED  BY <2>3, <2>4, <4>1
      <3>4. QED  BY <2>7, <3>1, <3>2, <3>3 DEF Wants
    <2>8. ASSUME At(p, "link2") \/ At(p, "unlink1") \/ At(p, "create1")
          PROVE  Loaded(cur[p]).type = "dir"
      <3>1. pc[p] \in {"link2", "unlink1", "create1"}  BY <2>8 DEF At
      <3>2. cur[p] # 0 /\ IsDirOn(disk, Ino(cur[p]))  BY <2>1, <3>1 DEF Place, Knows
      <3>3. QED  BY <2>2, <2>4, <3>2 DEF IsDirOn
    <2>9. ASSUME At(p, "unlink2") PROVE Loaded(ip[p]).nlink >= 1
      <3>1. pc[p] = "unlink2"  BY <2>9 DEF At
      <3>2. ip[p] # 0 /\ cur[p] # 0  BY <2>1, <3>1 DEF Place
      <3>3. PICK d, g, t, name, k :
               /\ d = cur[p] /\ g = Ino(d) /\ t = Ino(ip[p]) /\ name = Elem(rest[p])
               /\ k = Dirlookup(disk, g, name)
        OBVIOUS
      <3>4. /\ g \in Inum /\ t \in Inum /\ IsDirOn(disk, g) /\ Complete(disk, g)
            /\ name # ".." /\ name # "." /\ k # 0 /\ disk.content[g][k].inum = t
        <4>1. g \in Inum /\ t \in Inum  BY <2>1, <3>2, <3>3, PointsInum
        <4>2. IsDirOn(disk, g) /\ k # 0  BY <2>1, <3>1, <3>3 DEF Stage, IsDirOn
        <4>3. Complete(disk, g)  BY <2>1, <3>2, <3>3, <4>2 DEF Knows, Enters
        <4>4. name # ".." /\ name # "." /\ disk.content[g][k].inum = t
          BY <2>1, <3>1, <3>3 DEF Knows
        <4>5. QED  BY <4>1, <4>2, <4>3, <4>4
      <3>5. Says(disk, g, k, disk.content[g][k].inum)
        <4>1. k = Dirlookup(disk, g, name)  BY <3>3
        <4>2. QED  BY ONLY <2>1, <3>4, <4>1, LookupIs
      <3>6. Says(disk, g, k, t)  BY <3>4, <3>5
      <3>7. disk.inode[t].nlink >= 1  BY <3>4, <3>6, NamedIs
      <3>8. Loaded(ip[p]) = disk.inode[t]  BY <2>2, <2>4, <3>2, <3>3
      <3>9. QED  BY <3>7, <3>8
    <2>10. QED  BY <2>5, <2>6, <2>7, <2>8, <2>9
  <1>2. NameInv /\ [Next]_vars => NameInv'  BY NameNext
  <1>3. QED  BY <1>1, <1>2, NameInit, IputIsSafe, PTL DEF Spec
=============================================================================
