--------------------------------- MODULE Fs ---------------------------------
(***************************************************************************)
(* Directories, path names and the calls that use them: iget, ilock, iput, *)
(* dirlookup, dirlink, namex (fs.c, second half), link, unlink, open,      *)
(* mkdir, mknod, chdir (sysfile.c), and the writes and closes of an inode  *)
(* file (file.c).                                                          *)
(*                                                                         *)
(* What a process does from one ilock() to the iunlock() is one action,    *)
(* unless it waits for a second lock or enters itable.lock twice.  An      *)
(* iput() is a task of its own that the process does before it goes on.    *)
(* All of it runs inside begin_op() and end_op() (module Log).             *)
(***************************************************************************)
EXTENDS Inode

CONSTANTS Proc,
          Call,       \* bound: the calls a process makes: op, path, new
          MAXLINK,    \* bound: link() is not called once a file has this many links
          None

ROOTINO == 1

\* A file system has a root directory, whose inode has an entry in itable.
ASSUME FsAssumption ==
    /\ ninodes > 1 /\ nblocks > 0 /\ NINODE > 0
    /\ IsFiniteSet(Proc) /\ None \notin Proc
    /\ \A p \in Proc : \A c \in Call[p] :
           /\ c.op \in {"open", "trunc", "chdir", "link", "unlink", "create", "mkdir", "mknod"}
           /\ c.path \in Seq(STRING)
           /\ c.op = "link" => c.new \in Seq(STRING)

VARIABLES holder,     \* ip->lock of each slot: the process or None
          pc, call,
          rest,       \* what namex() has left of the path
          cur, ip,    \* slots the call refers to, 0 for none: of namex and the
                      \* directory it returns; of the inode besides
          cwd, fd,    \* slots of p->cwd and of the one file a process has open
          todo,       \* iput() and iunlock() calls that come next
          putting     \* where the iput() at the head of todo is

fsVars   == <<disk, itable, holder>>
callVars == <<pc, call, rest, cur, ip>>
vars == <<fsVars, callVars, cwd, fd, todo, putting>>

Put(s)    == [do |-> "put", slot |-> s]
Unlock(s) == [do |-> "unlock", slot |-> s]
Ino(s)    == itable[s].inum
Free(s)   == holder[s] = None
\* ilock() panics on a free inode, and the kernel stops.
Ilock(s)  == Free(s) /\ Loaded(s).type # "none"
Absolute(path) == path # <<>> /\ Head(path) = "/"
\* skipelem(): a path is the sequence of its elements
Elem(path) == Head(path)
Rest(path) == Tail(path)

\* mkfs rounds the size of the root directory up; the entries after "." and ".."
\* are empty.  (It also makes the files of user programs, which are left out.)
RootDir == [k \in 1..((2 \div DPB + 1) * DPB) |->
              CASE k = 1 -> [name |-> ".", inum |-> ROOTINO]
                [] k = 2 -> [name |-> "..", inum |-> ROOTINO]
                [] OTHER -> [name |-> "", inum |-> 0]]
Root    == [type |-> "dir", nlink |-> 1, addrs |-> [FreeInode.addrs EXCEPT ![0] = 1]]

\* mkfs made the root directory; every process is in it.
Init ==
    /\ disk = [inode   |-> [i \in Inum |-> IF i = ROOTINO THEN Root ELSE FreeInode],
               ind     |-> [b \in Block |-> NoBlocks], used |-> {1},
               content |-> [i \in Inum |-> IF i = ROOTINO THEN RootDir ELSE <<>>]]
    /\ itable = [s \in Slot |->
                   IF s # 1 THEN FreeEntry
                   ELSE [FreeEntry EXCEPT !.inum = ROOTINO, !.ref = Cardinality(Proc)]]
    /\ holder = [s \in Slot |-> None]
    /\ pc = [p \in Proc |-> "user"] /\ call = [p \in Proc |-> None]
    /\ rest = [p \in Proc |-> <<>>]
    /\ cur = [p \in Proc |-> 0] /\ ip = [p \in Proc |-> 0]
    /\ cwd = [p \in Proc |-> 1] /\ fd = [p \in Proc |-> 0]
    /\ todo = [p \in Proc |-> <<>>] /\ putting = [p \in Proc |-> "no"]

At(p, l) == pc[p] = l /\ todo[p] = <<>>
Then(p, l, tasks) == pc' = [pc EXCEPT ![p] = l] /\ todo' = [todo EXCEPT ![p] = tasks]
Forget(f, p) == f' = [f EXCEPT ![p] = 0]

\* The call returns, after the tasks.
Return(p, tasks) ==
    /\ Then(p, "user", tasks)
    /\ call' = [call EXCEPT ![p] = None] /\ rest' = [rest EXCEPT ![p] = <<>>]
    /\ Forget(cur, p) /\ Forget(ip, p)

-----------------------------------------------------------------------------
(* iput(), and the iunlock() before it                                      *)

Todo(p) == Head(todo[p]).slot
Doing(p, what, phase) == /\ todo[p] # <<>> /\ Head(todo[p]).do = what
                         /\ putting[p] = phase
Done(p) == todo' = [todo EXCEPT ![p] = Tail(@)]

Iunlock(p) ==
    /\ Doing(p, "unlock", "no")
    /\ holder' = [holder EXCEPT ![Todo(p)] = None] /\ Done(p)
    /\ UNCHANGED <<disk, itable, callVars, cwd, fd, putting>>

\* No links and no other references: the inode must be freed
NoLinks(s)  == itable[s].valid /\ itable[s].ino.nlink = 0               \* mutant
MustFree(s) == itable[s].ref = 1 /\ itable[s].valid /\ itable[s].ino.nlink = 0

Dropped(e) == IF e.ref = 1 THEN FreeEntry ELSE [e EXCEPT !.ref = @ - 1]

IputDrop(p) ==
    /\ \/ Doing(p, "put", "no") /\ ~MustFree(Todo(p))
       \/ Doing(p, "put", "drop")
    /\ itable' = [itable EXCEPT ![Todo(p)] = Dropped(@)]
    /\ putting' = [putting EXCEPT ![p] = "no"] /\ Done(p)
    /\ UNCHANGED <<disk, holder, callVars, cwd, fd>>

\* acquiresleep(&ip->lock) while itable.lock is held
IputLock(p) ==
    /\ Doing(p, "put", "no") /\ MustFree(Todo(p)) /\ Free(Todo(p))
    /\ holder' = [holder EXCEPT ![Todo(p)] = p]
    /\ putting' = [putting EXCEPT ![p] = "free"]
    /\ UNCHANGED <<disk, itable, callVars, cwd, fd, todo>>

IputFree(p) ==
    LET s == Todo(p)
        D == Itrunc(Own(disk, s), Ino(s))
    IN  /\ Doing(p, "put", "free")
        /\ disk' = [D EXCEPT !.inode[Ino(s)].type = "none"]
        /\ itable' = [itable EXCEPT ![s].valid = FALSE, ![s].ino = FreeInode]
        /\ holder' = [holder EXCEPT ![s] = None]
        /\ putting' = [putting EXCEPT ![p] = "drop"]
        /\ UNCHANGED <<callVars, cwd, fd, todo>>

-----------------------------------------------------------------------------
(* Directories and path names                                               *)

\* dirlookup() panics when it is asked about anything else.
IsDir(s) == Loaded(s).type = "dir"

\* The index of a name's entry, 0 if there is none
Dirlookup(D, i, name) ==
    LET at == {k \in DOMAIN D.content[i] : D.content[i][k].inum # 0
                                           /\ D.content[i][k].name = name}
    IN  IF at = {} THEN 0 ELSE Least(at)

EmptyEntry(D, i) ==
    Least({k \in DOMAIN D.content[i] : D.content[i][k].inum = 0} \cup {Len(D.content[i]) + 1})

Dirlink(D, i, name, inum) ==
    IF Dirlookup(D, i, name) # 0 THEN [disk |-> D, ok |-> FALSE]
    ELSE Writei(D, i, EmptyEntry(D, i) - 1, [name |-> name, inum |-> inum])

\* "." and ".." come first
Isdirempty(D, i) == \A k \in 3..Len(D.content[i]) : D.content[i][k].inum = 0

\* The first steps of namex(): iget() of the root, or idup() of p->cwd
Namex(p, path, l) ==
    /\ Absolute(path) => ~NoSlot(ROOTINO)
    /\ itable' = IF Absolute(path) THEN Iget(itable, ROOTINO)
                                   ELSE [itable EXCEPT ![cwd[p]].ref = @ + 1]
    /\ cur' = [cur EXCEPT ![p] = IF Absolute(path) THEN IgetSlot(ROOTINO) ELSE cwd[p]]
    /\ rest' = [rest EXCEPT ![p] = IF Absolute(path) THEN Rest(path) ELSE path]
    /\ Then(p, l, <<>>)

Syscall(p, c) ==
    /\ At(p, "user")
    /\ c.op = "link" => \A i \in Inum : disk.inode[i].type = "file" => disk.inode[i].nlink < MAXLINK
    /\ call' = [call EXCEPT ![p] = c]
    /\ Namex(p, c.path, IF c.op \in {"open", "trunc", "chdir", "link"} THEN "namei" ELSE "parent")
    /\ UNCHANGED <<disk, holder, ip, cwd, fd, putting>>

\* namex() finds nothing
FailedNoPut(p, tasks) ==                                                \* mutant
    IF ip[p] # 0 THEN Then(p, "linkbad", <<>>) /\ Forget(cur, p) /\ UNCHANGED <<call, rest, ip>>
    ELSE Return(p, <<>>)
Failed(p, tasks) ==
    IF ip[p] # 0
    THEN /\ Then(p, "linkbad", tasks) /\ Forget(cur, p)
         /\ UNCHANGED <<call, rest, ip>>
    ELSE Return(p, tasks)

Found(p) ==
    /\ Then(p, CASE call[p].op = "link" -> IF ip[p] = 0 THEN "link1" ELSE "link2"
                 [] call[p].op = "chdir" -> "chdir"
                 [] call[p].op \in {"open", "trunc"} -> "open"
                 [] call[p].op = "unlink" -> "unlink1"
                 [] OTHER -> "create1", <<>>)
    /\ UNCHANGED <<call, rest, cur, ip>>

\* One turn of namex(): ilock(), dirlookup() with its iget(), iunlock()
Walk(p) ==
    LET s == cur[p]
        n == Loaded(s)
        k == Dirlookup(disk, Ino(s), Elem(rest[p]))
        i == disk.content[Ino(s)][k].inum
    IN  /\ \E l \in {"namei", "parent"} : At(p, l)
        /\ rest[p] # <<>> /\ Ilock(s)
        /\ IF n.type # "dir" \/ (k = 0 /\ ~(pc[p] = "parent" /\ Len(rest[p]) = 1))
           THEN itable' = Load(itable, s, n) /\ Failed(p, <<Put(s)>>)
           ELSE IF pc[p] = "parent" /\ Len(rest[p]) = 1
           THEN itable' = Load(itable, s, n) /\ Found(p)
           ELSE /\ ~NoSlot(i)
                /\ itable' = Iget(Load(itable, s, n), i)
                /\ cur' = [cur EXCEPT ![p] = IgetSlot(i)]
                /\ rest' = [rest EXCEPT ![p] = Rest(@)]
                /\ Then(p, pc[p], <<Put(s)>>)
                /\ UNCHANGED <<call, ip>>
        /\ UNCHANGED <<disk, holder, cwd, fd, putting>>

\* namex() has come to the end of the path
WalkEnd(p) ==
    /\ \E l \in {"namei", "parent"} : At(p, l)
    /\ rest[p] = <<>>
    /\ IF pc[p] = "parent" THEN Failed(p, <<Put(cur[p])>>) ELSE Found(p)
    /\ UNCHANGED <<fsVars, cwd, fd, putting>>

-----------------------------------------------------------------------------
(* open(), chdir(), and the file that is open                               *)

Open(p, full) ==
    LET s == cur[p]
        n == Loaded(s)
        trunc == call[p].op = "trunc"
        bad == (n.type = "dir" /\ trunc) \/ fd[p] # 0 \/ full
        D == IF trunc /\ n.type = "file" /\ ~bad THEN Itrunc(Own(disk, s), Ino(s)) ELSE disk
    IN  /\ At(p, "open") /\ Ilock(s)
        /\ disk' = D
        /\ itable' = Load(itable, s, IF D = disk THEN n ELSE D.inode[Ino(s)])
        /\ fd' = IF bad THEN fd ELSE [fd EXCEPT ![p] = s]
        /\ Return(p, IF bad THEN <<Put(s)>> ELSE <<>>)
        /\ UNCHANGED <<holder, cwd, putting>>

Chdir(p) ==
    LET s == cur[p]
        n == Loaded(s)
    IN  /\ At(p, "chdir") /\ Ilock(s)
        /\ itable' = Load(itable, s, n)
        /\ cwd' = IF n.type = "dir" THEN [cwd EXCEPT ![p] = s] ELSE cwd
        /\ Return(p, <<Put(IF n.type = "dir" THEN cwd[p] ELSE s)>>)
        /\ UNCHANGED <<disk, holder, fd, putting>>

\* filewrite() of one block at the end of the file (one before it changes nothing
\* that is kept here)
FileWrite(p) ==
    LET s == fd[p]
        i == Ino(s)
        w == Writei(Own(disk, s), i, Len(disk.content[i]), "data")
    IN  /\ At(p, "user") /\ s # 0 /\ Free(s) /\ Loaded(s).type = "file"
        /\ disk' = w.disk /\ itable' = Load(itable, s, w.disk.inode[i])
        /\ UNCHANGED <<holder, callVars, cwd, fd, todo, putting>>

FileClose(p) ==
    /\ At(p, "user") /\ fd[p] # 0
    /\ todo' = [todo EXCEPT ![p] = <<Put(fd[p])>>] /\ Forget(fd, p)
    /\ UNCHANGED <<fsVars, callVars, cwd, putting>>

-----------------------------------------------------------------------------
(* link()                                                                   *)

NotCounted(D, i, k) == D                                                \* mutant
NlinkPlus(D, i, k) == [D EXCEPT !.inode[i].nlink = @ + k]
NlinkLess(D, i)    == [D EXCEPT !.inode[i].nlink = @ - 1]

\* The link count goes up before the new name is there.
Link1(p) ==
    LET s == cur[p]
        n == Loaded(s)
        D == NlinkPlus(Own(disk, s), Ino(s), 1)
    IN  /\ At(p, "link1") /\ Ilock(s)
        /\ IF n.type = "dir"
           THEN itable' = Load(itable, s, n) /\ Return(p, <<Put(s)>>) /\ UNCHANGED disk
           ELSE /\ disk' = D /\ itable' = Load(itable, s, D.inode[Ino(s)])
                /\ ip' = [ip EXCEPT ![p] = s] /\ Forget(cur, p)
                /\ Then(p, "link", <<>>)
                /\ UNCHANGED <<call, rest>>
        /\ UNCHANGED <<holder, cwd, fd, putting>>

LinkParent(p) ==
    /\ At(p, "link") /\ Namex(p, call[p].new, "parent")
    /\ UNCHANGED <<disk, holder, call, ip, cwd, fd, putting>>

\* (When the name exists, dirlink() gets and puts its inode: no net effect.)
Link2(p) ==
    LET s == cur[p]
        w == Dirlink(Own(disk, s), Ino(s), Elem(rest[p]), Ino(ip[p]))
    IN  /\ At(p, "link2") /\ Free(s) /\ IsDir(s)
        /\ disk' = w.disk /\ itable' = Load(itable, s, w.disk.inode[Ino(s)])
        /\ IF w.ok THEN Return(p, <<Put(s), Put(ip[p])>>) ELSE Failed(p, <<Put(s)>>)
        /\ UNCHANGED <<holder, cwd, fd, putting>>

LinkBad(p) ==
    LET s == ip[p]
        D == NlinkLess(Own(disk, s), Ino(s))
    IN  /\ At(p, "linkbad") /\ Ilock(s)
        /\ disk' = D /\ itable' = Load(itable, s, D.inode[Ino(s)])
        /\ Return(p, <<Put(s)>>)
        /\ UNCHANGED <<holder, cwd, fd, putting>>

-----------------------------------------------------------------------------
(* unlink()                                                                 *)

Unlink1(p) ==
    LET s == cur[p]
        k == Dirlookup(disk, Ino(s), Elem(rest[p]))
        i == disk.content[Ino(s)][k].inum
    IN  /\ At(p, "unlink1") /\ Free(s) /\ IsDir(s)
        /\ IF Elem(rest[p]) \in {".", ".."} \/ k = 0
           THEN /\ itable' = Load(itable, s, Loaded(s)) /\ Return(p, <<Put(s)>>)
                /\ UNCHANGED holder
           ELSE /\ ~NoSlot(i)
                /\ itable' = Iget(Load(itable, s, Loaded(s)), i)
                /\ holder' = [holder EXCEPT ![s] = p]
                /\ ip' = [ip EXCEPT ![p] = IgetSlot(i)]
                /\ Then(p, "unlink2", <<>>)
                /\ UNCHANGED <<call, rest, cur>>
        /\ UNCHANGED <<disk, cwd, fd, putting>>

MayUnlink(s) == Loaded(s).type = "dir" => Isdirempty(disk, Ino(s))

Unlink2(p) ==
    LET s == ip[p]
        d == cur[p]
        k == Dirlookup(disk, Ino(d), Elem(rest[p]))
        w == Writei(Own(disk, d), Ino(d), k - 1, [name |-> "", inum |-> 0])
        D == IF Loaded(s).type = "dir" THEN NlinkLess(w.disk, Ino(d)) ELSE w.disk
    IN  /\ At(p, "unlink2") /\ Ilock(s) /\ Loaded(s).nlink >= 1
        /\ IF MayUnlink(s)
           THEN /\ w.ok /\ disk' = D
                /\ itable' = Load(Load(itable, s, Loaded(s)), d, D.inode[Ino(d)])
                /\ holder' = [holder EXCEPT ![s] = p, ![d] = None]
                /\ Forget(cur, p) /\ Then(p, "unlink3", <<Put(d)>>)
                /\ UNCHANGED <<call, rest, ip>>
           ELSE /\ itable' = Load(itable, s, Loaded(s))
                /\ Return(p, <<Put(s), Unlock(d), Put(d)>>)
                /\ UNCHANGED <<disk, holder>>
        /\ UNCHANGED <<cwd, fd, putting>>

Unlink3(p) ==
    LET s == ip[p]
        D == NlinkLess(Own(disk, s), Ino(s))
    IN  /\ At(p, "unlink3")
        /\ disk' = D /\ itable' = Load(itable, s, D.inode[Ino(s)])
        /\ holder' = [holder EXCEPT ![s] = None]
        /\ Return(p, <<Put(s)>>)
        /\ UNCHANGED <<cwd, fd, putting>>

-----------------------------------------------------------------------------
(* create(): open() with O_CREATE, mkdir() and mknod()                      *)

Type(p) == CASE call[p].op = "create" -> "file"
             [] call[p].op = "mkdir" -> "dir"
             [] call[p].op = "mknod" -> "dev"

Create1(p) ==
    LET s == cur[p]
        k == Dirlookup(disk, Ino(s), Elem(rest[p]))
        i == IF k = 0 THEN Least(FreeInums(disk)) ELSE disk.content[Ino(s)][k].inum
        T == Load(itable, s, Loaded(s))
    IN  /\ At(p, "create1") /\ Free(s) /\ IsDir(s)
        /\ IF k = 0 /\ FreeInums(disk) = {}
           THEN itable' = T /\ Return(p, <<Put(s)>>) /\ UNCHANGED <<disk, holder>>
           ELSE /\ ~NoSlot(i)
                /\ itable' = Iget(T, i) /\ ip' = [ip EXCEPT ![p] = IgetSlot(i)]
                /\ IF k # 0
                   THEN /\ Forget(cur, p) /\ Then(p, "exists", <<Put(s)>>)
                        /\ UNCHANGED <<disk, holder>>
                   ELSE /\ disk' = Ialloc(disk, i, Type(p))
                        /\ holder' = [holder EXCEPT ![s] = p]
                        /\ Then(p, "create2", <<>>) /\ UNCHANGED cur
                /\ UNCHANGED <<call, rest>>
        /\ UNCHANGED <<cwd, fd, putting>>

Exists(p) ==
    LET s == ip[p]
        n == Loaded(s)
    IN  /\ At(p, "exists") /\ Ilock(s)
        /\ itable' = Load(itable, s, n)
        /\ IF call[p].op = "create" /\ n.type \in {"file", "dev"}
           THEN /\ holder' = [holder EXCEPT ![s] = p] /\ Then(p, "created", <<>>)
                /\ UNCHANGED <<call, rest, cur, ip>>
           ELSE Return(p, <<Put(s)>>) /\ UNCHANGED holder
        /\ UNCHANGED <<disk, cwd, fd, putting>>

AndThen(w, i, name, inum) == IF w.ok THEN Dirlink(w.disk, i, name, inum) ELSE w

Create2(p) ==
    LET s == ip[p]
        d == cur[p]
        D == [Own(Own(disk, d), s) EXCEPT !.inode[Ino(s)].nlink = 1]
        made == IF Type(p) # "dir" THEN [disk |-> D, ok |-> TRUE]
                ELSE AndThen(Dirlink(D, Ino(s), ".", Ino(s)), Ino(s), "..", Ino(d))
        w == AndThen(made, Ino(d), Elem(rest[p]), Ino(s))
        E == IF ~w.ok THEN [w.disk EXCEPT !.inode[Ino(s)].nlink = 0]
             ELSE NlinkPlus(w.disk, Ino(d), IF Type(p) = "dir" THEN 1 ELSE 0)
    IN  /\ At(p, "create2") /\ Ilock(s)
        /\ disk' = E
        /\ itable' = Load(Load(itable, s, E.inode[Ino(s)]), d, E.inode[Ino(d)])
        /\ IF w.ok
           THEN /\ holder' = [holder EXCEPT ![s] = p, ![d] = None]
                /\ Forget(cur, p) /\ Then(p, "created", <<Put(d)>>)
                /\ UNCHANGED <<call, rest, ip>>
           ELSE Return(p, <<Put(s), Unlock(d), Put(d)>>) /\ UNCHANGED holder
        /\ UNCHANGED <<cwd, fd, putting>>

\* create() has returned the locked inode
Created(p, full) ==
    LET s == ip[p]
        opens == call[p].op = "create" /\ fd[p] = 0 /\ ~full
    IN  /\ At(p, "created")
        /\ holder' = [holder EXCEPT ![s] = None]
        /\ fd' = IF opens THEN [fd EXCEPT ![p] = s] ELSE fd
        /\ Return(p, IF opens THEN <<>> ELSE <<Put(s)>>)
        /\ UNCHANGED <<disk, itable, cwd, putting>>

-----------------------------------------------------------------------------

Iput(p) == Iunlock(p) \/ IputDrop(p) \/ IputLock(p) \/ IputFree(p)

Next == \E p \in Proc :
    \/ Iput(p) \/ Walk(p) \/ WalkEnd(p) \/ Chdir(p)
    \/ \E c \in Call[p] : Syscall(p, c)
    \/ \E full \in BOOLEAN : Open(p, full) \/ Created(p, full)
    \/ FileWrite(p) \/ FileClose(p)
    \/ Link1(p) \/ LinkParent(p) \/ Link2(p) \/ LinkBad(p)
    \/ Unlink1(p) \/ Unlink2(p) \/ Unlink3(p)
    \/ Create1(p) \/ Exists(p) \/ Create2(p)

Spec == Init /\ [][Next]_vars

-----------------------------------------------------------------------------

Allocated == {i \in Inum : disk.inode[i].type # "none"}
Dirs      == {i \in Inum : disk.inode[i].type = "dir"}
\* Directory entries after "." and "..": directory and index
Names     == UNION {{d} \X {k \in 3..Len(disk.content[d]) : disk.content[d][k].inum # 0}
                      : d \in Dirs}
Target(x) == disk.content[x[1]][x[2]].inum
Named     == {Target(x) : x \in Names} \cup {ROOTINO}
\* The ".." of directories that have a name
Dotdots   == {d \in Dirs \cap Named : Len(disk.content[d]) >= 2} \X {2}
LinksTo(i) == {x \in Names \cup Dotdots : Target(x) = i}
\* Calls between a change of nlink and the one of the directory
Between(i) == {p \in Proc : /\ pc[p] \in {"link", "namei", "parent", "link2", "linkbad", "unlink3"}
                            /\ ip[p] # 0 /\ Ino(ip[p]) = i}

\* The k-th task of each process, if it is an iput(): the slot, else 0
PutAt(k) == [p \in Proc |-> IF k \in DOMAIN todo[p] /\ todo[p][k].do = "put"
                            THEN todo[p][k].slot ELSE 0]
Holds(f, s) == Cardinality({p \in Proc : f[p] = s})

\* ip->ref counts exactly the pointers that calls, current directories, open
\* files and iput() calls to come hold on the slot: none leaks, and no slot is
\* recycled under a pointer, on any error path.
RefsExact ==
    \A s \in Slot :
        itable[s].ref = Holds(cur, s) + Holds(ip, s) + Holds(cwd, s) + Holds(fd, s)
                          + Holds(PutAt(1), s) + Holds(PutAt(2), s) + Holds(PutAt(3), s)

\* No inode has fewer links than names: link() counts before it writes the name,
\* unlink() after it has erased it, so that iput() frees nothing that a directory
\* names.  (It may have more: a file made in a directory that is being removed
\* keeps its link when the directory is freed.)
LinksCoverNames ==
    \A i \in Inum :
        LET links == Cardinality(LinksTo(i)) + Cardinality(Between(i))
        IN  IF i \in Allocated THEN disk.inode[i].nlink >= links ELSE links = 0

\* The bitmap and the inodes agree: every used block hangs from exactly one
\* inode, indirect blocks included, also when the disk has become full half-way.
BlocksAccounted ==
    /\ disk.used = UNION {Blocks(disk, i) : i \in Allocated}
    /\ \A i, j \in Allocated : i # j => Blocks(disk, i) \cap Blocks(disk, j) = {}

\* The slots whose lock a process is about to take, or to use
Wants(p) == IF todo[p] # <<>> THEN {}
            ELSE CASE pc[p] \in {"open", "chdir", "link1", "link2", "unlink1", "create1"}
                                                   -> {cur[p]}
                   [] pc[p] \in {"namei", "parent"} -> IF rest[p] = <<>> THEN {} ELSE {cur[p]}
                   [] pc[p] \in {"linkbad", "unlink2", "unlink3", "exists", "create2"} -> {ip[p]}
                   [] OTHER -> {}

\* iput() frees no block that is free already (the panic of bfree()), and never has to
\* wait for the lock of an inode it frees: "ip->ref == 1 means no other process can
\* have ip locked" (fs.c:344).
IputSafe ==
    \A p \in Proc :
        /\ Doing(p, "put", "free") => Blocks(Own(disk, Todo(p)), Ino(Todo(p))) \subseteq disk.used
        /\ Doing(p, "put", "no") /\ MustFree(Todo(p)) => Free(Todo(p))

\* Nor are the panics of ilock() ("no type"), dirlookup() ("not DIR") and unlink
\* ("nlink < 1") reached.  An open file and a current directory keep their inode when
\* its last name goes, so that read(), write() and namex() can lock it.
NoPanic ==
    /\ IputSafe
    /\ \A p \in Proc :
        /\ fd[p] # 0 => Loaded(fd[p]).type # "none"
        /\ Loaded(cwd[p]).type = "dir"
        /\ \A s \in Wants(p) : Free(s) => Loaded(s).type # "none"
        /\ At(p, "link2") \/ At(p, "unlink1") \/ At(p, "create1") => Loaded(cur[p]).type = "dir"
        /\ At(p, "unlink2") /\ Free(ip[p]) => Loaded(ip[p]).nlink >= 1
=============================================================================
