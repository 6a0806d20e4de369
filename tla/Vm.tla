--------------------------------- MODULE Vm ---------------------------------
(***************************************************************************)
(* Who owns the pages of memory: the page allocator (kalloc.c), user page  *)
(* tables (vm.c), and the calls that build, grow and free an address       *)
(* space: fork, exec, sbrk, exit (proc.c, exec.c, sysproc.c).  Memory may   *)
(* run out at every kalloc(); what was built so far must be given back.    *)
(*                                                                         *)
(* A turn of the loops of uvmalloc() and uvmcopy() is one action, so that  *)
(* the processes compete for pages.  The operators return the state of     *)
(* memory: how many pages are free, one address space, whether the call    *)
(* succeeded, and whether it ran into a panic().  Pages are alike: an      *)
(* owner has a number of them, and what kfree() gets is counted again.     *)
(***************************************************************************)
EXTENDS Integers, Sequences, FiniteSets

CONSTANTS NPROC, NPAGE,
          PGSIZE, PTES,     \* bytes of a page; entries of a page of a page table
          MAXVA,            \* riscv.h, in pages
          W,                \* uint64 has W bits
          Delta,            \* bound: arguments of sbrk()
          Program,          \* bound: the ends (vaddr + memsz) of the segments
          MAXARG            \* bound: arguments of exec()

Proc       == 1..NPROC
TRAMPOLINE == MAXVA - 1
TRAPFRAME  == MAXVA - 2

\* Memory runs out before sbrk() reaches TRAPFRAME (PHYSTOP is far below MAXVA).
ASSUME VmAssumption ==
    /\ {NPROC, NPAGE, PGSIZE, PTES, MAXARG} \subseteq Nat \ {0}
    /\ NPAGE < TRAPFRAME /\ MAXVA <= PTES * PTES * PTES /\ MAXVA * PGSIZE < 2 ^ W
    /\ Delta \subseteq Int

VARIABLES free,             \* the length of kmem.freelist
          state, sz, space, \* struct proc: space is pagetable
          frame,            \* pages p->trapframe points to: 0 or 1
          pc,
          new,              \* the page table exec() builds, or NoSpace
          newsz,            \* its size
          lo, at, hi,       \* uvmalloc(): oldsz, a, newsz; at is also i of uvmcopy()
          segs,             \* program headers to come
          child,            \* np of fork()
          argv,             \* the number of pages that hold arguments of exec()
          panic

call == <<new, newsz, lo, at, hi, segs, child, argv>>
vars == <<free, state, sz, frame, space, pc, call, panic>>

\* The root page, the pages below it by level and index, the mapped addresses,
\* and those of them that have PTE_U
NoSpace == [root |-> 0, tables |-> {}, leaf |-> {}, user |-> {}]
PGROUNDUP(n) == ((n + PGSIZE - 1) \div PGSIZE) * PGSIZE
Pages(n)     == PGROUNDUP(n) \div PGSIZE

-----------------------------------------------------------------------------
(* kalloc.c and vm.c                                                        *)

Mem(F, A) == [free |-> F, as |-> A, ok |-> TRUE, panic |-> FALSE]
NoMemory(M) == [M EXCEPT !.ok = FALSE]
Kalloc(M) == IF M.free = 0 THEN NoMemory(M) ELSE [M EXCEPT !.free = @ - 1]
Kfree(M)  == [M EXCEPT !.free = @ + 1]

\* One level of walk(): the page of the page table, made if it is not there
Level(M, key) ==
    LET k == Kalloc(M)
    IN  IF ~M.ok \/ key \in M.as.tables THEN M
        ELSE IF k.ok THEN [k EXCEPT !.as.tables = @ \cup {key}] ELSE k

Walk(M, va) == Level(Level(M, <<2, va \div (PTES * PTES)>>), <<1, va \div PTES>>)

Mappages(M, va) ==
    LET w == Walk(M, va)
    IN  IF w.ok THEN [w EXCEPT !.as.leaf = @ \cup {va}, !.panic = @ \/ va \in w.as.leaf] ELSE w

Uvmunmap(M, va, npages, do_free) ==
    LET vas == va..(va + npages - 1)
    IN  [M EXCEPT !.free = IF do_free THEN @ + Cardinality(vas \cap M.as.leaf) ELSE @,
                  !.as.leaf = @ \ vas, !.as.user = @ \ vas,
                  !.panic = @ \/ ~(vas \subseteq M.as.leaf)]

Freewalk(M) == [M EXCEPT !.free = @ + Cardinality(M.as.tables) + M.as.root,
                         !.as = NoSpace, !.panic = @ \/ M.as.leaf # {}]

Uvmfree(M, n) == Freewalk(Uvmunmap(M, 0, Pages(n), TRUE))

Uvmcreate(F) ==
    LET k == Kalloc(Mem(F, NoSpace))
    IN  IF k.ok THEN [k EXCEPT !.as.root = 1] ELSE k

Uvmdealloc(M, oldsz, n) ==
    IF n >= oldsz THEN M ELSE Uvmunmap(M, Pages(n), Pages(oldsz) - Pages(n), TRUE)

\* exec(): the page below the stack
Uvmclear(A, va) == [A EXCEPT !.user = @ \ {va}]

\* One page at va: the body of the loops of uvmalloc() and uvmcopy().  A page
\* that cannot be mapped is given back.
MapPageLeak(M, va, flags) ==                                            \* mutant
    IF Kalloc(M).ok THEN Mappages(Kalloc(M), va) ELSE Kalloc(M)
MapPage(M, va, flags) ==
    LET k == Kalloc(M)
        m == Mappages(k, va)
    IN  IF ~k.ok THEN k
        ELSE IF ~m.ok THEN Kfree(m)
        ELSE IF flags THEN [m EXCEPT !.as.user = @ \cup {va}] ELSE m

\* A user may reach the page
Walkaddr(A, va) == va < MAXVA * PGSIZE /\ va \div PGSIZE \in A.user

\* The number of bytes of one turn of the loops below
Chunk(va, len) == LET n == PGSIZE - (va % PGSIZE) IN IF n > len THEN len ELSE n
NextPage(va)   == (va - (va % PGSIZE) + PGSIZE) % (2 ^ W)

\* copyout() and copyin(): whether they succeed, and the user bytes they move
RECURSIVE Copy(_, _, _)
Copy(A, va, len) ==
    IF len = 0 THEN [ok |-> TRUE, bytes |-> {}]
    ELSE IF ~Walkaddr(A, va) THEN [ok |-> FALSE, bytes |-> {}]
    ELSE [Copy(A, NextPage(va), len - Chunk(va, len)) EXCEPT
              !.bytes = @ \cup va..(va + Chunk(va, len) - 1)]

\* copyinstr(): whether it finds a '\0', where the bytes at nul are '\0'
RECURSIVE Copyinstr(_, _, _, _)
Copyinstr(A, va, max, nul) ==
    /\ max > 0 /\ Walkaddr(A, va)
    /\ \/ nul \cap va..(va + Chunk(va, max) - 1) # {}
       \/ Copyinstr(A, NextPage(va), max - Chunk(va, max), nul)

-----------------------------------------------------------------------------
(* Page tables of a process (proc.c)                                        *)

ProcPagetable(F) ==
    LET c  == Uvmcreate(F)
        m1 == Mappages(c, TRAMPOLINE)
        m2 == Mappages(m1, TRAPFRAME)
    IN  IF ~c.ok THEN c
        ELSE IF ~m1.ok THEN Uvmfree(m1, 0)
        ELSE IF ~m2.ok THEN Uvmfree(Uvmunmap(m2, TRAMPOLINE, 1, FALSE), 0)
        ELSE m2

ProcFreepagetable(M, n) ==
    Uvmfree(Uvmunmap(Uvmunmap(M, TRAMPOLINE, 1, FALSE), TRAPFRAME, 1, FALSE), n)

\* The memory side of freeproc(): the trapframe and the page table may be missing
Freeproc(M, fr, n) ==
    LET f == [M EXCEPT !.free = @ + fr]
    IN  IF M.as.root # 0 THEN ProcFreepagetable(f, n) ELSE f

\* allocproc(): on failure freeproc() has been called
Allocproc(F) ==
    LET k == Kalloc(Mem(F, NoSpace))
        m == ProcPagetable(k.free)
    IN  IF ~k.ok THEN k ELSE IF m.ok THEN m ELSE Freeproc(m, 1, 0)

\* kinit(): freerange() puts every page on the free list.
Kinit == NPAGE

\* userinit(): process 1 has one page.
Init ==
    LET m == MapPage(Allocproc(Kinit), 0, TRUE)
        Of(x, y) == [p \in Proc |-> IF p = 1 THEN x ELSE y]
    IN  /\ free = m.free /\ space = Of(m.as, NoSpace) /\ panic = m.panic
        /\ frame = Of(1, 0) /\ sz = Of(PGSIZE, 0)
        /\ state = Of("run", "UNUSED") /\ pc = Of("user", "none")
        /\ new = Of(NoSpace, NoSpace) /\ newsz = Of(0, 0)
        /\ lo = Of(0, 0) /\ at = Of(0, 0) /\ hi = Of(0, 0)
        /\ segs = Of(<<>>, <<>>) /\ child = Of(0, 0) /\ argv = Of(0, 0)

Running(p, l) == state[p] = "run" /\ pc[p] = l
Go(p, l) == pc' = [pc EXCEPT ![p] = l]
Set(f, p, x) == f' = [f EXCEPT ![p] = x]
Panic(M) == panic' = (panic \/ M.panic)

\* The locals of a call that has returned
Forget(p) ==
    /\ Set(new, p, NoSpace) /\ Set(newsz, p, 0) /\ Set(segs, p, <<>>) /\ Set(child, p, 0)
    /\ Set(argv, p, 0) /\ Set(lo, p, 0) /\ Set(at, p, 0) /\ Set(hi, p, 0)

-----------------------------------------------------------------------------
(* uvmalloc(), for sbrk() and exec()                                        *)

\* Starts the loop: from oldsz to n bytes; the address space grows later.
Uvmalloc(p, oldsz, n) ==
    Set(lo, p, PGROUNDUP(oldsz)) /\ Set(at, p, PGROUNDUP(oldsz)) /\ Set(hi, p, n)

Target(p) == IF pc[p] = "sbrk" THEN space[p] ELSE new[p]
SetTarget(p, A) == IF pc[p] = "sbrk" THEN Set(space, p, A) /\ UNCHANGED new
                                     ELSE Set(new, p, A) /\ UNCHANGED space

Allocating(p) == pc[p] \in {"sbrk", "segment", "stack"} /\ at[p] < hi[p]

UvmallocPage(p) ==
    LET m == MapPage(Mem(free, Target(p)), at[p] \div PGSIZE, TRUE)
    IN  /\ state[p] = "run" /\ Allocating(p) /\ m.ok
        /\ free' = m.free /\ SetTarget(p, m.as) /\ Panic(m)
        /\ Set(at, p, at[p] + PGSIZE)
        /\ UNCHANGED <<state, sz, frame, pc, newsz, lo, hi, segs, child, argv>>

\* No memory: what this call added goes back, pages of the page table stay.
NotUndone(p, M) == M                                                    \* mutant
Undo(p, M) == Uvmdealloc(M, at[p], lo[p])

UvmallocFails(p) ==
    LET m == MapPage(Mem(free, Target(p)), at[p] \div PGSIZE, TRUE)
        u == Undo(p, m)
    IN  /\ state[p] = "run" /\ Allocating(p) /\ ~m.ok
        /\ free' = u.free /\ SetTarget(p, u.as) /\ Panic(u)
        /\ Go(p, IF pc[p] = "sbrk" THEN "user" ELSE "bad")
        /\ Set(lo, p, 0) /\ Set(at, p, 0) /\ Set(hi, p, 0)
        /\ UNCHANGED <<state, sz, frame, newsz, segs, child, argv>>

Allocated(p) == pc[p] \in {"sbrk", "segment", "stack"} /\ at[p] >= hi[p]

-----------------------------------------------------------------------------
(* sbrk()                                                                   *)

\* sz + n is computed in an uint64
Sbrk(p, n) ==
    LET size == (sz[p] + n) % (2 ^ W)
        m    == Uvmdealloc(Mem(free, space[p]), sz[p], size)
    IN  /\ Running(p, "user")
        /\ IF n > 0
           THEN /\ Uvmalloc(p, sz[p], size) /\ Go(p, "sbrk")
                /\ UNCHANGED <<free, space, sz, panic>>
           ELSE /\ free' = m.free /\ Set(space, p, m.as) /\ Panic(m)
                /\ Set(sz, p, IF size >= sz[p] THEN sz[p] ELSE size)
                /\ UNCHANGED <<pc, lo, at, hi>>
        /\ UNCHANGED <<state, frame, new, newsz, segs, child, argv>>

SbrkDone(p) ==
    /\ Running(p, "sbrk") /\ Allocated(p)
    /\ Set(sz, p, hi[p]) /\ Go(p, "user")
    /\ Set(lo, p, 0) /\ Set(at, p, 0) /\ Set(hi, p, 0)
    /\ UNCHANGED <<free, state, frame, space, new, newsz, segs, child, argv, panic>>

-----------------------------------------------------------------------------
(* fork(), exit(), and the freeproc() of the parent's wait()                *)

UnusedProcs == {q \in Proc : state[q] = "UNUSED"}

Fork(p) ==
    LET q == CHOOSE x \in UnusedProcs : \A y \in UnusedProcs : x <= y
        a == Allocproc(free)
    IN  /\ Running(p, "user") /\ UnusedProcs # {}
        /\ free' = a.free /\ Panic(a)
        /\ IF a.ok
           THEN /\ Set(state, q, "USED") /\ Set(frame, q, 1) /\ Set(space, q, a.as)
                /\ Set(child, p, q) /\ Go(p, "uvmcopy")
           ELSE UNCHANGED <<state, frame, space, child, pc>>
        /\ UNCHANGED <<sz, new, newsz, lo, at, hi, segs, argv>>

\* PTE_FLAGS() of the parent's page
Flags(p) == at[p] \div PGSIZE \in space[p].user

UvmcopyPage(p) ==
    LET q == child[p]
        m == MapPage(Mem(free, space[q]), at[p] \div PGSIZE, Flags(p))
    IN  /\ Running(p, "uvmcopy") /\ at[p] < sz[p] /\ m.ok
        /\ free' = m.free /\ Set(space, q, m.as)
        /\ panic' = (panic \/ m.panic \/ at[p] \div PGSIZE \notin space[p].leaf)
        /\ Set(at, p, at[p] + PGSIZE)
        /\ UNCHANGED <<state, sz, frame, pc, new, newsz, lo, hi, segs, child, argv>>

\* err: the pages copied so far
CopiedOneMore(p) == at[p] \div PGSIZE + 1                               \* mutant
Copied(p) == at[p] \div PGSIZE

UvmcopyFails(p) ==
    LET q == child[p]
        m == MapPage(Mem(free, space[q]), at[p] \div PGSIZE, Flags(p))
        u == Uvmunmap(m, 0, Copied(p), TRUE)
        f == Freeproc(u, frame[q], sz[q])
    IN  /\ Running(p, "uvmcopy") /\ at[p] < sz[p] /\ ~m.ok
        /\ free' = f.free /\ Set(space, q, f.as) /\ Set(frame, q, 0) /\ Panic(f)
        /\ Set(sz, q, 0) /\ Set(state, q, "UNUSED") /\ Go(p, "user")
        /\ Forget(p)

ForkDone(p) ==
    LET q == child[p]
    IN  /\ Running(p, "uvmcopy") /\ at[p] >= sz[p]
        /\ Set(sz, q, sz[p]) /\ Set(state, q, "run")
        /\ pc' = [pc EXCEPT ![p] = "user", ![q] = "user"]
        /\ Forget(p)
        /\ UNCHANGED <<free, frame, space, panic>>

Exit(p) ==
    /\ Running(p, "user") /\ p # 1
    /\ Set(state, p, "ZOMBIE") /\ Go(p, "none")
    /\ UNCHANGED <<free, sz, frame, space, call, panic>>

Wait(q) ==
    LET f == Freeproc(Mem(free, space[q]), frame[q], sz[q])
    IN  /\ state[q] = "ZOMBIE"
        /\ free' = f.free /\ Set(space, q, f.as) /\ Set(frame, q, 0)
        /\ Set(sz, q, 0) /\ Set(state, q, "UNUSED") /\ Panic(f)
        /\ UNCHANGED <<pc, call>>

-----------------------------------------------------------------------------
(* exec()                                                                   *)

\* sys_exec(): a page for each argument; bad: when there is none, or the
\* argument cannot be fetched.
Sysexec(p) ==
    /\ Running(p, "user")
    /\ Go(p, "args")
    /\ UNCHANGED <<free, state, sz, frame, space, call, panic>>

Fetcharg(p) ==
    /\ Running(p, "args") /\ argv[p] < MAXARG /\ free > 0
    /\ free' = free - 1 /\ Set(argv, p, argv[p] + 1)
    /\ UNCHANGED <<state, sz, frame, space, pc, new, newsz, lo, at, hi, segs, child, panic>>

\* Too many arguments, a bad pointer, no memory, no such file, no ELF header
Execfails(p) ==
    /\ Running(p, "args")
    /\ free' = free + argv[p] /\ Set(argv, p, 0) /\ Go(p, "user")
    /\ UNCHANGED <<state, sz, frame, space, new, newsz, lo, at, hi, segs, child, panic>>

Exec(p, prog) ==
    LET m == ProcPagetable(free)
    IN  /\ Running(p, "args")
        /\ free' = m.free /\ Set(new, p, m.as) /\ Panic(m)
        /\ Set(segs, p, prog) /\ Go(p, IF m.ok THEN "headers" ELSE "bad")
        /\ UNCHANGED <<state, sz, frame, space, newsz, lo, at, hi, child, argv>>

\* The next program header; uvmalloc() keeps the larger size.
NextSegment(p) ==
    /\ Running(p, "headers") /\ segs[p] # <<>>
    /\ Uvmalloc(p, newsz[p], Head(segs[p])) /\ Set(segs, p, Tail(segs[p]))
    /\ Go(p, "segment")
    /\ UNCHANGED <<free, state, sz, frame, space, new, newsz, child, argv, panic>>

\* uvmalloc() has returned (0 stands for an error, and for no bytes), and
\* loadseg() reads the segment: the file may be too short.
Loadseg(p, readi) ==
    LET size == IF hi[p] < newsz[p] THEN newsz[p] ELSE hi[p]
    IN  /\ Running(p, "segment") /\ Allocated(p)
        /\ Set(newsz, p, size) /\ Go(p, IF readi /\ size # 0 THEN "headers" ELSE "bad")
        /\ panic' = (panic \/ ~(0..(Pages(hi[p]) - 1) \subseteq new[p].leaf))
        /\ Set(lo, p, 0) /\ Set(at, p, 0) /\ Set(hi, p, 0)
        /\ UNCHANGED <<free, state, sz, frame, space, new, segs, child, argv>>

\* Two pages at the next page boundary
Stack(p) ==
    LET size == PGROUNDUP(newsz[p])
    IN  /\ Running(p, "headers") /\ segs[p] = <<>>
        /\ Set(newsz, p, size) /\ Uvmalloc(p, size, size + 2 * PGSIZE) /\ Go(p, "stack")
        /\ UNCHANGED <<free, state, sz, frame, space, new, segs, child, argv, panic>>

\* The arguments do not fit on the stack page
ArgsTooLong(p) ==
    /\ Running(p, "stack") /\ Allocated(p)
    /\ Set(newsz, p, hi[p]) /\ Go(p, "bad") /\ Set(lo, p, 0) /\ Set(at, p, 0) /\ Set(hi, p, 0)
    /\ UNCHANGED <<free, state, sz, frame, space, new, segs, child, argv, panic>>

\* Commit to the user image; the arguments are on the stack, the page below it
\* is out of the user's reach.
Commit(p) ==
    LET m == ProcFreepagetable(Mem(free + argv[p], space[p]), sz[p])
    IN  /\ Running(p, "stack") /\ Allocated(p)
        /\ free' = m.free /\ Panic(m)
        /\ Set(space, p, Uvmclear(new[p], Pages(hi[p]) - 2)) /\ Set(sz, p, hi[p]) /\ Go(p, "user")
        /\ Forget(p)
        /\ UNCHANGED <<state, frame>>

Discard(p) ==
    LET M == Mem(free + argv[p], new[p])
    IN  IF new[p].root # 0 THEN ProcFreepagetable(M, newsz[p]) ELSE M

Bad(p) ==
    /\ Running(p, "bad")
    /\ free' = Discard(p).free /\ Panic(Discard(p)) /\ Go(p, "user")
    /\ Forget(p)
    /\ UNCHANGED <<state, sz, frame, space>>

-----------------------------------------------------------------------------

Next == \E p \in Proc :
    \/ UvmallocPage(p) \/ UvmallocFails(p)
    \/ (\E n \in Delta : Sbrk(p, n)) \/ SbrkDone(p)
    \/ Fork(p) \/ UvmcopyPage(p) \/ UvmcopyFails(p) \/ ForkDone(p)
    \/ Exit(p) \/ Wait(p)
    \/ Sysexec(p) \/ Fetcharg(p) \/ Execfails(p) \/ (\E prog \in Program : Exec(p, prog))
    \/ NextSegment(p) \/ (\E readi \in BOOLEAN : Loadseg(p, readi))
    \/ Stack(p) \/ ArgsTooLong(p) \/ Commit(p) \/ Bad(p)

Spec == Init /\ [][Next]_vars

-----------------------------------------------------------------------------

UserVas(A) == A.leaf \ {TRAMPOLINE, TRAPFRAME}
Owned(A) == A.root + Cardinality(A.tables) + Cardinality(UserVas(A))

\* The free pages and the pages of every owner (address spaces, also those an
\* exec() builds, trapframes, arguments) make up the memory, at every step of
\* every call and on the error paths of fork(), exec() and sbrk(): no page is
\* lost, and none is freed twice or while an owner has it.
PagesAccounted ==
    LET Total[n \in 0..NPROC] ==
            IF n = 0 THEN free
            ELSE Total[n - 1] + Owned(space[n]) + Owned(new[n]) + frame[n] + argv[n]
    IN  Total[NPROC] = NPAGE

\* A process that runs user code, or has exited, has exactly the pages of its
\* size mapped, and the trapframe: a failed exec() or sbrk() leaves the image as
\* it was, a child of fork() has as many pages as its parent.
\* The kernel reaches its user's memory as the user does: copyout() and copyin()
\* succeed exactly when every byte they are asked for is in a page of the image
\* that is not the guard page, and then move just these; copyinstr() needs the
\* bytes up to the '\0' only.  Asked at both ends of the image, at the trapframe,
\* and where an address wraps.
ImageWhole ==
    \A p \in Proc :
        LET A         == space[p]
            image     == 0..(Pages(sz[p]) - 1)
            Byte(v, i) == (v + i) % (2 ^ W)
            In(v, n)  == \A i \in 0..(n - 1) : Byte(v, i) \div PGSIZE \in A.user
        IN  state[p] \in {"run", "ZOMBIE"} /\ pc[p] # "sbrk"
              => /\ A.leaf = image \cup {TRAMPOLINE, TRAPFRAME}
                 /\ A.user \subseteq image /\ Cardinality(image \ A.user) <= 1
                 /\ pc[p] = "user" =>
                    \A v \in {0, sz[p] - 5, sz[p] - 3, sz[p] - 1, TRAPFRAME * PGSIZE - 1, -1} :
                      \A n \in 0..3 :
                        LET va == v % (2 ^ W)
                            c  == Copy(A, va, n)
                        IN  /\ c.ok <=> In(va, n)
                            /\ c.ok => c.bytes = {Byte(va, i) : i \in 0..(n - 1)}
                            /\ Copyinstr(A, va, 3, {Byte(va, n)}) <=> n < 3 /\ In(va, n + 1)

\* mappages() ("remap"), uvmunmap() ("not mapped"), freewalk() ("leaf"), uvmcopy()
\* and loadseg() never run into their panic().
NoPanic == ~panic
=============================================================================
