------------------------------ MODULE Umalloc -------------------------------
(***************************************************************************)
(* malloc() and free() of user programs (umalloc.c): a circular list of    *)
(* free blocks in the order of their addresses, the first of which is the  *)
(* empty block base.  Addresses and sizes are in units of a Header.  The   *)
(* program may also call sbrk() itself.                                    *)
(***************************************************************************)
EXTENDS Integers, FiniteSets

CONSTANTS Top,           \* sbrk() fails beyond this address
          MinCore,       \* what morecore() asks for at least: 4096 in the code
          HdrSize,       \* bytes of a Header
          UintMod,       \* a uint and an int have 32 bits: 2^32 in the code
          Request        \* bound: the bytes that malloc() is asked for

ASSUME UmallocAssumption ==
    /\ {Top, MinCore, HdrSize} \subseteq Nat \ {0} /\ Request \subseteq 0..(UintMod - 1)
    /\ UintMod % (2 * HdrSize) = 0 /\ (Top + 1) * HdrSize < UintMod \div 2

VARIABLES heap,          \* the headers (ptr and size), freep, and the break
          live,          \* the blocks that the program has: header, bytes asked for
          own,           \* units the program got from sbrk() by itself
          wild           \* ghost: malloc() has handed out memory that is not there

uvars == <<heap, live, own, wild>>

base  == 0               \* a static variable, below every address of the heap
NULL  == -1
UInit == /\ heap = [ptr |-> [a \in 0..Top |-> NULL], size |-> [a \in 0..Top |-> 0],
                    freep |-> NULL, brk |-> 1]
         /\ live = {} /\ own = {} /\ wild = FALSE

-----------------------------------------------------------------------------

\* free(): the free block after which the one at bp belongs
RECURSIVE Place(_, _, _)
Place(h, bp, p) ==
    LET q == h.ptr[p]
    IN  IF (bp > p /\ bp < q) \/ (p >= q /\ (bp > p \/ bp < q)) THEN p ELSE Place(h, bp, q)

NeverAdjoins(h, p, q) == FALSE                                          \* mutant
Adjoins(h, p, q) == p + h.size[p] = q

\* The headers of two blocks that adjoin become one: the second is forgotten.
Merge(h, p, q) == [h EXCEPT !.size[p] = @ + h.size[q], !.ptr[p] = h.ptr[q],
                            !.size[q] = 0, !.ptr[q] = NULL]
FreeBlock(h, bp) ==
    LET p == Place(h, bp, h.freep)
        q == h.ptr[p]
        u == IF bp + h.size[bp] = q THEN Merge(h, bp, q) ELSE [h EXCEPT !.ptr[bp] = q]
        v == IF Adjoins(u, p, bp) THEN Merge(u, p, bp) ELSE [u EXCEPT !.ptr[p] = bp]
    IN  [v EXCEPT !.freep = p]

-----------------------------------------------------------------------------

\* A request in units, its header included; the sum is a uint.
NUnits(nbytes) == ((nbytes + HdrSize - 1) % UintMod) \div HdrSize + 1

Core(nu) == IF nu < MinCore THEN MinCore ELSE nu

\* The product is a uint, which sbrk() takes as an int.
SbrkArg(nu) ==
    LET b == (nu * HdrSize) % UintMod
    IN  IF b < UintMod \div 2 THEN b ELSE b - UintMod

\* growproc() refuses only what is positive and too much.  Of nothing, or of less
\* than nothing, it makes a success: sbrk() returns the break, and morecore() takes
\* for its block what begins there.
CoreFails(h, nu) ==
    /\ SbrkArg(Core(nu)) > 0
    /\ h.brk * HdrSize + SbrkArg(Core(nu)) > (Top + 1) * HdrSize
CoreWild(nu) == SbrkArg(Core(nu)) # Core(nu) * HdrSize

MoreCore(h, nu) ==
    FreeBlock([h EXCEPT !.size[h.brk] = Core(nu), !.brk = @ + Core(nu)], h.brk)

\* The whole block at p, or its last units
Taken(h, prevp, p, n) ==
    LET at == p + h.size[p] - n
        u  == IF h.size[p] = n
              THEN [h EXCEPT !.ptr[prevp] = h.ptr[p], !.ptr[p] = NULL]
              ELSE [h EXCEPT !.size[p] = @ - n, !.size[at] = n]
    IN  [heap |-> [u EXCEPT !.freep = prevp], at |-> at, wild |-> FALSE]

\* The loop of malloc(): first fit, from freep round to freep
RECURSIVE Search(_, _, _, _)
Search(h, prevp, p, n) ==
    IF h.size[p] >= n THEN Taken(h, prevp, p, n)
    ELSE IF p # h.freep THEN Search(h, p, h.ptr[p], n)
    ELSE IF CoreFails(h, n) \/ CoreWild(n) THEN [heap |-> h, at |-> NULL, wild |-> ~CoreFails(h, n)]
    ELSE LET m == MoreCore(h, n) IN Search(m, m.freep, m.ptr[m.freep], n)

Started(h) == IF h.freep = NULL THEN [h EXCEPT !.ptr[base] = base, !.freep = base] ELSE h

\* After a request that wraps the model says no more.
Malloc(nbytes) ==
    LET h == Started(heap)
        r == Search(h, h.freep, h.ptr[h.freep], NUnits(nbytes))
    IN  /\ ~wild
        /\ heap' = r.heap
        /\ live' = live \cup {[at |-> a, bytes |-> nbytes] : a \in {r.at} \ {NULL}}
        /\ wild' = (r.wild \/ nbytes + HdrSize > UintMod)
        /\ UNCHANGED own

FreeIt(b) == /\ ~wild
             /\ heap' = FreeBlock(heap, b.at) /\ live' = live \ {b}
             /\ UNCHANGED <<own, wild>>

\* The program's own sbrk()
OwnSbrk(n) ==
    /\ ~wild /\ heap.brk + n <= Top + 1
    /\ own' = own \cup heap.brk..(heap.brk + n - 1)
    /\ heap' = [heap EXCEPT !.brk = @ + n] /\ UNCHANGED <<live, wild>>

UNext == \/ \E nbytes \in Request : Malloc(nbytes)
         \/ \E b \in live : FreeIt(b)
         \/ OwnSbrk(1)
         \/ wild /\ UNCHANGED uvars

-----------------------------------------------------------------------------

\* The blocks of the list, those of the program, and the units of a block
FreeList == {a \in 0..Top : heap.ptr[a] # NULL}
Free1    == FreeList \ {base}
Live     == {b.at : b \in live}
Units(a) == a..(a + heap.size[a] - 1)

\* As long as no request wraps in a uint or an int: every unit of the heap is in one
\* block, free or the program's, or is the program's own, and the program's are as
\* large as it asked for: no block is handed out twice, lost or too small, whatever
\* the order of the calls and of the program's sbrk() calls.  The list is one circle
\* in the order of the addresses, so that free() finds its place, and no two of its
\* blocks adjoin.
HeapExact ==
    ~wild =>
    /\ UNION {Units(a) : a \in Free1 \cup Live} \cup own = 1..(heap.brk - 1)
    /\ \A a, b \in Free1 \cup Live : a # b => Units(a) \cap Units(b) = {}
    /\ \A a \in Free1 \cup Live : Units(a) \cap own = {}
    /\ \A b \in live : (heap.size[b.at] - 1) * HdrSize >= b.bytes
    /\ heap.freep # NULL =>
         /\ heap.freep \in FreeList
         /\ \A a \in FreeList :
              LET above == {b \in FreeList : b > a}
              IN  heap.ptr[a] = IF above = {} THEN base
                                ELSE CHOOSE b \in above : \A c \in above : b <= c
    /\ \A a \in Free1 : a + heap.size[a] \notin Free1
=============================================================================
