------------------------------ MODULE BufCache ------------------------------
(***************************************************************************)
(* The buffer cache (bio.c) with its sleep locks (sleeplock.c), on top of  *)
(* the disk driver.  The clients keep the contract of log.c: a buffer that *)
(* was changed is pinned before it is released, or written to the disk.    *)
(*                                                                         *)
(* An action is one critical section under bcache.lock, under the lk of a  *)
(* sleep lock, or under vdisk_lock.  sleep() gives up that spin lock and   *)
(* blocks in one step (module Proc).                                       *)
(***************************************************************************)
EXTENDS VirtioDisk

CONSTANTS Proc,
          WriteBlock,   \* bound: the blocks that are changed
          MaxPinned     \* bound: blocks the log pins at a time

ASSUME CacheAssumption ==
    /\ WriteBlock \subseteq Block /\ MaxPinned \in Nat
    /\ IsFiniteSet(Proc) /\ None \notin Proc

VARIABLES list,         \* bcache.head: most recently used first
          blockno,      \* the block of a buffer, None at boot (dev = 0)
          valid, refcnt,
          holder,       \* b->lock: the process that has it, or None
          pc, buf,      \* where each process is, and with which buffer
          head,         \* idx[0] of its virtio_disk_rw()
          wr,           \* the "write" argument
          pinned,       \* client: the blocks in the log
          panicked      \* the panic() that was reached, or None

cacheVars == <<list, blockno, valid, refcnt, holder>>
procVars  == <<pc, buf, head, wr>>
vars == <<diskVars, cacheVars, procVars, pinned, panicked>>

Blk(p)    == blockno[buf[p]]
Goto(p, l) == pc' = [pc EXCEPT ![p] = l]
PanicIf(bad, where) == panicked' = IF bad THEN where ELSE None

\* wakeup() of those who sleep at l on a channel: the processes in on
Woken(f, l, to, on) == [q \in Proc |-> IF f[q] = l /\ q \in on THEN to ELSE f[q]]
OnBuf(b) == {q \in Proc : buf[q] = b}

Init ==
    /\ DiskInit
    /\ list = [i \in 1..NBUF |-> NBUF + 1 - i]
    /\ blockno = [b \in Buf |-> None]
    /\ valid = [b \in Buf |-> FALSE] /\ refcnt = [b \in Buf |-> 0]
    /\ holder = [b \in Buf |-> None]
    /\ pc = [p \in Proc |-> "idle"] /\ buf = [p \in Proc |-> None]
    /\ head = [p \in Proc |-> None] /\ wr = [p \in Proc |-> FALSE]
    /\ pinned = {} /\ panicked = None

-----------------------------------------------------------------------------
(* bread(): bget(), then read the block unless the buffer is valid.         *)

BgetCached(p, k, b) ==
    /\ pc[p] = "idle" /\ blockno[b] = k
    /\ refcnt' = [refcnt EXCEPT ![b] = @ + 1]
    /\ buf' = [buf EXCEPT ![p] = b] /\ Goto(p, "lock")
    /\ UNCHANGED <<diskVars, list, blockno, valid, holder, head, wr, pinned, panicked>>

Unlocked == {i \in DOMAIN list : holder[list[i]] = None}                 \* mutant
Unused == {i \in DOMAIN list : refcnt[list[i]] = 0}
Lru    == list[CHOOSE i \in Unused : \A j \in Unused : j <= i]

KeepValid(b) == valid                                                   \* mutant
Invalidated(b) == [valid EXCEPT ![b] = FALSE]

NotCached(k) == \A b \in Buf : blockno[b] # k

BgetRecycle(p, k) ==
    /\ pc[p] = "idle" /\ NotCached(k) /\ Unused # {}
    /\ blockno' = [blockno EXCEPT ![Lru] = k]
    /\ valid' = Invalidated(Lru)
    /\ refcnt' = [refcnt EXCEPT ![Lru] = 1]
    /\ buf' = [buf EXCEPT ![p] = Lru] /\ Goto(p, "lock")
    /\ UNCHANGED <<diskVars, list, holder, head, wr, pinned, panicked>>

BgetPanic(p, k) ==
    /\ pc[p] = "idle" /\ NotCached(k) /\ Unused = {}
    /\ panicked' = "bget"
    /\ UNCHANGED <<diskVars, cacheVars, procVars, pinned>>

Ignored(b) == FALSE                                                     \* mutant
Locked(b) == holder[b] # None

\* acquiresleep(): sleep while somebody has the lock
AcquireWaits(p) ==
    /\ pc[p] = "lock" /\ Locked(buf[p]) /\ Goto(p, "locksleep")
    /\ UNCHANGED <<diskVars, cacheVars, buf, head, wr, pinned, panicked>>

\* or take it, and the test of b->valid
AcquireSleep(p) ==
    /\ pc[p] = "lock" /\ ~Locked(buf[p])
    /\ holder' = [holder EXCEPT ![buf[p]] = p]
    /\ Goto(p, IF valid[buf[p]] THEN "have" ELSE "alloc")
    /\ UNCHANGED <<diskVars, list, blockno, valid, refcnt, buf, head, wr, pinned, panicked>>

\* wakeup(&disk.free[0]) of free_desc()
NoDescWakeup(f) == f                                                    \* mutant
DescWakeup(f) == Woken(f, "descsleep", "alloc", Proc)

\* virtio_disk_rw() until it sleeps on the buffer,
DiskStart(p) ==
    /\ pc[p] = "alloc" /\ ~intr /\ CanAlloc
    /\ Submit(buf[p], Blk(p), wr[p])
    /\ head' = [head EXCEPT ![p] = Least(free)] /\ Goto(p, "iosleep")
    /\ UNCHANGED <<cacheVars, buf, wr, pinned, panicked>>

\* or on the free descriptors, after it has given back what alloc3_desc() got, which
\* wakes the others.
DiskWaits(p) ==
    /\ pc[p] = "alloc" /\ ~intr /\ ~CanAlloc
    /\ pc' = [(IF free = {} THEN pc ELSE DescWakeup(pc)) EXCEPT ![p] = "descsleep"]
    /\ UNCHANGED <<diskVars, cacheVars, buf, head, wr, pinned, panicked>>

\* The rest of virtio_disk_rw(): sleep again while b->disk is 1,
DiskSleeps(p) ==
    /\ pc[p] = "iowait" /\ ~intr /\ owned[buf[p]] /\ Goto(p, "iosleep")
    /\ UNCHANGED <<diskVars, cacheVars, buf, head, wr, pinned, panicked>>

\* then free the descriptors; and b->valid = 1 of bread()
DiskFinish(p) ==
    /\ pc[p] = "iowait" /\ ~intr /\ ~owned[buf[p]]
    /\ FreeChain(head[p])
    /\ PanicIf(Chain(head[p]) \cap free # {}, "free_desc")
    /\ pc' = [DescWakeup(pc) EXCEPT ![p] = IF wr[p] THEN "wrote" ELSE "have"]
    /\ valid' = [valid EXCEPT ![buf[p]] = TRUE]
    /\ head' = [head EXCEPT ![p] = None] /\ wr' = [wr EXCEPT ![p] = FALSE]
    /\ UNCHANGED <<list, blockno, refcnt, holder, buf, pinned>>

-----------------------------------------------------------------------------
(* The user of a locked buffer.                                             *)

\* b->data changes; log_write() pins it
LogWrite(p, v) ==
    /\ pc[p] = "have" /\ Blk(p) \in WriteBlock
    /\ Blk(p) \in pinned \/ Cardinality(pinned) < MaxPinned
    /\ data' = [data EXCEPT ![buf[p]] = v]
    /\ pinned' = pinned \cup {Blk(p)}
    /\ refcnt' = [refcnt EXCEPT ![buf[p]] = IF Blk(p) \in pinned THEN @ ELSE @ + 1]
    /\ UNCHANGED <<driverVars, deviceVars, status, list, blockno, valid, holder, procVars,
                   panicked>>

\* b->data changes, or is left alone, then bwrite()
Bwrite(p, v) ==
    /\ pc[p] = "have" /\ Blk(p) \in WriteBlock
    /\ data' = [data EXCEPT ![buf[p]] = v]
    /\ wr' = [wr EXCEPT ![p] = TRUE] /\ Goto(p, "alloc")
    /\ PanicIf(holder[buf[p]] # p, "bwrite")
    /\ UNCHANGED <<driverVars, deviceVars, status, cacheVars, buf, head, pinned>>

\* install_trans(): bunpin() after the bwrite()
Bunpin(p) ==
    /\ pc[p] = "wrote" /\ Blk(p) \in pinned
    /\ refcnt' = [refcnt EXCEPT ![buf[p]] = @ - 1]
    /\ pinned' = pinned \ {Blk(p)}
    /\ UNCHANGED <<diskVars, list, blockno, valid, holder, procVars, panicked>>

-----------------------------------------------------------------------------
(* brelse()                                                                 *)

ReleaseSleep(p) ==
    /\ pc[p] = "have" \/ (pc[p] = "wrote" /\ Blk(p) \notin pinned)
    /\ PanicIf(holder[buf[p]] # p, "brelse")
    /\ holder' = [holder EXCEPT ![buf[p]] = None]
    /\ pc' = [Woken(pc, "locksleep", "lock", OnBuf(buf[p])) EXCEPT ![p] = "brelse"]
    /\ UNCHANGED <<diskVars, list, blockno, valid, refcnt, buf, head, wr, pinned>>

\* At the head of the list; those that were before it follow.
MovedToFront(b) ==
    LET i == CHOOSE i \in DOMAIN list : list[i] = b
    IN  [j \in DOMAIN list |-> IF j = 1 THEN b ELSE IF j <= i THEN list[j - 1] ELSE list[j]]

Brelse(p) ==
    /\ pc[p] = "brelse"
    /\ refcnt' = [refcnt EXCEPT ![buf[p]] = @ - 1]
    /\ list' = IF refcnt'[buf[p]] = 0 THEN MovedToFront(buf[p]) ELSE list
    /\ Goto(p, "idle") /\ buf' = [buf EXCEPT ![p] = None]
    /\ UNCHANGED <<diskVars, blockno, valid, holder, head, wr, pinned, panicked>>

-----------------------------------------------------------------------------
(* The interrupt handler.                                                   *)

\* A turn of its loop
HandleEntry ==
    /\ IntrEntry
    /\ PanicIf(~status[NextUsed], "status")
    /\ pc' = Woken(pc, "iosleep", "iowait", OnBuf(info[NextUsed]))
    /\ UNCHANGED <<cacheVars, buf, head, wr, pinned>>

DiskIntr == \/ HandleEntry
            \/ (IntrAck \/ IntrDone) /\ UNCHANGED <<cacheVars, procVars, pinned, panicked>>

-----------------------------------------------------------------------------

Kernel(p) == \/ AcquireWaits(p) \/ AcquireSleep(p)
             \/ DiskStart(p) \/ DiskWaits(p) \/ DiskSleeps(p) \/ DiskFinish(p)
             \/ ReleaseSleep(p) \/ Brelse(p) \/ Bunpin(p)

Use(p) == \/ \E k \in Block : BgetRecycle(p, k) \/ BgetPanic(p, k)
          \/ \E k \in Block, b \in Buf : BgetCached(p, k, b)
          \/ \E v \in Val : LogWrite(p, v) \/ Bwrite(p, v)

Next ==
    /\ panicked = None
    /\ \/ \E p \in Proc : Kernel(p) \/ Use(p)
       \/ DiskIntr
       \/ Device /\ UNCHANGED <<cacheVars, procVars, pinned, panicked>>

Spec == Init /\ [][Next]_vars

\* The scheduler and the device go on; a client comes to its brelse().
FairSpec ==
    /\ Spec /\ WF_vars(DiskIntr /\ Next) /\ WF_vars(Device /\ Next)
    /\ \A p \in Proc : WF_vars(Kernel(p) /\ Next)

-----------------------------------------------------------------------------
(* What the cache shows of the disk.                                        *)

Holds(b, k) == blockno[b] = k /\ valid[b]
Content == [k \in Block |-> IF \E b \in Buf : Holds(b, k)
                            THEN data[CHOOSE b \in Buf : Holds(b, k)] ELSE platter[k]]

Inside == {"alloc", "descsleep", "iosleep", "iowait", "have", "wrote"}
Users  == [k \in Block |-> {p \in Proc : pc[p] \in Inside /\ Blk(p) = k}]

Abstract == INSTANCE BlockStore WITH content <- Content, users <- Users

\* The cache with its driver implements the block store: whatever is recycled,
\* read and written meanwhile, bread() gives one process at a time the block as
\* its last user left it.
ImplementsBlockStore == Abstract!SSpec

\* refcnt counts exactly the processes between bget() and brelse() and the pin
\* of the log, so that no buffer in use is recycled and none is lost.
RefcntExact ==
    \A b \in Buf : refcnt[b] = Cardinality(OnBuf(b)) + (IF blockno[b] \in pinned THEN 1 ELSE 0)

\* The panics of brelse(), bwrite(), free_desc() and virtio_disk_intr() are not
\* reached: who releases a buffer has its lock, no descriptor is freed twice, and
\* the status the handler reads is the one the device wrote.  (bget() does panic
\* when all the buffers are in use or pinned.)
NoPanic == panicked \in {None, "bget"}

\* Every descriptor is free or in the chain of exactly one request under way.
DescriptorsAccounted ==
    LET Busy == {p \in Proc : head[p] # None}
    IN  /\ free = Desc \ UNION {Chain(head[p]) : p \in Busy}
        /\ \A p, q \in Busy : p # q => Chain(head[p]) \cap Chain(head[q]) = {}

\* Who sleeps for a buffer's lock, for descriptors or for the disk is woken.
NobodySleepsForever ==
    \A p \in Proc : pc[p] \in {"locksleep", "descsleep", "iosleep"}
                      ~> pc[p] \notin {"locksleep", "descsleep", "iosleep"} \/ panicked # None
=============================================================================
