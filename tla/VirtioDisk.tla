----------------------------- MODULE VirtioDisk -----------------------------
(***************************************************************************)
(* The disk driver (virtio_disk.c) and, external, the device behind it.    *)
(* The driver's critical sections under vdisk_lock are one operator each,  *)
(* but virtio_disk_intr() is one per turn of its loop, because the device  *)
(* adds to the used ring while it runs.  Ring entries and commands that    *)
(* were read for the last time are cleared.                                *)
(***************************************************************************)
EXTENDS Integers, FiniteSets

CONSTANTS Block, Val, InitVal,
          NBUF,       \* param.h: buffers of the cache
          NUM,        \* virtio.h: descriptors, and entries of each ring
          IdxMod,     \* the ring indices are uint16: 2^16 in the code
          None

ASSUME DiskAssumption ==
    /\ NUM \in Nat \ {0} /\ IdxMod \in Nat \ {0} /\ IdxMod % NUM = 0
    /\ NBUF \in Nat /\ None \notin Nat \cup Block /\ InitVal \in Val

VARIABLES free,       \* disk.free, as the set of free descriptors
          desc,       \* disk.desc: next and addr
          ops,        \* disk.ops: type and sector of a command
          info, status,            \* disk.info[].b and .status (TRUE is 0, success)
          owned,      \* b->disk
          avail, used,             \* the rings and the other side's index
          usedIdx,    \* disk.used_idx
          intr,       \* virtio_disk_intr() runs, and holds vdisk_lock
          data,       \* b->data
          platter, seen, taken, irq \* the device

driverVars == <<free, desc, ops, info, owned, avail, usedIdx, intr>>
deviceVars == <<platter, seen, taken, irq, used>>
diskVars   == <<driverVars, deviceVars, status, data>>

Buf    == 1..NBUF
Desc   == 0..(NUM - 1)
Blank  == [next |-> None, addr |-> None]
NoOp   == [write |-> FALSE, sector |-> None]
Least(S) == CHOOSE i \in S : \A j \in S : i <= j

DiskInit ==
    /\ free = Desc
    /\ desc = [i \in Desc |-> Blank]
    /\ ops = [i \in Desc |-> NoOp]
    /\ info = [i \in Desc |-> None] /\ status = [i \in Desc |-> FALSE]
    /\ owned = [b \in Buf |-> FALSE]
    /\ avail = [ring |-> [i \in Desc |-> None], idx |-> 0]
    /\ used  = [ring |-> [i \in Desc |-> None], idx |-> 0]
    /\ usedIdx = 0 /\ intr = FALSE /\ irq = FALSE
    /\ data = [b \in Buf |-> InitVal]
    /\ platter = [k \in Block |-> InitVal]
    /\ seen = 0 /\ taken = {}

-----------------------------------------------------------------------------
(* virtio_disk_rw()                                                         *)

CanAlloc == Cardinality(free) >= 3

\* alloc3_desc() and everything up to the notification of the device.
Submit(b, k, write) ==
    LET d0 == Least(free)
        d1 == Least(free \ {d0})
        d2 == Least(free \ {d0, d1})
    IN  /\ free' = free \ {d0, d1, d2}
        /\ ops' = [ops EXCEPT ![d0] = [write |-> write, sector |-> k]]
        /\ desc' = [desc EXCEPT ![d0] = [next |-> d1, addr |-> d0],
                                ![d1] = [next |-> d2, addr |-> b],
                                ![d2] = [next |-> None, addr |-> d0]]
        /\ status' = [status EXCEPT ![d0] = FALSE]
        /\ owned' = [owned EXCEPT ![b] = TRUE]
        /\ info' = [info EXCEPT ![d0] = b]
        /\ avail' = [ring |-> [avail.ring EXCEPT ![avail.idx % NUM] = d0],
                     idx  |-> (avail.idx + 1) % IdxMod]
        /\ UNCHANGED <<deviceVars, data, usedIdx, intr>>

\* The chain free_chain() walks from its head.
HeadOnly(i) == {i}                                                      \* mutant
Chain(i) == {i} \cup ({desc[i].next} \ {None})
                \cup (IF desc[i].next = None THEN {} ELSE {desc[desc[i].next].next} \ {None})

FreeChain(i) ==
    /\ free' = free \cup Chain(i)
    /\ desc' = [j \in Desc |-> IF j \in Chain(i) THEN Blank ELSE desc[j]]
    /\ info' = [info EXCEPT ![i] = None]
    /\ ops' = [ops EXCEPT ![i] = NoOp] /\ status' = [status EXCEPT ![i] = FALSE]
    /\ UNCHANGED <<deviceVars, owned, avail, usedIdx, intr, data>>

-----------------------------------------------------------------------------
(* virtio_disk_intr()                                                       *)

IntrAck ==
    /\ irq /\ ~intr
    /\ irq' = FALSE /\ intr' = TRUE
    /\ UNCHANGED <<free, desc, ops, info, owned, avail, usedIdx, platter, seen, taken,
                   used, status, data>>

NextUsed == used.ring[usedIdx % NUM]

\* One turn of the loop; the caller wakes those who sleep on the buffer.
IntrEntry ==
    /\ intr /\ usedIdx # used.idx
    /\ owned' = [owned EXCEPT ![info[NextUsed]] = FALSE]
    /\ usedIdx' = (usedIdx + 1) % IdxMod
    /\ used' = [used EXCEPT !.ring[usedIdx % NUM] = None]
    /\ UNCHANGED <<free, desc, ops, info, avail, intr, platter, seen, taken, irq, status,
                   data>>

IntrDone ==
    /\ intr /\ usedIdx = used.idx
    /\ intr' = FALSE
    /\ UNCHANGED <<free, desc, ops, info, owned, avail, usedIdx, deviceVars, status, data>>

-----------------------------------------------------------------------------
(* The device: takes commands in order, serves them in any order.           *)

DeviceTake ==
    /\ seen # avail.idx
    /\ taken' = taken \cup {avail.ring[seen % NUM]}
    /\ seen' = (seen + 1) % IdxMod
    /\ avail' = [avail EXCEPT !.ring[seen % NUM] = None]
    /\ UNCHANGED <<free, desc, ops, info, owned, usedIdx, intr, platter, irq, used, status,
                   data>>

DeviceServe(i) ==
    LET d == desc[i].next
        b == desc[d].addr
        k == ops[i].sector
    IN  /\ i \in taken
        /\ taken' = taken \ {i}
        /\ IF ops[i].write
           THEN platter' = [platter EXCEPT ![k] = data[b]] /\ UNCHANGED data
           ELSE data' = [data EXCEPT ![b] = platter[k]] /\ UNCHANGED platter
        /\ status' = [status EXCEPT ![desc[desc[d].next].addr] = TRUE]
        /\ used' = [ring |-> [used.ring EXCEPT ![used.idx % NUM] = i],
                    idx  |-> (used.idx + 1) % IdxMod]
        /\ irq' = TRUE
        /\ UNCHANGED <<driverVars, seen>>

Device == DeviceTake \/ \E i \in Desc : DeviceServe(i)
=============================================================================
