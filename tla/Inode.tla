------------------------------- MODULE Inode -------------------------------
(***************************************************************************)
(* The block and inode layers of the file system (fs.c, first half) as     *)
(* operators: what balloc, bmap, itrunc, writei, ialloc do to the disk, and *)
(* iget to the table of inodes in memory.  "disk" is what the buffer cache *)
(* shows of it (module BufCache); module Log makes it survive a crash.     *)
(***************************************************************************)
EXTENDS Naturals, Sequences, FiniteSets

CONSTANTS ninodes, nblocks,      \* struct superblock: i-numbers and data blocks
          NINODE,                \* param.h: entries of itable
          NDIRECT, NINDIRECT,    \* fs.h
          DPB                    \* directory entries in a block

ASSUME InodeAssumption ==
    /\ {ninodes, nblocks, NINODE, NDIRECT, NINDIRECT, DPB} \subseteq Nat
    /\ NDIRECT > 0 /\ NINDIRECT > 0 /\ DPB > 0

VARIABLES disk,       \* inode: the dinodes; ind: indirect blocks; used: the bitmap;
                      \* content: entries of a directory, blocks of a file
          itable      \* inum, ref, valid and ino, the copy of the dinode

Inum    == 1..(ninodes - 1)
Block   == 1..nblocks
Slot    == 1..NINODE
MAXFILE == NDIRECT + NINDIRECT
Least(S) == CHOOSE x \in S : \A y \in S : x <= y

FreeInode == [type |-> "none", nlink |-> 0, addrs |-> [n \in 0..NDIRECT |-> 0]]
NoBlocks  == [n \in 0..(NINDIRECT - 1) |-> 0]

-----------------------------------------------------------------------------
(* Blocks.  The operators return the disk after the call, and the address,  *)
(* which is 0 when the disk is full.                                        *)

Balloc(D) ==
    LET b == Least(Block \ D.used)
    IN  IF D.used = Block THEN [disk |-> D, addr |-> 0]
        ELSE [disk |-> [D EXCEPT !.used = @ \cup {b}], addr |-> b]

SetAddr(D, i, n, b) == [D EXCEPT !.inode[i].addrs[n] = b]
SetInd(D, a, n, b)  == [D EXCEPT !.ind[a][n] = b]

\* ip->addrs[n], allocated if need be
Direct(D, i, n) ==
    LET new == Balloc(D)
    IN  IF D.inode[i].addrs[n] # 0 THEN [disk |-> D, addr |-> D.inode[i].addrs[n]]
        ELSE [disk |-> SetAddr(new.disk, i, n, new.addr), addr |-> new.addr]

Indirect(D, i, n) ==
    LET ptr == Direct(D, i, NDIRECT)
        a   == ptr.addr
        new == Balloc(ptr.disk)
    IN  IF a = 0 \/ ptr.disk.ind[a][n] # 0
        THEN [disk |-> ptr.disk, addr |-> IF a = 0 THEN 0 ELSE ptr.disk.ind[a][n]]
        ELSE [disk |-> SetInd(new.disk, a, n, new.addr), addr |-> new.addr]

Bmap(D, i, bn) == IF bn < NDIRECT THEN Direct(D, i, bn) ELSE Indirect(D, i, bn - NDIRECT)

\* The blocks that hang from an inode
Blocks(D, i) ==
    LET addrs == D.inode[i].addrs
        In(a) == IF a = 0 THEN {} ELSE {D.ind[a][n] : n \in DOMAIN D.ind[a]} \cup {a}
    IN  ({addrs[n] : n \in 0..(NDIRECT - 1)} \cup In(addrs[NDIRECT])) \ {0}

DataBlocks(D, i) == Blocks(D, i) \ {D.inode[i].addrs[NDIRECT]}          \* mutant
Truncated(D, i) == Blocks(D, i)

\* (balloc() zeroes a block before anyone reads it again: here bfree() does.)
Itrunc(D, i) ==
    [inode   |-> [D.inode EXCEPT ![i].addrs = FreeInode.addrs],
     ind     |-> [b \in Block |-> IF b \in Truncated(D, i) THEN NoBlocks ELSE D.ind[b]],
     used    |-> D.used \ Truncated(D, i),
     content |-> [D.content EXCEPT ![i] = <<>>]]

\* writei() of one unit, a directory entry or a block of a file.  (A copyin() that
\* fails leaves bitmap and addresses as a success does.)
PerBlock(D, i) == IF D.inode[i].type = "dir" THEN DPB ELSE 1

Writei(D, i, off, x) ==
    LET m == Bmap(D, i, off \div PerBlock(D, i))
        c == D.content[i]
    IN  IF off > Len(c) \/ off >= MAXFILE * PerBlock(D, i) THEN [disk |-> D, ok |-> FALSE]
        ELSE IF m.addr = 0 THEN [disk |-> m.disk, ok |-> FALSE]
        ELSE [disk |-> [m.disk EXCEPT !.content[i] =
                            IF off = Len(c) THEN Append(c, x) ELSE [c EXCEPT ![off + 1] = x]],
              ok |-> TRUE]

FreeInums(D) == {i \in Inum : D.inode[i].type = "none"}
Ialloc(D, i, type) == [D EXCEPT !.inode[i] = [FreeInode EXCEPT !.type = type]]

-----------------------------------------------------------------------------
(* The inode table.  (What an entry held before its ref became 0 is not     *)
(* read again: iget() sets inum and valid.)                                 *)

FreeEntry == [inum |-> 0, ref |-> 0, valid |-> FALSE, ino |-> FreeInode]

Entries(i)  == {s \in Slot : itable[s].ref > 0 /\ itable[s].inum = i}
EmptySlots  == {s \in Slot : itable[s].ref = 0}
NoSlot(i)   == Entries(i) = {} /\ EmptySlots = {}
IgetSlot(i) == IF Entries(i) # {} THEN Least(Entries(i)) ELSE Least(EmptySlots)

Iget(T, i) ==
    LET s == IgetSlot(i)
    IN  IF Entries(i) # {} THEN [T EXCEPT ![s].ref = @ + 1]
        ELSE [T EXCEPT ![s].inum = i, ![s].ref = 1, ![s].valid = FALSE]

\* What ilock() leaves in *ip: the copy, or the dinode when the copy is not valid
Loaded(s) == IF itable[s].valid THEN itable[s].ino ELSE disk.inode[itable[s].inum]
Load(T, s, ino) == [T EXCEPT ![s].valid = TRUE, ![s].ino = ino]

\* The disk as a holder of s writes it back: iupdate() copies from *ip
Own(D, s) == [D EXCEPT !.inode[itable[s].inum] = Loaded(s)]
=============================================================================
