-------------------------------- MODULE Pipe --------------------------------
(***************************************************************************)
(* Pipes (pipe.c), the file table and the descriptors that share them      *)
(* (file.c, sys_pipe, sys_dup, sys_close, sys_read and sys_write of        *)
(* sysfile.c, the files of fork() and exit() in proc.c).                   *)
(*                                                                         *)
(* There is memory for one pipe.  An action is a critical section under    *)
(* ftable.lock, or, under pi->lock, what lies between two looks at         *)
(* p->killed, which kill() may set at any time.                            *)
(***************************************************************************)
EXTENDS Integers, FiniteSets, Sequences

CONSTANTS Proc, Parent,    \* the process that is there at first
          File, Fd,        \* slots of ftable; descriptors of a process
          Byte,
          PIPESIZE,
          UintMod,         \* nread and nwrite are uint: 2^32 in the code
          MaxCount,        \* bound: bytes asked for in one call
          Victim,          \* bound: the processes that are killed
          None

End == {"r", "w"}

ASSUME PipeAssumption ==
    /\ Parent \in Proc \ Victim /\ None \notin Proc \cup File \cup Byte \cup End
    /\ IsFiniteSet(Proc) /\ IsFiniteSet(Fd) /\ Fd \subseteq Nat
    /\ PIPESIZE \in Nat \ {0} /\ UintMod \in Nat /\ UintMod > PIPESIZE
    /\ UintMod % PIPESIZE = 0

VARIABLES ofile,           \* p->ofile
          ref, kind,       \* f->ref; f->type and which end of the pipe it is
          alive,           \* the pipe's page is allocated
          data, nread, nwrite, open, plock,       \* struct pipe
          killed, pc, left,
          closeq,          \* files in the process's hands: that pipealloc() has
                           \* got, or that it has yet to fileclose()
          ff,              \* the end of the pipe that fileclose() found unused
          ch,              \* the byte piperead() copied out last
          abandoned        \* ghost: a killed writer left bytes and woke nobody

fileVars == <<ofile, ref, kind, closeq, ff>>
pipeVars == <<alive, data, nread, nwrite, open, plock, ch, abandoned>>
vars == <<fileVars, pipeVars, killed, pc, left>>

Goto(p, l) == pc' = [pc EXCEPT ![p] = l]
Woken(f, l, to) == [q \in Proc |-> IF f[q] = l THEN to ELSE f[q]]
WakeReaders(f) == Woken(f, "rsleep", "rlock")     \* wakeup(&pi->nread)
WakeWriters(f) == Woken(f, "wsleep", "wlock")     \* wakeup(&pi->nwrite)
\* In user space, and not sent to exit() by usertrap() as soon as it enters
User(p) == pc[p] = "user" /\ ~killed[p]
Has(p, e) == \E d \in Fd : ofile[p][d] # None /\ kind[ofile[p][d]] = e
NoFiles  == [d \in Fd |-> None]

Init ==
    /\ ofile = [p \in Proc |-> NoFiles]
    /\ ref = [f \in File |-> 0] /\ kind = [f \in File |-> None]
    /\ alive = FALSE /\ data = [i \in 0..(PIPESIZE - 1) |-> None]
    /\ nread = 0 /\ nwrite = 0 /\ open = [e \in End |-> FALSE] /\ plock = None
    /\ killed = [p \in Proc |-> FALSE]
    /\ pc = [p \in Proc |-> IF p = Parent THEN "user" ELSE "dead"]
    /\ left = [p \in Proc |-> 0] /\ ff = [p \in Proc |-> None] /\ closeq = [p \in Proc |-> <<>>]
    /\ ch = None /\ abandoned = FALSE

-----------------------------------------------------------------------------
(* Descriptors.                                                             *)

FreeFds(p) == {d \in Fd : ofile[p][d] = None}
First(S)   == CHOOSE x \in S : \A y \in S : x <= y

SysPipe(p) ==
    /\ User(p) /\ Goto(p, "pipe")
    /\ UNCHANGED <<fileVars, pipeVars, killed, left>>

\* pipealloc() calls filealloc() twice, then kalloc().
FileAlloc(p, f) ==
    /\ pc[p] = "pipe" /\ Len(closeq[p]) < 2 /\ ref[f] = 0
    /\ ref' = [ref EXCEPT ![f] = 1]
    /\ closeq' = [closeq EXCEPT ![p] = Append(@, f)]
    /\ UNCHANGED <<ofile, kind, ff, pipeVars, killed, pc, left>>

\* No file is free, or no page, whoever has it: what it has got is closed again.
PipeAllocFails(p) ==
    /\ pc[p] = "pipe"
    /\ Len(closeq[p]) < 2 => \A f \in File : ref[f] # 0
    /\ Goto(p, "close")
    /\ UNCHANGED <<fileVars, pipeVars, killed, left>>

PipeAlloc(p) ==
    /\ pc[p] = "pipe" /\ Len(closeq[p]) = 2 /\ ~alive
    /\ kind' = [kind EXCEPT ![closeq[p][1]] = "r", ![closeq[p][2]] = "w"]
    /\ alive' = TRUE /\ open' = [e \in End |-> TRUE] /\ nread' = 0 /\ nwrite' = 0

PipeDone(p) ==
    LET d == First(FreeFds(p))
        e == First(FreeFds(p) \ {d})
    IN  /\ PipeAlloc(p) /\ Cardinality(FreeFds(p)) >= 2
        /\ ofile' = [ofile EXCEPT ![p][d] = closeq[p][1], ![p][e] = closeq[p][2]]
        /\ closeq' = [closeq EXCEPT ![p] = <<>>] /\ Goto(p, "user")
        /\ UNCHANGED <<ref, ff, data, plock, ch, abandoned, killed, left>>

\* Without two descriptors, or if the user's array cannot be written, both files
\* are closed again.
PipeUndone(p) ==
    /\ PipeAlloc(p) /\ Goto(p, "close")
    /\ UNCHANGED <<ofile, ref, closeq, ff, data, plock, ch, abandoned, killed, left>>

SysDup(p, d, e) ==
    /\ User(p) /\ ofile[p][d] # None
    /\ FreeFds(p) # {} /\ e = First(FreeFds(p))
    /\ ofile' = [ofile EXCEPT ![p][e] = ofile[p][d]]
    /\ ref' = [ref EXCEPT ![ofile[p][d]] = @ + 1]
    /\ UNCHANGED <<kind, closeq, ff, pipeVars, killed, pc, left>>

SysClose(p, d) ==
    /\ User(p) /\ ofile[p][d] # None
    /\ closeq' = [closeq EXCEPT ![p] = <<ofile[p][d]>>]
    /\ ofile' = [ofile EXCEPT ![p][d] = None]
    /\ Goto(p, "close")
    /\ UNCHANGED <<ref, kind, ff, pipeVars, killed, left>>

\* fork() duplicates every descriptor of the parent.
Fork(p, q) ==
    /\ User(p) /\ pc[q] = "dead"
    /\ ofile' = [ofile EXCEPT ![q] = ofile[p]]
    /\ ref' = [f \in File |-> ref[f] + Cardinality({d \in Fd : ofile[p][d] = f})]
    /\ killed' = [killed EXCEPT ![q] = FALSE]
    /\ Goto(q, "user")
    /\ UNCHANGED <<kind, closeq, ff, pipeVars, left>>

\* exit(), by itself or for a killed process that leaves a system call
Exit(p) ==
    /\ pc[p] = "user" /\ p # Parent /\ Goto(p, "exit")
    /\ UNCHANGED <<fileVars, pipeVars, killed, left>>

\* A turn of its loop over the descriptors
ExitFile(p, d) ==
    /\ pc[p] = "exit" /\ closeq[p] = <<>> /\ ff[p] = None
    /\ ofile[p] # NoFiles /\ d = First(Fd \ FreeFds(p))
    /\ closeq' = [closeq EXCEPT ![p] = <<ofile[p][d]>>]
    /\ ofile' = [ofile EXCEPT ![p][d] = None]
    /\ UNCHANGED <<ref, kind, ff, pipeVars, killed, pc, left>>

NoneLeft(f) == ref[f] <= 2                                             \* mutant
LastRef(f) == ref[f] = 1

\* fileclose(), first half: under ftable.lock
FileClose(p) ==
    LET f == Head(closeq[p]) IN
    /\ pc[p] \in {"close", "exit"} /\ closeq[p] # <<>> /\ ff[p] = None
    /\ closeq' = [closeq EXCEPT ![p] = Tail(@)]
    /\ IF LastRef(f)
       THEN /\ ref' = [ref EXCEPT ![f] = 0]
            /\ ff' = [ff EXCEPT ![p] = kind[f]]
            /\ kind' = [kind EXCEPT ![f] = None]
       ELSE /\ ref' = [ref EXCEPT ![f] = @ - 1]
            /\ UNCHANGED <<kind, ff>>
    /\ UNCHANGED <<ofile, pipeVars, killed, pc, left>>

\* fileclose(), second half: pipeclose().  The page is freed with the last end.
AnyClosed(o) == \E e \in End : ~o[e]                                    \* mutant
BothClosed(o) == \A e \in End : ~o[e]

CloseWakes(e, f) == IF e = "w" THEN WakeReaders(f) ELSE WakeWriters(f)

PipeClose(p) ==
    /\ ff[p] # None /\ plock = None
    /\ open' = [open EXCEPT ![ff[p]] = FALSE]
    /\ pc' = CloseWakes(ff[p], pc)
    /\ alive' = ~BothClosed(open')
    /\ IF BothClosed(open')         \* the contents are dead
       THEN nread' = 0 /\ nwrite' = 0 /\ data' = [i \in DOMAIN data |-> None]
       ELSE UNCHANGED <<nread, nwrite, data>>
    /\ abandoned' = (abandoned /\ alive')
    /\ ff' = [ff EXCEPT ![p] = None]
    /\ UNCHANGED <<ofile, ref, kind, closeq, plock, ch, killed, left>>

Closed(p) ==
    /\ pc[p] \in {"close", "exit"} /\ closeq[p] = <<>> /\ ff[p] = None
    /\ pc[p] = "exit" => ofile[p] = NoFiles
    /\ Goto(p, IF pc[p] = "exit" THEN "dead" ELSE "user")
    /\ UNCHANGED <<fileVars, pipeVars, killed, left>>

-----------------------------------------------------------------------------
(* pipewrite()                                                              *)

SysWrite(p, n) ==
    /\ User(p) /\ Has(p, "w")
    /\ left' = [left EXCEPT ![p] = n] /\ Goto(p, "wlock")
    /\ UNCHANGED <<fileVars, pipeVars, killed>>

\* acquire(&pi->lock), at first and after sleep()
WriteLock(p) ==
    /\ pc[p] = "wlock" /\ plock = None
    /\ plock' = p /\ Goto(p, "wtest")
    /\ UNCHANGED <<fileVars, alive, data, nread, nwrite, open, ch, abandoned, killed, left>>

\* The loop ended: return with the wakeup(&pi->nread).
WriteDone(p) ==
    /\ pc[p] = "wtest" /\ left[p] = 0
    /\ pc' = [WakeReaders(pc) EXCEPT ![p] = "user"] /\ plock' = None
    /\ UNCHANGED <<fileVars, alive, data, nread, nwrite, open, ch, abandoned, killed, left>>

\* Return without it
WriteGivesUp(p) ==
    /\ pc[p] = "wtest" /\ left[p] # 0 /\ (~open["r"] \/ killed[p])
    /\ Goto(p, "user") /\ plock' = None /\ left' = [left EXCEPT ![p] = 0]
    /\ abandoned' = (open["r"] /\ nread # nwrite)
    /\ UNCHANGED <<fileVars, alive, data, nread, nwrite, open, ch, killed>>

WriteGoesOn(p) ==
    /\ pc[p] = "wtest" /\ left[p] # 0 /\ open["r"] /\ ~killed[p] /\ Goto(p, "wput")
    /\ UNCHANGED <<fileVars, pipeVars, killed, left>>

OverFull == nwrite = (nread + PIPESIZE + 1) % UintMod                    \* mutant
Full == nwrite = (nread + PIPESIZE) % UintMod

WriteSleep(p) ==
    /\ pc[p] = "wput" /\ Full
    /\ pc' = [WakeReaders(pc) EXCEPT ![p] = "wsleep"] /\ plock' = None
    /\ UNCHANGED <<fileVars, alive, data, nread, nwrite, open, ch, abandoned, killed, left>>

WritePut(p, c) ==
    /\ pc[p] = "wput" /\ ~Full
    /\ data' = [data EXCEPT ![nwrite % PIPESIZE] = c]
    /\ nwrite' = (nwrite + 1) % UintMod
    /\ left' = [left EXCEPT ![p] = @ - 1] /\ Goto(p, "wtest")
    /\ UNCHANGED <<fileVars, alive, nread, open, plock, ch, abandoned, killed>>

\* copyin() fails: the loop breaks
WriteFault(p) ==
    /\ pc[p] = "wput" /\ ~Full
    /\ pc' = [WakeReaders(pc) EXCEPT ![p] = "user"] /\ plock' = None
    /\ left' = [left EXCEPT ![p] = 0]
    /\ UNCHANGED <<fileVars, alive, data, nread, nwrite, open, ch, abandoned, killed>>

-----------------------------------------------------------------------------
(* piperead()                                                               *)

SysRead(p, n) ==
    /\ User(p) /\ Has(p, "r")
    /\ left' = [left EXCEPT ![p] = n] /\ Goto(p, "rlock")
    /\ UNCHANGED <<fileVars, pipeVars, killed>>

Empty == nread = nwrite

\* acquire(&pi->lock) and the test of the waiting loop
ReadWaits(p) ==
    /\ pc[p] = "rlock" /\ plock = None /\ Empty /\ open["w"] /\ ~killed[p]
    /\ Goto(p, "rwait") /\ plock' = p
    /\ UNCHANGED <<fileVars, alive, data, nread, nwrite, open, ch, abandoned, killed, left>>

ReadGivesUp(p) ==
    /\ pc[p] = "rlock" /\ plock = None /\ Empty /\ open["w"] /\ killed[p]
    /\ Goto(p, "user") /\ left' = [left EXCEPT ![p] = 0]
    /\ UNCHANGED <<fileVars, pipeVars, killed>>

ReadStarts(p) ==
    /\ pc[p] = "rlock" /\ plock = None /\ ~(Empty /\ open["w"])
    /\ Goto(p, "rcopy") /\ plock' = p
    /\ UNCHANGED <<fileVars, alive, data, nread, nwrite, open, ch, abandoned, killed, left>>

ReadSleep(p) ==
    /\ pc[p] = "rwait"
    /\ Goto(p, "rsleep") /\ plock' = None
    /\ UNCHANGED <<fileVars, alive, data, nread, nwrite, open, ch, abandoned, killed, left>>

\* One turn of the copying loop.  If copyout() fails the byte is gone.
ReadByte(p, fault) ==
    /\ pc[p] = "rcopy" /\ left[p] > 0 /\ ~Empty
    /\ ch' = data[nread % PIPESIZE]
    /\ data' = [data EXCEPT ![nread % PIPESIZE] = None]     \* dead
    /\ nread' = (nread + 1) % UintMod
    /\ abandoned' = (abandoned /\ nread' # nwrite)
    /\ left' = [left EXCEPT ![p] = IF fault THEN 0 ELSE @ - 1]
    /\ UNCHANGED <<fileVars, alive, nwrite, open, plock, killed, pc>>

NoReadWakeup(f) == f                                                    \* mutant
ReadWakeup(f) == WakeWriters(f)

ReadDone(p) ==
    /\ pc[p] = "rcopy" /\ (left[p] = 0 \/ Empty)
    /\ pc' = [ReadWakeup(pc) EXCEPT ![p] = "user"] /\ plock' = None
    /\ left' = [left EXCEPT ![p] = 0]
    /\ UNCHANGED <<fileVars, alive, data, nread, nwrite, open, ch, abandoned, killed>>

-----------------------------------------------------------------------------

Kill(q) ==
    /\ q \in Victim /\ pc[q] \notin {"dead", "exit"} /\ ~killed[q]
    /\ killed' = [killed EXCEPT ![q] = TRUE]
    /\ pc' = [pc EXCEPT ![q] = CASE @ = "rsleep" -> "rlock" [] @ = "wsleep" -> "wlock"
                                 [] OTHER -> @]
    /\ UNCHANGED <<fileVars, pipeVars, left>>

Write(p) == \/ WriteLock(p) \/ WriteDone(p) \/ WriteGivesUp(p) \/ WriteGoesOn(p)
            \/ WriteSleep(p) \/ WriteFault(p) \/ \E c \in Byte : WritePut(p, c)
Read(p)  == \/ ReadWaits(p) \/ ReadGivesUp(p) \/ ReadStarts(p) \/ ReadSleep(p)
            \/ ReadDone(p) \/ \E fault \in BOOLEAN : ReadByte(p, fault)
Close(p) == FileClose(p) \/ PipeClose(p) \/ Closed(p) \/ \E d \in Fd : ExitFile(p, d)

Make(p)  == \/ PipeAllocFails(p) \/ PipeDone(p) \/ PipeUndone(p)
            \/ \E f \in File : FileAlloc(p, f)

Kernel(p) == Write(p) \/ Read(p) \/ Close(p) \/ Make(p)

Syscall(p) ==
    \/ SysPipe(p)
    \/ \E d, e \in Fd : SysDup(p, d, e)
    \/ \E d \in Fd : SysClose(p, d)
    \/ \E q \in Proc : Fork(p, q)
    \/ \E n \in 1..MaxCount : SysWrite(p, n) \/ SysRead(p, n)
    \/ Exit(p)

Next == \E p \in Proc : Kernel(p) \/ Syscall(p) \/ Kill(p)

Spec == Init /\ [][Next]_vars

-----------------------------------------------------------------------------
(* Properties.                                                              *)

Used  == (nwrite - nread) % UintMod
Queue == [i \in 1..Used |-> data[(nread + i - 1) % PIPESIZE]]

Abstract == INSTANCE Fifo WITH Capacity <- PIPESIZE, NoByte <- None,
                                   queue <- Queue, out <- ch

\* A pipe is a bounded queue: no byte is overwritten, repeated or reordered,
\* however readers and writers sleep, wake and go, and across the wrap of
\* nread and nwrite.
ImplementsFifo == Abstract!FSpec

Pending(p, f) == \E i \in DOMAIN closeq[p] : closeq[p][i] = f

\* f->ref counts the descriptors that share the file and the processes that have it
\* in hand, in pipealloc() or before fileclose(), through dup, fork, exit and the
\* error paths of pipealloc() and sys_pipe().
FileRefsExact ==
    \A f \in File :
        ref[f] = Cardinality({x \in Proc \X Fd : ofile[x[1]][x[2]] = f})
                 + Cardinality({p \in Proc : Pending(p, f)})

\* Nobody uses the page of a freed pipe or a file without a type, no end is closed
\* under a process that can still use it, and none stays open that nobody will close,
\* though fileclose() gives the file back before it closes the end and pipealloc()
\* may take it again in between.
NoUseAfterFree ==
    /\ \A e \in End : open[e] =>
          \/ \E f \in File : ref[f] # 0 /\ kind[f] = e
          \/ \E p \in Proc : ff[p] = e
    /\ \A p \in Proc :
          /\ \A d \in Fd : ofile[p][d] # None => kind[ofile[p][d]] # None
          /\ \A e \in End : Has(p, e) => alive /\ open[e]
          /\ ff[p] # None => alive /\ open[ff[p]]
          /\ pc[p] \in {"rlock", "rwait", "rcopy", "rsleep"} => Has(p, "r")
          /\ pc[p] \in {"wlock", "wtest", "wput", "wsleep"} => Has(p, "w")

\* Who sleeps at a pipe sleeps for a reason: a reader because the pipe is empty
\* and may be written, a writer because it is full and may be read, unless the
\* process that has just changed this still holds pi->lock and will wake it, or
\* a writer was killed within its write: it leaves without the wakeup.
SleepsForAReason ==
    /\ (\E p \in Proc : pc[p] = "rsleep") =>
          (Empty /\ open["w"]) \/ plock # None \/ abandoned
    /\ (\E p \in Proc : pc[p] = "wsleep") => (Full /\ open["r"]) \/ plock # None
=============================================================================
