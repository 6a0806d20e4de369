-------------------------------- MODULE Log --------------------------------
(***************************************************************************)
(* The redo log of the xv6 kernel (kernel/log.c) with the part of the      *)
(* buffer cache it depends on (pins and recycling, kernel/bio.c) and a     *)
(* disk that keeps its blocks across a crash.                              *)
(*                                                                         *)
(* A critical section under log.lock is one action; every bwrite() of      *)
(* commit() and of recover_from_log() is one action, so that a crash can   *)
(* fall between any two of them, or tear the block being written.  A block *)
(* is two 512-byte sectors (fs.h BSIZE), and may tear; struct logheader is *)
(* 124 bytes, inside one sector, and does not.                             *)
(***************************************************************************)
EXTENDS Integers, Sequences, FiniteSets

CONSTANTS
    Block, Val, Proc, InitVal,
    Torn,          \* contents of a block whose write a crash cut short
    NoBuf,         \* no buffer of the cache holds the block
    MAXOPBLOCKS,   \* param.h: blocks one call may write
    LOGSIZE,       \* param.h: entries of the in-memory header
    NLog           \* sb.nlog: blocks of the on-disk log, header included

ASSUME LogAssumption ==
    /\ InitVal \in Val
    /\ Torn \notin Val /\ NoBuf \notin Val \cup {Torn}
    /\ MAXOPBLOCKS \in Nat \ {0}
    /\ LOGSIZE \in Nat /\ NLog \in Nat
    /\ IsFiniteSet(Proc)

VARIABLES
    disk,          \* home locations
    dlog,          \* data blocks of the on-disk log
    dhead,         \* on-disk header: the logged block numbers (n = Len)
    cache,         \* buffer cache contents
    pin,           \* references bpin() holds on a buffer
    lh,            \* log.lh, the in-memory header
    outstanding,   \* log.outstanding
    committing,    \* log.committing
    stage,         \* where commit() or recover_from_log() is
    tail,          \* loop variable of write_log() and install_trans()
    pc,            \* where each process is with its system call
    written,       \* blocks the current call of a process has logged
    panicked       \* a panic() of log.c was reached

vars == <<disk, dlog, dhead, cache, pin, lh, outstanding, committing, stage,
          tail, pc, written, panicked>>

Contents   == Val \cup {Torn}
LogSlot    == 1..LOGSIZE
Recovering == stage \in {"down", "rinstall"}
Entries(h) == {h[i] : i \in 1..Len(h)}

\* bread(): the cached copy, or the disk's when no buffer holds the block.
View(b) == IF cache[b] = NoBuf THEN disk[b] ELSE cache[b]

\* wakeup(&log): every sleeper is RUNNABLE again, back at the loop of begin_op().
NoWakeup(f) == f                                               \* mutant
Wakeup(f) == [p \in Proc |-> IF f[p] = "sleep" THEN "begin" ELSE f[p]]

Init ==
    /\ disk  = [b \in Block |-> InitVal]
    /\ dlog  = [i \in LogSlot |-> InitVal]
    /\ dhead = <<>>
    /\ cache = [b \in Block |-> NoBuf]
    /\ pin   = [b \in Block |-> 0]
    /\ lh    = <<>>
    /\ outstanding = 0 /\ committing = FALSE
    /\ stage = "down" /\ tail = 0
    /\ pc = [p \in Proc |-> "idle"]
    /\ written = [p \in Proc |-> {}]
    /\ panicked = FALSE

-----------------------------------------------------------------------------
(* Boot: fsinit() -> initlog() -> recover_from_log().                       *)

ReadHead ==
    /\ stage = "down"
    /\ lh' = dhead
    /\ stage' = "rinstall" /\ tail' = 0
    /\ UNCHANGED <<disk, dlog, dhead, cache, pin, outstanding, committing, pc,
                   written, panicked>>

\* One turn of install_trans(1): copy a log block home, no bunpin().
UnpinInRecovery(b) == pin' = [pin EXCEPT ![b] = @ - 1]          \* mutant
RecoveryUnpin(b)   == UNCHANGED pin

RecoverInstall ==
    /\ stage = "rinstall" /\ tail < Len(lh)
    /\ disk'  = [disk EXCEPT ![lh[tail + 1]] = dlog[tail + 1]]
    /\ cache' = [cache EXCEPT ![lh[tail + 1]] = dlog[tail + 1]]
    /\ RecoveryUnpin(lh[tail + 1])
    /\ tail' = tail + 1
    /\ UNCHANGED <<dlog, dhead, lh, outstanding, committing, stage, pc, written,
                   panicked>>

\* log.lh.n = 0; write_head(): the file system is up.
RecoverClear ==
    /\ stage = "rinstall" /\ tail = Len(lh)
    /\ lh' = <<>> /\ dhead' = <<>>
    /\ stage' = "up" /\ tail' = 0
    /\ UNCHANGED <<disk, dlog, cache, pin, outstanding, committing, pc, written,
                   panicked>>

-----------------------------------------------------------------------------
(* System calls.                                                            *)

CallBegin(p) ==
    /\ ~Recovering /\ pc[p] = "idle"
    /\ pc' = [pc EXCEPT ![p] = "begin"]
    /\ UNCHANGED <<disk, dlog, dhead, cache, pin, lh, outstanding, committing,
                   stage, tail, written, panicked>>

\* The test of begin_op(): a commit runs, or this call might exhaust the log.
MustWaitForget == committing \/ Len(lh) + outstanding * MAXOPBLOCKS > LOGSIZE  \* mutant
MustWait == committing \/ Len(lh) + (outstanding + 1) * MAXOPBLOCKS > LOGSIZE

BeginOp(p) ==
    /\ pc[p] = "begin" /\ ~panicked
    /\ IF MustWait
       THEN /\ pc' = [pc EXCEPT ![p] = "sleep"]
            /\ UNCHANGED <<outstanding, written>>
       ELSE /\ pc' = [pc EXCEPT ![p] = "op"]
            /\ outstanding' = outstanding + 1
            /\ written' = [written EXCEPT ![p] = {}]
    /\ UNCHANGED <<disk, dlog, dhead, cache, pin, lh, committing, stage, tail,
                   panicked>>

\* bread(b), change its data, log_write(b), brelse(b), under the buffer's sleep
\* lock.  A call logs at most MAXOPBLOCKS different blocks: the contract of the
\* code above the log.  A panic leaves log.lock held, so nothing that needs it
\* runs again, and the buffer locked, so nobody sees the change.
TooBig == Len(lh) >= LOGSIZE \/ Len(lh) >= NLog - 1

NeverAbsorbed(b) == FALSE                                      \* mutant
Absorbed(b) == b \in Entries(lh)

LogWrite(p, b, v) ==
    /\ pc[p] = "op" /\ ~panicked
    /\ Cardinality(written[p] \cup {b}) <= MAXOPBLOCKS
    /\ IF TooBig \/ outstanding < 1
       THEN /\ panicked' = TRUE
            /\ UNCHANGED <<cache, lh, pin, written>>
       ELSE /\ cache' = [cache EXCEPT ![b] = v]
            /\ written' = [written EXCEPT ![p] = @ \cup {b}]
            /\ IF Absorbed(b)
               THEN UNCHANGED <<lh, pin>>
               ELSE /\ lh' = Append(lh, b)
                    /\ pin' = [pin EXCEPT ![b] = @ + 1]
            /\ UNCHANGED panicked
    /\ UNCHANGED <<disk, dlog, dhead, outstanding, committing, stage, tail, pc>>

KeepsOneBlock == Len(lh) <= 1                                  \* mutant
NothingToCommit == Len(lh) = 0

\* end_op() up to its first release(): commit if this was the last call.
EndOp(p) ==
    /\ pc[p] = "op" /\ ~panicked
    /\ outstanding' = outstanding - 1
    /\ panicked' = committing
    /\ IF outstanding = 1
       THEN /\ committing' = TRUE
            /\ stage' = IF NothingToCommit THEN "done" ELSE "write_log"
            /\ pc' = [pc EXCEPT ![p] = "commit"]
       ELSE /\ pc' = Wakeup([pc EXCEPT ![p] = "idle"])
            /\ UNCHANGED <<committing, stage>>
    /\ tail' = 0
    /\ UNCHANGED <<disk, dlog, dhead, cache, pin, lh, written>>

-----------------------------------------------------------------------------
(* commit(), without log.lock: other calls wait because log.committing.     *)

\* One turn of write_log().
WriteLog ==
    /\ stage = "write_log" /\ tail < Len(lh)
    /\ dlog'  = [dlog EXCEPT ![tail + 1] = View(lh[tail + 1])]
    /\ cache' = [cache EXCEPT ![lh[tail + 1]] = View(lh[tail + 1])]
    /\ tail' = tail + 1
    /\ UNCHANGED <<disk, dhead, pin, lh, outstanding, committing, stage, pc,
                   written, panicked>>

\* write_head(): the point at which the transaction commits.
WriteHead ==
    /\ stage = "write_log" /\ tail = Len(lh)
    /\ dhead' = lh
    /\ stage' = "install" /\ tail' = 0
    /\ UNCHANGED <<disk, dlog, cache, pin, lh, outstanding, committing, pc,
                   written, panicked>>

\* One turn of install_trans(0).
Install ==
    /\ stage = "install" /\ tail < Len(lh)
    /\ disk'  = [disk EXCEPT ![lh[tail + 1]] = dlog[tail + 1]]
    /\ cache' = [cache EXCEPT ![lh[tail + 1]] = dlog[tail + 1]]
    /\ pin'   = [pin EXCEPT ![lh[tail + 1]] = @ - 1]
    /\ tail' = tail + 1
    /\ UNCHANGED <<dlog, dhead, lh, outstanding, committing, stage, pc, written,
                   panicked>>

AnyTime == TRUE                                                \* mutant
Installed == tail = Len(lh)

\* log.lh.n = 0; write_head(): erase the transaction from the log.
Erase ==
    /\ stage = "install" /\ Installed
    /\ lh' = <<>> /\ dhead' = <<>>
    /\ stage' = "done" /\ tail' = 0
    /\ UNCHANGED <<disk, dlog, cache, pin, outstanding, committing, pc, written,
                   panicked>>

\* The second critical section of end_op().
CommitDone ==
    /\ stage = "done" /\ ~panicked
    /\ committing' = FALSE
    /\ stage' = "up"
    /\ pc' = Wakeup([p \in Proc |-> IF pc[p] = "commit" THEN "idle" ELSE pc[p]])
    /\ UNCHANGED <<disk, dlog, dhead, cache, pin, lh, outstanding, tail, written,
                   panicked>>

-----------------------------------------------------------------------------
(* The buffer cache and the power.                                          *)

\* bread() of a block for a read-only use; reads need no transaction.
Bread(b) ==
    /\ ~Recovering
    /\ cache[b] = NoBuf
    /\ cache' = [cache EXCEPT ![b] = disk[b]]
    /\ UNCHANGED <<disk, dlog, dhead, pin, lh, outstanding, committing, stage,
                   tail, pc, written, panicked>>

\* bget() recycles an unreferenced buffer for another block.
Recycle(b) ==
    /\ cache[b] # NoBuf /\ pin[b] = 0
    /\ cache' = [cache EXCEPT ![b] = NoBuf]
    /\ UNCHANGED <<disk, dlog, dhead, pin, lh, outstanding, committing, stage,
                   tail, pc, written, panicked>>

\* Memory is lost; the block being written may be left torn.
Crash ==
    /\ \/ UNCHANGED <<disk, dlog>>
       \/ /\ stage = "write_log" /\ tail < Len(lh)
          /\ dlog' = [dlog EXCEPT ![tail + 1] = Torn]
          /\ UNCHANGED disk
       \/ /\ stage \in {"install", "rinstall"} /\ tail < Len(lh)
          /\ disk' = [disk EXCEPT ![lh[tail + 1]] = Torn]
          /\ UNCHANGED dlog
    /\ cache' = [b \in Block |-> NoBuf]
    /\ pin' = [b \in Block |-> 0]
    /\ lh' = <<>> /\ outstanding' = 0 /\ committing' = FALSE
    /\ stage' = "down" /\ tail' = 0
    /\ pc' = [p \in Proc |-> "idle"]
    /\ written' = [p \in Proc |-> {}]
    /\ panicked' = FALSE
    /\ UNCHANGED dhead

-----------------------------------------------------------------------------
Commit == WriteLog \/ WriteHead \/ Install \/ Erase \/ CommitDone

Recover == ReadHead \/ RecoverInstall \/ RecoverClear

Next ==
    \/ Recover
    \/ Commit
    \/ \E p \in Proc : CallBegin(p)
    \/ \E p \in Proc : BeginOp(p)
    \/ \E p \in Proc, b \in Block, v \in Val : LogWrite(p, b, v)
    \/ \E p \in Proc : EndOp(p)
    \/ \E b \in Block : Bread(b)
    \/ \E b \in Block : Recycle(b)
    \/ Crash

Spec == Init /\ [][Next]_vars

\* A booting or committing kernel thread runs on, and a call that got into the
\* log reaches its end_op(): the bodies of the calls are finite.
Fairness ==
    /\ WF_vars(Recover)
    /\ WF_vars(Commit)
    /\ \A p \in Proc : WF_vars(BeginOp(p)) /\ WF_vars(EndOp(p))

FairSpec == Spec /\ Fairness

-----------------------------------------------------------------------------
(* What the disk and the cache mean to the file system.                     *)

\* What recover_from_log() would make of the disk as it is now.
Durable ==
    [b \in Block |-> IF b \in Entries(dhead)
                     THEN dlog[CHOOSE i \in 1..Len(dhead) : dhead[i] = b]
                     ELSE disk[b]]

Current == IF Recovering THEN Durable ELSE [b \in Block |-> View(b)]

Active == {p \in Proc : pc[p] = "op"}

Abstract == INSTANCE AtomicLog
                WITH durable <- Durable, current <- Current, active <- Active

-----------------------------------------------------------------------------
(* Properties.                                                              *)

\* Every variable has its type, and both headers fit struct logheader.
TypeOK ==
    /\ disk \in [Block -> Contents]
    /\ dlog \in [LogSlot -> Contents]
    /\ dhead \in Seq(Block) /\ Len(dhead) <= LOGSIZE
    /\ cache \in [Block -> Contents \cup {NoBuf}]
    /\ pin \in [Block -> Nat]
    /\ lh \in Seq(Block) /\ Len(lh) <= LOGSIZE
    /\ outstanding \in Nat
    /\ committing \in BOOLEAN
    /\ stage \in {"down", "rinstall", "up", "write_log", "install", "done"}
    /\ tail \in 0..LOGSIZE
    /\ pc \in [Proc -> {"idle", "begin", "sleep", "op", "commit"}]
    /\ written \in [Proc -> SUBSET Block]
    /\ panicked \in BOOLEAN

\* The kernel's log implements the atomic log: whatever crashes fall between
\* the disk writes of commit() and of recovery, a reboot shows the image of the
\* last commit, and no commit includes a call that has not reached end_op().
ImplementsAtomicLog == Abstract!ASpec

\* When no call is in progress and no commit is running, everything the file
\* system shows is durable: end_op() of the last call has made all of the
\* grouped calls permanent.
QuiescentIsDurable ==
    stage = "up" /\ Active = {} => Durable = Current

\* bpin() and bunpin() balance: a block is pinned exactly once while it waits
\* in the log to be installed, absorbed writes included, so that bget() never
\* recycles the only copy and no buffer stays unrecyclable after the commit.
PinMatchesLog ==
    ~Recovering =>
        \A b \in Block :
            pin[b] = IF \E i \in 1..Len(lh) :
                           lh[i] = b /\ (stage = "install" => i > tail)
                     THEN 1 ELSE 0

\* The blocks the calls in progress have logged, call by call.
Logged == {x \in Active \X Block : x[2] \in written[x[1]]}

\* The reservation of begin_op() adds up: what is logged and what the calls in
\* progress may still log, MAXOPBLOCKS each less what each has logged, never
\* exceeds the LOGSIZE entries of log.lh.
ReservationHolds ==
    Len(lh) + (MAXOPBLOCKS * Cardinality(Active) - Cardinality(Logged)) <= LOGSIZE

\* Calls that keep to MAXOPBLOCKS never reach the "too big a transaction" panic:
\* "this op might exhaust log space; wait for commit" (log.c, begin_op).
NoPanic == ~panicked

\* A call that begin_op() put to sleep is woken: the wakeup(&log) of end_op()
\* is never lost.
SleeperWakes == \A p \in Proc : pc[p] = "sleep" ~> pc[p] # "sleep"
=============================================================================
