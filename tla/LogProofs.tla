----------------------------- MODULE LogProofs -----------------------------
(***************************************************************************)
(* Proofs about the redo log (module Log) for every number of blocks,      *)
(* processes and log entries: type correctness, the pins, durability, the  *)
(* reservation of begin_op(), and that the log implements AtomicLog.       *)
(*                                                                         *)
(* All of them rest on one inductive invariant, LogInv.  Its parts say, at *)
(* each stage of commit() and of recovery, which copy of a block is the    *)
(* good one.                                                               *)
(***************************************************************************)
EXTENDS Log, FiniteSetTheorems, SequenceTheorems, TLAPS

\* No block has two slots of a header: log absorption.
Injective(h) == \A i, j \in 1..Len(h) : h[i] = h[j] => i = j

HeadersInv == Injective(lh) /\ Injective(dhead)

\* log.outstanding counts the calls in progress.
CountInv == outstanding = Cardinality(Active)

\* While the machine is down or recovering, nothing runs and nothing is pinned.
BootInv ==
    Recovering => /\ outstanding = 0 /\ ~committing
                  /\ pc = [p \in Proc |-> "idle"]
                  /\ pin = [b \in Block |-> 0]
                  /\ \A b \in Block : cache[b] # NoBuf => cache[b] = disk[b]

DownInv == stage = "down" => lh = <<>>

RecoverInv ==
    stage = "rinstall" => /\ lh = dhead /\ tail <= Len(lh)
                          /\ \A i \in 1..tail : disk[lh[i]] = dlog[i]

\* Outside a commit the on-disk header is empty; a commit runs alone.
StageInv ==
    /\ stage \in {"up", "write_log", "done"} => dhead = <<>>
    /\ stage = "up" => ~committing
    /\ stage \in {"write_log", "install", "done"} => committing /\ outstanding = 0
    /\ stage = "done" => lh = <<>>
    /\ stage \in {"write_log", "install"} => tail <= Len(lh)
    /\ (stage = "up" /\ Active = {}) => lh = <<>>

\* What is logged is in the cache until it is installed; every other cached
\* block equals its home block.
CacheInv ==
    stage \in {"up", "write_log", "done"} =>
        \A b \in Block : IF b \in Entries(lh) THEN cache[b] # NoBuf /\ pin[b] = 1
                         ELSE pin[b] = 0 /\ (cache[b] # NoBuf => cache[b] = disk[b])

WriteLogInv ==
    stage = "write_log" => \A i \in 1..tail : dlog[i] = cache[lh[i]]

InstallInv ==
    stage = "install" =>
        /\ dhead = lh
        /\ \A b \in Block : b \notin Entries(lh) =>
               pin[b] = 0 /\ (cache[b] # NoBuf => cache[b] = disk[b])
        /\ \A i \in 1..Len(lh) :
               IF i <= tail
               THEN /\ pin[lh[i]] = 0 /\ disk[lh[i]] = dlog[i]
                    /\ cache[lh[i]] # NoBuf => cache[lh[i]] = dlog[i]
               ELSE pin[lh[i]] = 1 /\ cache[lh[i]] = dlog[i]

LogInv ==
    /\ TypeOK /\ HeadersInv /\ CountInv /\ BootInv /\ DownInv /\ RecoverInv
    /\ StageInv /\ CacheInv /\ WriteLogInv /\ InstallInv

-----------------------------------------------------------------------------
(* Lemmas.                                                                  *)

\* The calls in progress are finitely many, and counted by a natural number.
LEMMA ActiveFinite ==
    ASSUME TypeOK PROVE IsFiniteSet(Active) /\ Cardinality(Active) \in Nat
  <1>1. Active \subseteq Proc  BY DEF Active
  <1>2. IsFiniteSet(Active)  BY <1>1, LogAssumption, FS_Subset DEF LogAssumption
  <1>3. QED  BY <1>2, FS_CardinalityType

\* A call in progress holds a reservation: log.outstanding is positive.
LEMMA ActiveCounted ==
    ASSUME TypeOK, CountInv, NEW p \in Proc, pc[p] = "op"
    PROVE  /\ outstanding >= 1 /\ outstanding \in Nat
           /\ outstanding = 1 => Active = {p}
           /\ outstanding # 1 => Active \ {p} # {}
           /\ Cardinality(Active \ {p}) = outstanding - 1
  <1>1. p \in Active  BY DEF Active
  <1>2. IsFiniteSet(Active) /\ Cardinality(Active) \in Nat  BY ActiveFinite
  <1>3. /\ IsFiniteSet(Active \ {p})
        /\ Cardinality(Active \ {p}) = Cardinality(Active) - 1
    BY <1>1, <1>2, FS_RemoveElement
  <1>4. Cardinality(Active \ {p}) \in Nat  BY <1>3, FS_CardinalityType
  <1>5. Cardinality(Active \ {p}) = 0 <=> Active \ {p} = {}
    BY <1>3, FS_EmptySet
  <1>6. QED  BY <1>1, <1>2, <1>3, <1>4, <1>5 DEF CountInv

\* Nothing is in progress when log.outstanding is 0.
LEMMA NoneActive ==
    ASSUME TypeOK, CountInv, outstanding = 0 PROVE Active = {}
  BY ActiveFinite, FS_EmptySet DEF CountInv

\* A system call is in progress only while the log is open.
LEMMA InCallIsUp ==
    ASSUME LogInv, NEW p \in Proc, pc[p] = "op"
    PROVE  stage = "up" /\ ~committing /\ dhead = <<>>
  <1>1. outstanding >= 1 /\ outstanding \in Nat  BY ActiveCounted DEF LogInv
  <1>2. ~Recovering  BY <1>1 DEF LogInv, BootInv
  <1>3. QED  BY <1>1, <1>2 DEF LogInv, StageInv, TypeOK, Recovering

\* Reading a log header through the slot CHOOSE picks.
LEMMA SlotOf ==
    ASSUME NEW h \in Seq(Block), Injective(h), NEW i \in 1..Len(h)
    PROVE  (CHOOSE j \in 1..Len(h) : h[j] = h[i]) = i
  <1>1. \E j \in 1..Len(h) : h[j] = h[i]  OBVIOUS
  <1>2. QED  BY <1>1 DEF Injective

\* log.lh.block[i] = b->blockno with a block that is not there yet.
LEMMA AppendEntry ==
    ASSUME NEW h \in Seq(Block), NEW b \in Block, Injective(h), b \notin Entries(h)
    PROVE  /\ Append(h, b) \in Seq(Block) /\ Len(Append(h, b)) = Len(h) + 1
           /\ Injective(Append(h, b))
           /\ Entries(Append(h, b)) = Entries(h) \cup {b}
  <1> DEFINE g == Append(h, b)
  <1>1. g \in Seq(Block) /\ Len(g) = Len(h) + 1 /\ Len(h) \in Nat  OBVIOUS
  <1>2. \A i \in 1..Len(h) : g[i] = h[i]  OBVIOUS
  <1>3. g[Len(h) + 1] = b  OBVIOUS
  <1>4. Injective(g)  BY <1>1, <1>2, <1>3 DEF Injective, Entries
  <1>5. Entries(g) = Entries(h) \cup {b}
    <2>1. ASSUME NEW x \in Entries(g) PROVE x \in Entries(h) \cup {b}
      BY <1>1, <1>2, <1>3 DEF Entries
    <2>2. ASSUME NEW x \in Entries(h) PROVE x \in Entries(g)
      <3>1. PICK i \in 1..Len(h) : x = h[i]  BY DEF Entries
      <3>2. i \in 1..Len(g) /\ g[i] = x  BY <1>1, <1>2, <3>1
      <3>3. QED  BY <3>2 DEF Entries
    <2>3. b \in Entries(g)
      <3>1. Len(h) + 1 \in 1..Len(g)  BY <1>1
      <3>2. QED  BY <1>3, <3>1 DEF Entries
    <2>4. QED  BY <2>1, <2>2, <2>3
  <1>6. QED  BY <1>1, <1>4, <1>5

-----------------------------------------------------------------------------
(* LogInv is inductive.                                                     *)

\* A fresh image satisfies the invariant.
LEMMA InitInv == Init => LogInv
  <1> SUFFICES ASSUME Init PROVE LogInv  OBVIOUS
  <1>1. TypeOK
    <2>1. <<>> \in Seq(Block) /\ Len(<<>>) = 0  OBVIOUS
    <2>2. disk \in [Block -> Contents] /\ dlog \in [LogSlot -> Contents]
      BY LogAssumption DEF Init, Contents, LogAssumption
    <2>3. committing \in BOOLEAN /\ panicked \in BOOLEAN  BY DEF Init
    <2>4. cache \in [Block -> Contents \cup {NoBuf}]  BY DEF Init
    <2>5. QED  BY <2>1, <2>2, <2>3, <2>4, LogAssumption DEF Init, TypeOK, LogAssumption
  <1>2. Active = {}  BY DEF Init, Active
  <1>3. Cardinality(Active) = 0  BY <1>2, FS_EmptySet
  <1>4. QED  BY <1>1, <1>2, <1>3 DEF LogInv, Init, HeadersInv, Injective, CountInv,
       BootInv, DownInv, RecoverInv, StageInv, CacheInv, WriteLogInv, InstallInv, Recovering

\* read_head() at boot.
LEMMA ReadHeadInv == LogInv /\ ReadHead => LogInv'
  <1> SUFFICES ASSUME LogInv, ReadHead PROVE LogInv'  OBVIOUS
  <1>1. TypeOK'  BY LogAssumption DEF LogInv, TypeOK, ReadHead, LogAssumption, Contents, LogSlot
  <1>2. Active' = Active  BY DEF ReadHead, Active
  <1>3. HeadersInv' /\ CountInv'
    BY <1>2 DEF LogInv, HeadersInv, Injective, CountInv, ReadHead
  <1>4. BootInv' /\ DownInv' /\ RecoverInv'
    BY DEF LogInv, TypeOK, BootInv, DownInv, RecoverInv, Recovering, ReadHead
  <1>5. StageInv' /\ CacheInv' /\ WriteLogInv' /\ InstallInv'
    BY DEF StageInv, CacheInv, WriteLogInv, InstallInv, ReadHead
  <1>6. QED  BY <1>1, <1>3, <1>4, <1>5 DEF LogInv

\* A turn of install_trans(1).
LEMMA RecoverInstallInv == LogInv /\ RecoverInstall => LogInv'
  <1> SUFFICES ASSUME LogInv, RecoverInstall PROVE LogInv'  OBVIOUS
  <1>0. /\ lh \in Seq(Block) /\ Len(lh) \in Nat /\ tail \in Nat
        /\ tail + 1 \in 1..Len(lh) /\ lh[tail + 1] \in Block
        /\ tail + 1 \in LogSlot /\ LOGSIZE \in Nat
    BY LogAssumption DEF LogInv, TypeOK, RecoverInstall, LogAssumption, LogSlot
  <1>1. TypeOK'
    <2>1. dlog[tail + 1] \in Contents  BY <1>0 DEF LogInv, TypeOK
    <2>2. QED  BY <1>0, <2>1 DEF LogInv, TypeOK, RecoverInstall, RecoveryUnpin
  <1>2. Active' = Active  BY DEF RecoverInstall, Active
  <1>3. HeadersInv' /\ CountInv'
    BY <1>2 DEF LogInv, HeadersInv, Injective, CountInv, RecoverInstall
  <1>4. BootInv'
    BY <1>0 DEF LogInv, TypeOK, BootInv, Recovering, RecoverInstall, RecoveryUnpin
  <1>5. DownInv' /\ RecoverInv'
    <2>1. \A i \in 1..tail : lh[i] # lh[tail + 1] /\ i \in 1..Len(lh)
      BY <1>0 DEF LogInv, HeadersInv, Injective
    <2>2. QED  BY <1>0, <2>1 DEF LogInv, TypeOK, DownInv, RecoverInv, RecoverInstall
  <1>6. StageInv' /\ CacheInv' /\ WriteLogInv' /\ InstallInv'
    BY DEF StageInv, CacheInv, WriteLogInv, InstallInv, RecoverInstall
  <1>7. QED  BY <1>1, <1>3, <1>4, <1>5, <1>6 DEF LogInv

\* The write_head() that clears the log after recovery.
LEMMA RecoverClearInv == LogInv /\ RecoverClear => LogInv'
  <1> SUFFICES ASSUME LogInv, RecoverClear PROVE LogInv'  OBVIOUS
  <1>0. <<>> \in Seq(Block) /\ Len(<<>>) = 0  OBVIOUS
  <1>1. TypeOK'
    BY <1>0, LogAssumption DEF LogInv, TypeOK, RecoverClear, LogAssumption
  <1>2. Active' = Active /\ Entries(lh') = {}  BY <1>0 DEF RecoverClear, Active, Entries
  <1>3. HeadersInv' /\ CountInv'
    BY <1>0, <1>2 DEF LogInv, HeadersInv, Injective, CountInv, RecoverClear
  <1>4. BootInv' /\ DownInv' /\ RecoverInv' /\ WriteLogInv' /\ InstallInv'
    BY DEF BootInv, DownInv, RecoverInv, WriteLogInv, InstallInv, Recovering, RecoverClear
  <1>5. StageInv' /\ CacheInv'
    BY <1>2 DEF LogInv, TypeOK, BootInv, StageInv, CacheInv, Recovering, RecoverClear, Entries
  <1>6. QED  BY <1>1, <1>3, <1>4, <1>5 DEF LogInv

\* A process enters begin_op().
LEMMA CallBeginInv == ASSUME NEW p \in Proc PROVE LogInv /\ CallBegin(p) => LogInv'
  <1> SUFFICES ASSUME LogInv, CallBegin(p) PROVE LogInv'  OBVIOUS
  <1>1. TypeOK'  BY DEF LogInv, TypeOK, CallBegin
  <1>2. Active' = Active  BY DEF LogInv, TypeOK, CallBegin, Active
  <1>3. HeadersInv' /\ CountInv'
    BY <1>2 DEF LogInv, HeadersInv, Injective, CountInv, CallBegin
  <1>4. ~Recovering /\ ~Recovering'  BY DEF CallBegin, Recovering
  <1>5. BootInv' /\ DownInv' /\ RecoverInv'
    BY <1>4 DEF BootInv, DownInv, RecoverInv, Recovering
  <1>6. StageInv' /\ CacheInv' /\ WriteLogInv' /\ InstallInv'
    BY <1>2 DEF LogInv, StageInv, CacheInv, WriteLogInv, InstallInv, CallBegin, Entries
  <1>7. QED  BY <1>1, <1>3, <1>5, <1>6 DEF LogInv

\* A turn of the loop of begin_op().
LEMMA BeginOpInv == ASSUME NEW p \in Proc PROVE LogInv /\ BeginOp(p) => LogInv'
  <1> SUFFICES ASSUME LogInv, BeginOp(p) PROVE LogInv'  OBVIOUS
  <1>1. TypeOK'
    <2>1. CASE MustWait  BY <2>1 DEF LogInv, TypeOK, BeginOp
    <2>2. CASE ~MustWait
      <3>1. written' \in [Proc -> SUBSET Block]  BY <2>2 DEF LogInv, TypeOK, BeginOp
      <3>2. pc' \in [Proc -> {"idle", "begin", "sleep", "op", "commit"}]
        BY <2>2 DEF LogInv, TypeOK, BeginOp
      <3>3. QED  BY <2>2, <3>1, <3>2 DEF LogInv, TypeOK, BeginOp
    <2>3. QED  BY <2>1, <2>2
  <1>2. ~Recovering /\ ~Recovering'  BY DEF LogInv, BootInv, BeginOp, Recovering
  <1>3. BootInv' /\ DownInv' /\ RecoverInv'
    BY <1>2 DEF BootInv, DownInv, RecoverInv, Recovering
  <1>4. CASE MustWait
    <2>1. Active' = Active /\ outstanding' = outstanding
      BY <1>4 DEF LogInv, TypeOK, BeginOp, Active
    <2>2. HeadersInv' /\ CountInv'
      BY <2>1 DEF LogInv, HeadersInv, Injective, CountInv, BeginOp
    <2>3. StageInv' /\ CacheInv' /\ WriteLogInv' /\ InstallInv'
      BY <2>1 DEF LogInv, StageInv, CacheInv, WriteLogInv, InstallInv, BeginOp, Entries
    <2>4. QED  BY <1>1, <1>3, <2>2, <2>3 DEF LogInv
  <1>5. CASE ~MustWait
    <2>1. Active' = Active \cup {p} /\ p \notin Active
      BY <1>5 DEF LogInv, TypeOK, BeginOp, Active
    <2>2. Cardinality(Active') = outstanding + 1
      BY <2>1, ActiveFinite, FS_AddElement DEF LogInv, CountInv
    <2>3. HeadersInv' /\ CountInv'
      BY <1>5, <2>2 DEF LogInv, HeadersInv, Injective, CountInv, BeginOp
    <2>4. stage = "up"  BY <1>2, <1>5 DEF LogInv, TypeOK, StageInv, MustWait, Recovering
    <2>5. StageInv' /\ CacheInv' /\ WriteLogInv' /\ InstallInv'
      BY <2>1, <2>4 DEF LogInv, StageInv, CacheInv, WriteLogInv, InstallInv, BeginOp, Entries
    <2>6. QED  BY <1>1, <1>3, <2>3, <2>5 DEF LogInv
  <1>6. QED  BY <1>4, <1>5

\* bread(), a change and log_write(), absorbed or not.
LEMMA LogWriteInv ==
    ASSUME NEW p \in Proc, NEW b \in Block, NEW v \in Val
    PROVE  LogInv /\ LogWrite(p, b, v) => LogInv'
  <1> SUFFICES ASSUME LogInv, LogWrite(p, b, v) PROVE LogInv'  OBVIOUS
  <1>1. stage = "up" /\ ~committing /\ dhead = <<>> /\ outstanding >= 1
        /\ outstanding \in Nat /\ Active # {}
    BY InCallIsUp, ActiveCounted DEF LogInv, LogWrite, Active
  <1>2. Active' = Active /\ stage' = stage  BY DEF LogWrite, Active
  <1>3. BootInv' /\ DownInv' /\ RecoverInv' /\ WriteLogInv' /\ InstallInv'
    BY <1>1, <1>2 DEF BootInv, DownInv, RecoverInv, WriteLogInv, InstallInv, Recovering
  <1>4. CountInv' /\ StageInv'
    BY <1>1, <1>2 DEF LogInv, CountInv, StageInv, LogWrite
  <1>5. CASE TooBig
    <2>1. TypeOK'  BY <1>5 DEF LogInv, TypeOK, LogWrite
    <2>2. HeadersInv' /\ CacheInv'
      BY <1>5 DEF LogInv, HeadersInv, Injective, CacheInv, LogWrite, Entries
    <2>3. QED  BY <1>3, <1>4, <2>1, <2>2 DEF LogInv
  <1>6. CASE ~TooBig
    <2>1. /\ cache' = [cache EXCEPT ![b] = v] /\ v \in Contents /\ v # NoBuf
          /\ written' = [written EXCEPT ![p] = @ \cup {b}]
          /\ UNCHANGED <<disk, dlog, dhead, outstanding, committing, stage, tail, pc,
                         panicked>>
      BY <1>1, <1>6, LogAssumption DEF LogWrite, Contents, LogAssumption
    <2>2. written' \in [Proc -> SUBSET Block]  BY <2>1 DEF LogInv, TypeOK
    <2>3. cache' \in [Block -> Contents \cup {NoBuf}]  BY <2>1 DEF LogInv, TypeOK
    <2>4. CASE Absorbed(b)
      <3>1. UNCHANGED <<lh, pin>>  BY <1>1, <1>6, <2>4 DEF LogWrite
      <3>2. TypeOK'  BY <2>1, <2>2, <2>3, <3>1 DEF LogInv, TypeOK
      <3>3. HeadersInv'  BY <2>1, <3>1 DEF LogInv, HeadersInv, Injective
      <3>4. CacheInv'
        BY <1>1, <2>1, <2>4, <3>1 DEF LogInv, TypeOK, CacheInv, Absorbed, Entries
      <3>5. QED  BY <1>3, <1>4, <3>2, <3>3, <3>4 DEF LogInv
    <2>5. CASE ~Absorbed(b)
      <3>1. lh' = Append(lh, b) /\ pin' = [pin EXCEPT ![b] = @ + 1]
        BY <1>1, <1>6, <2>5 DEF LogWrite
      <3>2. /\ lh' \in Seq(Block) /\ Len(lh') = Len(lh) + 1 /\ Injective(lh')
            /\ Entries(lh') = Entries(lh) \cup {b}
        BY <2>5, <3>1, AppendEntry DEF LogInv, TypeOK, HeadersInv, Absorbed
      <3>3. Len(lh') <= LOGSIZE
        BY <1>6, <3>2, LogAssumption DEF TooBig, LogInv, TypeOK, LogAssumption
      <3>4. pin[b] = 0  BY <1>1, <2>5 DEF LogInv, CacheInv, Absorbed
      <3>5. pin' \in [Block -> Nat]  BY <3>1 DEF LogInv, TypeOK
      <3>6. TypeOK'  BY <2>1, <2>2, <2>3, <3>2, <3>3, <3>5 DEF LogInv, TypeOK
      <3>7. HeadersInv'  BY <2>1, <3>2 DEF LogInv, HeadersInv, Injective
      <3>8. CacheInv'
        BY <1>1, <2>1, <3>1, <3>2, <3>4 DEF LogInv, TypeOK, CacheInv
      <3>9. QED  BY <1>3, <1>4, <3>6, <3>7, <3>8 DEF LogInv
    <2>6. QED  BY <2>4, <2>5
  <1>7. QED  BY <1>5, <1>6

\* end_op(): the last call starts the commit.
LEMMA EndOpInv == ASSUME NEW p \in Proc PROVE LogInv /\ EndOp(p) => LogInv'
  <1> SUFFICES ASSUME LogInv, EndOp(p) PROVE LogInv'  OBVIOUS
  <1>1. /\ stage = "up" /\ ~committing /\ dhead = <<>> /\ outstanding >= 1
        /\ outstanding \in Nat
        /\ outstanding = 1 => Active = {p}
        /\ outstanding # 1 => Active \ {p} # {}
        /\ Cardinality(Active \ {p}) = outstanding - 1
    BY InCallIsUp, ActiveCounted DEF LogInv, EndOp
  <1>2. Active' = Active \ {p}
    <2>1. CASE outstanding = 1  BY <2>1 DEF LogInv, TypeOK, EndOp, Active
    <2>2. CASE outstanding # 1  BY <2>2 DEF LogInv, TypeOK, EndOp, Active, Wakeup
    <2>3. QED  BY <2>1, <2>2
  <1>3. HeadersInv' /\ CountInv'
    BY <1>1, <1>2 DEF LogInv, HeadersInv, Injective, CountInv, EndOp
  <1>4. pc' \in [Proc -> {"idle", "begin", "sleep", "op", "commit"}]
    <2>1. CASE outstanding = 1  BY <2>1 DEF LogInv, TypeOK, EndOp
    <2>2. CASE outstanding # 1  BY <2>2 DEF LogInv, TypeOK, EndOp, Wakeup
    <2>3. QED  BY <2>1, <2>2
  <1>5. /\ committing' \in BOOLEAN /\ panicked' \in BOOLEAN
        /\ stage' \in {"up", "write_log", "done"}
    BY <1>1 DEF LogInv, TypeOK, EndOp
  <1>6. TypeOK'
    BY <1>1, <1>4, <1>5, LogAssumption DEF LogInv, TypeOK, EndOp, LogAssumption
  <1>7. BootInv' /\ DownInv' /\ RecoverInv' /\ InstallInv'
    BY <1>5 DEF BootInv, DownInv, RecoverInv, InstallInv, Recovering
  <1>8. WriteLogInv'  BY DEF WriteLogInv, EndOp
  <1>9. CacheInv'  BY <1>1 DEF LogInv, CacheInv, EndOp, Entries
  <1>10. StageInv'
    <2>1. CASE outstanding = 1
      <3>1. Len(lh) = 0 => lh = <<>>  BY DEF LogInv, TypeOK
      <3>2. QED  BY <1>1, <1>2, <2>1, <3>1 DEF LogInv, TypeOK, StageInv, EndOp, NothingToCommit
    <2>2. CASE outstanding # 1
      BY <1>1, <1>2, <2>2 DEF LogInv, StageInv, EndOp
    <2>3. QED  BY <2>1, <2>2
  <1>11. QED  BY <1>3, <1>6, <1>7, <1>8, <1>9, <1>10 DEF LogInv

\* A turn of write_log().
LEMMA WriteLogStepInv == LogInv /\ WriteLog => LogInv'
  <1> SUFFICES ASSUME LogInv, WriteLog PROVE LogInv'  OBVIOUS
  <1>0. /\ lh \in Seq(Block) /\ Len(lh) \in Nat /\ tail \in Nat
        /\ tail + 1 \in 1..Len(lh) /\ lh[tail + 1] \in Block
        /\ tail + 1 \in LogSlot /\ LOGSIZE \in Nat
    BY LogAssumption DEF LogInv, TypeOK, WriteLog, LogAssumption, LogSlot
  <1>1. /\ lh[tail + 1] \in Entries(lh) /\ cache[lh[tail + 1]] # NoBuf
        /\ View(lh[tail + 1]) = cache[lh[tail + 1]]
    BY <1>0 DEF LogInv, CacheInv, WriteLog, Entries, View
  <1>2. cache' = cache /\ dlog' = [dlog EXCEPT ![tail + 1] = cache[lh[tail + 1]]]
    BY <1>0, <1>1 DEF LogInv, TypeOK, WriteLog
  <1>3. cache[lh[tail + 1]] \in Contents  BY <1>0, <1>1 DEF LogInv, TypeOK
  <1>4. TypeOK'  BY <1>0, <1>2, <1>3 DEF LogInv, TypeOK, WriteLog
  <1>5. Active' = Active  BY DEF WriteLog, Active
  <1>6. HeadersInv' /\ CountInv'
    BY <1>5 DEF LogInv, HeadersInv, Injective, CountInv, WriteLog
  <1>7. BootInv' /\ DownInv' /\ RecoverInv' /\ InstallInv'
    BY DEF BootInv, DownInv, RecoverInv, InstallInv, Recovering, WriteLog
  <1>8. StageInv' /\ CacheInv'
    BY <1>0, <1>2, <1>5 DEF LogInv, StageInv, CacheInv, WriteLog, Entries
  <1>9. WriteLogInv'
    BY <1>0, <1>2 DEF LogInv, TypeOK, WriteLogInv, WriteLog
  <1>10. QED  BY <1>4, <1>6, <1>7, <1>8, <1>9 DEF LogInv

\* The write_head() that commits.
LEMMA WriteHeadInv == LogInv /\ WriteHead => LogInv'
  <1> SUFFICES ASSUME LogInv, WriteHead PROVE LogInv'  OBVIOUS
  <1>1. TypeOK'  BY LogAssumption DEF LogInv, TypeOK, WriteHead, LogAssumption
  <1>2. Active' = Active  BY DEF WriteHead, Active
  <1>3. HeadersInv' /\ CountInv'
    BY <1>2 DEF LogInv, HeadersInv, Injective, CountInv, WriteHead
  <1>4. BootInv' /\ DownInv' /\ RecoverInv' /\ CacheInv' /\ WriteLogInv'
    BY DEF BootInv, DownInv, RecoverInv, CacheInv, WriteLogInv, Recovering, WriteHead
  <1>5. StageInv'  BY DEF LogInv, TypeOK, StageInv, WriteHead
  <1>6. InstallInv'
    <2>1. ASSUME NEW i \in 1..Len(lh)
          PROVE  pin[lh[i]] = 1 /\ cache[lh[i]] = dlog[i] /\ ~(i <= tail')
      <3>1. lh[i] \in Entries(lh) /\ lh[i] \in Block  BY DEF Entries, LogInv, TypeOK
      <3>2. QED  BY <3>1 DEF LogInv, TypeOK, CacheInv, WriteLogInv, WriteHead
    <2>2. ASSUME NEW b \in Block, b \notin Entries(lh)
          PROVE  pin[b] = 0 /\ (cache[b] # NoBuf => cache[b] = disk[b])
      BY <2>2 DEF LogInv, CacheInv, WriteHead
    <2>3. QED  BY <2>1, <2>2 DEF InstallInv, WriteHead, Entries
  <1>7. QED  BY <1>1, <1>3, <1>4, <1>5, <1>6 DEF LogInv

\* A turn of install_trans(0).
LEMMA InstallStepInv == LogInv /\ Install => LogInv'
  <1> SUFFICES ASSUME LogInv, Install PROVE LogInv'  OBVIOUS
  <1>0. /\ lh \in Seq(Block) /\ Len(lh) \in Nat /\ tail \in Nat
        /\ tail + 1 \in 1..Len(lh) /\ lh[tail + 1] \in Block
        /\ tail + 1 \in LogSlot /\ LOGSIZE \in Nat
    BY LogAssumption DEF LogInv, TypeOK, Install, LogAssumption, LogSlot
  <1>1. dlog[tail + 1] \in Contents  BY <1>0 DEF LogInv, TypeOK
  <1>2. pin[lh[tail + 1]] = 1 /\ cache[lh[tail + 1]] = dlog[tail + 1]
    BY <1>0 DEF LogInv, InstallInv, Install
  <1>3. cache' = cache  BY <1>0, <1>2 DEF LogInv, TypeOK, Install
  <1>4. pin' = [pin EXCEPT ![lh[tail + 1]] = 0]  BY <1>0, <1>2 DEF LogInv, TypeOK, Install
  <1>5. TypeOK'  BY <1>0, <1>1, <1>3, <1>4 DEF LogInv, TypeOK, Install
  <1>6. Active' = Active  BY DEF Install, Active
  <1>7. HeadersInv' /\ CountInv'
    BY <1>6 DEF LogInv, HeadersInv, Injective, CountInv, Install
  <1>8. BootInv' /\ DownInv' /\ RecoverInv' /\ CacheInv' /\ WriteLogInv'
    BY DEF BootInv, DownInv, RecoverInv, CacheInv, WriteLogInv, Recovering, Install
  <1>9. StageInv'  BY <1>0 DEF LogInv, StageInv, Install
  <1>10. InstallInv'
    <2>1. /\ disk' = [disk EXCEPT ![lh[tail + 1]] = dlog[tail + 1]]
          /\ tail' = tail + 1 /\ UNCHANGED <<dlog, dhead, lh, stage>>
      BY DEF Install
    <2>2. \A i \in 1..Len(lh) : i # tail + 1 => lh[i] # lh[tail + 1]
      BY <1>0 DEF LogInv, HeadersInv, Injective
    <2>3. lh[tail + 1] \in Entries(lh)  BY <1>0 DEF Entries
    <2>4. \A i \in 1..Len(lh) : lh[i] \in Block  BY <1>0
    <2>5. ASSUME NEW b \in Block, b \notin Entries(lh)
          PROVE  pin'[b] = 0 /\ (cache'[b] # NoBuf => cache'[b] = disk'[b])
      BY <1>3, <1>4, <2>1, <2>3, <2>5 DEF LogInv, TypeOK, InstallInv, Install
    <2>6. ASSUME NEW i \in 1..Len(lh)
          PROVE  IF i <= tail + 1
                 THEN /\ pin'[lh[i]] = 0 /\ disk'[lh[i]] = dlog[i]
                      /\ cache'[lh[i]] # NoBuf => cache'[lh[i]] = dlog[i]
                 ELSE pin'[lh[i]] = 1 /\ cache'[lh[i]] = dlog[i]
      <3>1. CASE i = tail + 1
        BY <1>0, <1>2, <1>3, <1>4, <2>1, <3>1 DEF LogInv, TypeOK
      <3>2. CASE i # tail + 1
        <4>1. pin'[lh[i]] = pin[lh[i]] /\ disk'[lh[i]] = disk[lh[i]]
          BY <1>4, <2>1, <2>2, <2>4, <3>2 DEF LogInv, TypeOK
        <4>2. i <= tail + 1 <=> i <= tail  BY <1>0, <3>2
        <4>3. QED  BY <1>3, <4>1, <4>2 DEF LogInv, InstallInv, Install
      <3>3. QED  BY <3>1, <3>2
    <2>7. dhead' = lh'  BY <2>1 DEF LogInv, InstallInv, Install
    <2>8. QED  BY <2>1, <2>5, <2>6, <2>7 DEF InstallInv, Entries
  <1>11. QED  BY <1>5, <1>7, <1>8, <1>9, <1>10 DEF LogInv

\* The write_head() that erases the installed transaction.
LEMMA EraseInv == LogInv /\ Erase => LogInv'
  <1> SUFFICES ASSUME LogInv, Erase PROVE LogInv'  OBVIOUS
  <1>0. <<>> \in Seq(Block) /\ Len(<<>>) = 0  OBVIOUS
  <1>1. TypeOK'  BY <1>0, LogAssumption DEF LogInv, TypeOK, Erase, LogAssumption
  <1>2. Active' = Active /\ Entries(lh') = {}  BY <1>0 DEF Erase, Active, Entries
  <1>3. HeadersInv' /\ CountInv'
    BY <1>0, <1>2 DEF LogInv, HeadersInv, Injective, CountInv, Erase
  <1>4. BootInv' /\ DownInv' /\ RecoverInv' /\ WriteLogInv' /\ InstallInv'
    BY DEF BootInv, DownInv, RecoverInv, WriteLogInv, InstallInv, Recovering, Erase
  <1>5. StageInv'  BY DEF LogInv, StageInv, Erase
  <1>6. ASSUME NEW b \in Block
        PROVE  pin[b] = 0 /\ (cache[b] # NoBuf => cache[b] = disk[b])
    <2>1. CASE b \notin Entries(lh)  BY <2>1 DEF LogInv, InstallInv, Erase
    <2>2. CASE b \in Entries(lh)
      <3>1. PICK i \in 1..Len(lh) : b = lh[i]  BY <2>2 DEF Entries
      <3>2. i <= tail  BY DEF Erase, Installed, LogInv, TypeOK
      <3>3. QED  BY <3>1, <3>2 DEF LogInv, InstallInv, Erase
    <2>3. QED  BY <2>1, <2>2
  <1>7. CacheInv'  BY <1>2, <1>6 DEF CacheInv, Erase
  <1>8. QED  BY <1>1, <1>3, <1>4, <1>5, <1>7 DEF LogInv

\* The second critical section of end_op().
LEMMA CommitDoneInv == LogInv /\ CommitDone => LogInv'
  <1> SUFFICES ASSUME LogInv, CommitDone PROVE LogInv'  OBVIOUS
  <1>1. pc' \in [Proc -> {"idle", "begin", "sleep", "op", "commit"}]
    BY DEF LogInv, TypeOK, CommitDone, Wakeup
  <1>2. TypeOK'  BY <1>1 DEF LogInv, TypeOK, CommitDone
  <1>3. Active' = Active  BY DEF LogInv, TypeOK, CommitDone, Wakeup, Active
  <1>4. HeadersInv' /\ CountInv'
    BY <1>3 DEF LogInv, HeadersInv, Injective, CountInv, CommitDone
  <1>5. BootInv' /\ DownInv' /\ RecoverInv' /\ WriteLogInv' /\ InstallInv'
    BY DEF BootInv, DownInv, RecoverInv, WriteLogInv, InstallInv, Recovering, CommitDone
  <1>6. StageInv' /\ CacheInv'
    BY DEF LogInv, StageInv, CacheInv, CommitDone, Entries
  <1>7. QED  BY <1>2, <1>4, <1>5, <1>6 DEF LogInv

\* A block is read into the cache.
LEMMA BreadInv == ASSUME NEW b \in Block PROVE LogInv /\ Bread(b) => LogInv'
  <1> SUFFICES ASSUME LogInv, Bread(b) PROVE LogInv'  OBVIOUS
  <1>1. disk[b] \in Contents  BY DEF LogInv, TypeOK
  <1>2. TypeOK'  BY <1>1 DEF LogInv, TypeOK, Bread
  <1>3. Active' = Active  BY DEF Bread, Active
  <1>4. HeadersInv' /\ CountInv' /\ StageInv'
    BY <1>3 DEF LogInv, HeadersInv, Injective, CountInv, StageInv, Bread
  <1>5. BootInv' /\ DownInv' /\ RecoverInv'
    BY DEF BootInv, DownInv, RecoverInv, Recovering, Bread
  <1>6. CacheInv'  BY DEF LogInv, TypeOK, CacheInv, Bread, Entries
  <1>7. WriteLogInv'
    <2>1. ASSUME stage = "write_log", NEW i \in 1..tail PROVE dlog[i] = cache'[lh[i]]
      <3>1. i \in 1..Len(lh) /\ lh[i] \in Block  BY <2>1 DEF LogInv, TypeOK, StageInv
      <3>2. lh[i] # b  BY <2>1, <3>1 DEF LogInv, CacheInv, Bread, Entries
      <3>3. QED  BY <2>1, <3>1, <3>2 DEF LogInv, TypeOK, WriteLogInv, Bread
    <2>2. QED  BY <2>1 DEF WriteLogInv, Bread
  <1>8. InstallInv'
    <2>1. \A i \in 1..Len(lh) : lh[i] \in Block  BY DEF LogInv, TypeOK
    <2>2. ASSUME stage = "install", NEW i \in 1..Len(lh), i > tail PROVE lh[i] # b
      <3>1. cache[lh[i]] = dlog[i] /\ dlog[i] # NoBuf
        <4>1. i \in LogSlot  BY LogAssumption DEF LogInv, TypeOK, LogSlot, LogAssumption
        <4>2. dlog[i] \in Contents  BY <4>1 DEF LogInv, TypeOK
        <4>3. QED  BY <2>2, <4>2, LogAssumption
                   DEF LogInv, TypeOK, InstallInv, Contents, LogAssumption
      <3>2. QED  BY <3>1 DEF Bread
    <2>3. QED  BY <2>1, <2>2 DEF LogInv, TypeOK, InstallInv, Bread, Entries
  <1>9. QED  BY <1>2, <1>4, <1>5, <1>6, <1>7, <1>8 DEF LogInv

\* An unpinned buffer is recycled.
LEMMA RecycleInv == ASSUME NEW b \in Block PROVE LogInv /\ Recycle(b) => LogInv'
  <1> SUFFICES ASSUME LogInv, Recycle(b) PROVE LogInv'  OBVIOUS
  <1>1. TypeOK'  BY DEF LogInv, TypeOK, Recycle
  <1>2. Active' = Active  BY DEF Recycle, Active
  <1>3. HeadersInv' /\ CountInv' /\ StageInv'
    BY <1>2 DEF LogInv, HeadersInv, Injective, CountInv, StageInv, Recycle
  <1>4. BootInv' /\ DownInv' /\ RecoverInv'
    BY DEF LogInv, TypeOK, BootInv, DownInv, RecoverInv, Recovering, Recycle
  <1>5. CacheInv'  BY DEF LogInv, TypeOK, CacheInv, Recycle, Entries
  <1>6. WriteLogInv'
    <2>1. ASSUME stage = "write_log", NEW i \in 1..tail PROVE dlog[i] = cache'[lh[i]]
      <3>1. i \in 1..Len(lh) /\ lh[i] \in Block  BY <2>1 DEF LogInv, TypeOK, StageInv
      <3>2. lh[i] # b  BY <2>1, <3>1 DEF LogInv, CacheInv, Recycle, Entries
      <3>3. QED  BY <2>1, <3>1, <3>2 DEF LogInv, TypeOK, WriteLogInv, Recycle
    <2>2. QED  BY <2>1 DEF WriteLogInv, Recycle
  <1>7. InstallInv'
    <2>1. \A i \in 1..Len(lh) : lh[i] \in Block  BY DEF LogInv, TypeOK
    <2>2. QED  BY <2>1 DEF LogInv, TypeOK, InstallInv, Recycle, Entries
  <1>8. QED  BY <1>1, <1>3, <1>4, <1>5, <1>6, <1>7 DEF LogInv

\* A crash, anywhere.
LEMMA CrashInv == LogInv /\ Crash => LogInv'
  <1> SUFFICES ASSUME LogInv, Crash PROVE LogInv'  OBVIOUS
  <1>0. /\ <<>> \in Seq(Block) /\ Len(<<>>) = 0 /\ Torn \in Contents
        /\ tail \in Nat /\ LOGSIZE \in Nat
    BY LogAssumption DEF Contents, LogInv, TypeOK, LogAssumption
  <1>1. disk' \in [Block -> Contents] /\ dlog' \in [LogSlot -> Contents]
    BY <1>0 DEF LogInv, TypeOK, Crash
  <1>2. TypeOK'
    <2>1. committing' \in BOOLEAN /\ panicked' \in BOOLEAN  BY DEF Crash
    <2>2. cache' \in [Block -> Contents \cup {NoBuf}] /\ pin' \in [Block -> Nat]
      BY DEF Crash
    <2>3. pc' \in [Proc -> {"idle", "begin", "sleep", "op", "commit"}]  BY DEF Crash
    <2>4. QED  BY <1>0, <1>1, <2>1, <2>2, <2>3 DEF LogInv, TypeOK, Crash
  <1>3. Active' = {}  BY DEF Crash, Active
  <1>4. CountInv'  BY <1>3, FS_EmptySet DEF CountInv, Crash
  <1>5. HeadersInv' /\ BootInv' /\ DownInv' /\ RecoverInv'
    BY <1>0 DEF LogInv, HeadersInv, Injective, BootInv, DownInv, RecoverInv, Recovering, Crash
  <1>6. StageInv' /\ CacheInv' /\ WriteLogInv' /\ InstallInv'
    BY DEF StageInv, CacheInv, WriteLogInv, InstallInv, Crash
  <1>7. QED  BY <1>2, <1>4, <1>5, <1>6 DEF LogInv

\* The invariant holds in every state of every execution of the kernel's log.
THEOREM LogInvariant == Spec => []LogInv
  <1>1. LogInv /\ [Next]_vars => LogInv'
    <2> SUFFICES ASSUME LogInv, [Next]_vars PROVE LogInv'  OBVIOUS
    <2>1. CASE Recover
      BY <2>1, ReadHeadInv, RecoverInstallInv, RecoverClearInv DEF Recover
    <2>2. CASE Commit
      BY <2>2, WriteLogStepInv, WriteHeadInv, InstallStepInv, EraseInv, CommitDoneInv
      DEF Commit
    <2>3. CASE \E p \in Proc : CallBegin(p) \/ BeginOp(p) \/ EndOp(p)
      BY <2>3, CallBeginInv, BeginOpInv, EndOpInv
    <2>4. CASE \E p \in Proc, b \in Block, v \in Val : LogWrite(p, b, v)
      BY <2>4, LogWriteInv
    <2>5. CASE \E b \in Block : Bread(b) \/ Recycle(b)  BY <2>5, BreadInv, RecycleInv
    <2>6. CASE Crash  BY <2>6, CrashInv
    <2>7. CASE UNCHANGED vars
      BY <2>7 DEF vars, LogInv, TypeOK, HeadersInv, Injective, CountInv, BootInv, DownInv,
         RecoverInv, StageInv, CacheInv, WriteLogInv, InstallInv, Recovering, Active, Entries
    <2>8. QED  BY <2>1, <2>2, <2>3, <2>4, <2>5, <2>6, <2>7 DEF Next
  <1>2. QED  BY <1>1, InitInv, PTL DEF Spec

\* Type correctness of the log: pins and log.outstanding never become negative.
THEOREM TypeCorrect == Spec => []TypeOK
  <1>1. LogInv => TypeOK  BY DEF LogInv
  <1>2. QED  BY <1>1, LogInvariant, PTL

\* bpin() and bunpin() balance in every execution.
THEOREM PinsBalance == Spec => []PinMatchesLog
  <1>1. LogInv => PinMatchesLog
    <2> SUFFICES ASSUME LogInv, ~Recovering, NEW b \in Block
                 PROVE  pin[b] = IF \E i \in 1..Len(lh) :
                                       lh[i] = b /\ (stage = "install" => i > tail)
                                 THEN 1 ELSE 0
      BY DEF PinMatchesLog
    <2>1. CASE stage = "install"
      <3>1. CASE b \notin Entries(lh)  BY <2>1, <3>1 DEF LogInv, InstallInv, Entries
      <3>2. CASE b \in Entries(lh)
        <4>1. PICK i \in 1..Len(lh) : b = lh[i]  BY <3>2 DEF Entries
        <4>2. \A j \in 1..Len(lh) : lh[j] = b => j = i
          BY <4>1 DEF LogInv, HeadersInv, Injective
        <4>3. i > tail <=> ~(i <= tail)  BY LogAssumption DEF LogInv, TypeOK, LogAssumption
        <4>4. QED  BY <2>1, <4>1, <4>2, <4>3 DEF LogInv, InstallInv
      <3>3. QED  BY <3>1, <3>2
    <2>2. CASE stage # "install"
      BY <2>2 DEF LogInv, TypeOK, CacheInv, Recovering, Entries
    <2>3. QED  BY <2>1, <2>2
  <1>2. QED  BY <1>1, LogInvariant, PTL

\* Once the last call has returned from end_op(), all of its effects and those
\* of the calls grouped with it survive a crash.
THEOREM Durability == Spec => []QuiescentIsDurable
  <1>1. LogInv => QuiescentIsDurable
    <2> SUFFICES ASSUME LogInv, stage = "up", Active = {} PROVE Durable = Current
      BY DEF QuiescentIsDurable
    <2>1. lh = <<>> /\ dhead = <<>> /\ ~Recovering  BY DEF LogInv, StageInv, Recovering
    <2>2. Entries(lh) = {} /\ Entries(dhead) = {}  BY <2>1 DEF Entries
    <2>3. \A b \in Block : View(b) = disk[b]  BY <2>2 DEF LogInv, CacheInv, View
    <2>4. QED  BY <2>1, <2>2, <2>3 DEF Durable, Current
  <1>2. QED  BY <1>1, LogInvariant, PTL

-----------------------------------------------------------------------------
(* The reservation of begin_op().                                           *)

\* What a call has logged is in log.lh and within its budget, and the
\* reservation adds up.
CallsInv ==
    \A p \in Active : /\ written[p] \subseteq Entries(lh)
                      /\ IsFiniteSet(written[p])
                      /\ Cardinality(written[p]) <= MAXOPBLOCKS

ReserveInv == CallsInv /\ IsFiniteSet(Logged) /\ ReservationHolds

\* The entries of log.lh that n calls reserve.
Reserved(n) == MAXOPBLOCKS * n

\* One more call reserves MAXOPBLOCKS more entries.
LEMMA ReservedNext ==
    ASSUME NEW n \in Nat
    PROVE  /\ Reserved(n) \in Nat /\ Reserved(n + 1) = Reserved(n) + MAXOPBLOCKS
           /\ (n + 1) * MAXOPBLOCKS = Reserved(n + 1)
  BY LogAssumption DEF LogAssumption, Reserved

\* With no call in progress, the reservation is what log.lh holds.
LEMMA IdleReserve == TypeOK /\ Active = {} => ReserveInv
  <1> SUFFICES ASSUME TypeOK, Active = {} PROVE ReserveInv  OBVIOUS
  <1>1. Logged = {}  BY DEF Logged
  <1>2. Cardinality({}) = 0 /\ IsFiniteSet({})  BY FS_EmptySet
  <1>3. MAXOPBLOCKS * 0 = 0  BY LogAssumption DEF LogAssumption
  <1>4. QED  BY <1>1, <1>2, <1>3 DEF ReserveInv, CallsInv, ReservationHolds, TypeOK

\* A step that leaves the calls and log.lh alone keeps the reservation.
LEMMA SameReserve ==
    ASSUME ReserveInv, Active' = Active, UNCHANGED <<written, lh>> PROVE ReserveInv'
  <1>1. Logged' = Logged  BY DEF Logged
  <1>2. QED  BY <1>1 DEF ReserveInv, CallsInv, ReservationHolds, Entries

\* Numbers that the reservation is made of.
LEMMA ReserveTypes ==
    ASSUME LogInv, ReserveInv
    PROVE  /\ IsFiniteSet(Active) /\ Cardinality(Active) \in Nat
           /\ Cardinality(Logged) \in Nat /\ Len(lh) \in Nat
           /\ MAXOPBLOCKS \in Nat \ {0} /\ LOGSIZE \in Nat
           /\ Reserved(Cardinality(Active)) \in Nat
  <1>1. IsFiniteSet(Active) /\ Cardinality(Active) \in Nat  BY ActiveFinite DEF LogInv
  <1>2. Cardinality(Logged) \in Nat  BY FS_CardinalityType DEF ReserveInv
  <1>3. MAXOPBLOCKS \in Nat \ {0} /\ LOGSIZE \in Nat  BY LogAssumption DEF LogAssumption
  <1>4. Reserved(Cardinality(Active)) \in Nat  BY <1>1, ReservedNext
  <1>5. QED  BY <1>1, <1>2, <1>3, <1>4 DEF LogInv, TypeOK

\* begin_op() admits a call only when its MAXOPBLOCKS entries are left.
LEMMA BeginOpReserve ==
    ASSUME NEW p \in Proc, LogInv, ReserveInv, BeginOp(p) PROVE ReserveInv'
  <1>1. CASE MustWait
    <2>1. Active' = Active  BY <1>1 DEF LogInv, TypeOK, BeginOp, Active
    <2>2. QED  BY <1>1, <2>1, SameReserve DEF BeginOp
  <1>2. CASE ~MustWait
    <2>1. Active' = Active \cup {p} /\ p \notin Active
      BY <1>2 DEF LogInv, TypeOK, BeginOp, Active
    <2>2. Cardinality(Active') = Cardinality(Active) + 1
      BY <2>1, ReserveTypes, FS_AddElement
    <2>3. written' = [written EXCEPT ![p] = {}] /\ lh' = lh  BY <1>2 DEF BeginOp
    <2>4. written'[p] = {} /\ \A q \in Active : written'[q] = written[q]
      BY <2>1, <2>3 DEF LogInv, TypeOK, Active
    <2>5. Logged' = Logged
      <3>1. \A x : x \in Logged' <=> x \in Active' \X Block /\ x[2] \in written'[x[1]]
        BY DEF Logged
      <3>2. \A x : x \in Logged <=> x \in Active \X Block /\ x[2] \in written[x[1]]
        BY DEF Logged
      <3>3. ASSUME NEW x \in Logged' PROVE x \in Logged
        <4>1. x \in Active' \X Block /\ x[2] \in written'[x[1]]  BY <3>1
        <4>2. x[1] # p  BY <2>4, <4>1
        <4>3. x[1] \in Active /\ x \in Active \X Block  BY <2>1, <4>1, <4>2
        <4>4. QED  BY <2>4, <3>2, <4>1, <4>3
      <3>4. ASSUME NEW x \in Logged PROVE x \in Logged'
        <4>1. x \in Active \X Block /\ x[2] \in written[x[1]]  BY <3>2
        <4>2. x[1] \in Active /\ x \in Active' \X Block  BY <2>1, <4>1
        <4>3. QED  BY <2>4, <3>1, <4>1, <4>2
      <3>5. QED  BY <3>3, <3>4
    <2>6. CallsInv'
      <3>1. IsFiniteSet({}) /\ Cardinality({}) = 0  BY FS_EmptySet
      <3>2. 0 <= MAXOPBLOCKS  BY ReserveTypes
      <3>3. Entries(lh') = Entries(lh)  BY <2>3
      <3>4. ASSUME NEW q \in Active'
            PROVE  /\ written'[q] \subseteq Entries(lh') /\ IsFiniteSet(written'[q])
                   /\ Cardinality(written'[q]) <= MAXOPBLOCKS
        <4>1. CASE q = p  BY <2>4, <3>1, <3>2, <4>1
        <4>2. CASE q # p
          <5>1. q \in Active /\ written'[q] = written[q]  BY <2>1, <2>4, <4>2
          <5>2. QED  BY <3>3, <5>1 DEF ReserveInv, CallsInv
        <4>3. QED  BY <4>1, <4>2
      <3>5. QED  BY <3>4 DEF CallsInv
    <2>7. Len(lh) + (Cardinality(Active) + 1) * MAXOPBLOCKS <= LOGSIZE
      BY <1>2, ReserveTypes DEF MustWait, LogInv, CountInv
    <2>8. ReservationHolds'
      <3>1. /\ Cardinality(Active') = Cardinality(Active) + 1
            /\ Logged' = Logged /\ lh' = lh
        BY <2>2, <2>3, <2>5
      <3>2. Len(lh) + Reserved(Cardinality(Active) + 1) <= LOGSIZE
        BY <2>7, ReservedNext, ReserveTypes
      <3>3. Reserved(Cardinality(Active) + 1) \in Nat
        <4>1. Cardinality(Active) + 1 \in Nat  BY ReserveTypes
        <4>2. QED  BY <4>1, ReservedNext
      <3>4. Len(lh) + (Reserved(Cardinality(Active) + 1) - Cardinality(Logged)) <= LOGSIZE
        BY <3>2, <3>3, ReserveTypes
      <3>5. QED  BY <3>1, <3>4 DEF ReservationHolds, Reserved
    <2>9. QED  BY <2>5, <2>6, <2>8 DEF ReserveInv
  <1>3. QED  BY <1>1, <1>2

\* log_write() spends the reservation of its call, unless the block is absorbed.
LEMMA LogWriteReserve ==
    ASSUME NEW p \in Proc, NEW b \in Block, NEW v \in Val,
           LogInv, ReserveInv, LogWrite(p, b, v)
    PROVE  ReserveInv'
  <1>1. Active' = Active /\ p \in Active  BY DEF LogWrite, Active
  <1>2. outstanding >= 1 /\ outstanding \in Nat  BY ActiveCounted DEF LogInv, LogWrite
  <1>3. CASE TooBig
    BY <1>1, <1>3, SameReserve DEF LogWrite
  <1>4. CASE ~TooBig
    <2>1. written' = [written EXCEPT ![p] = @ \cup {b}]  BY <1>2, <1>4 DEF LogWrite
    <2>2. /\ Entries(lh') = Entries(lh) \cup {b}
          /\ Len(lh') = IF b \in Entries(lh) THEN Len(lh) ELSE Len(lh) + 1
      <3>1. CASE b \in Entries(lh)
        BY <1>2, <1>4, <3>1 DEF LogWrite, Absorbed, Entries
      <3>2. CASE b \notin Entries(lh)
        <4>1. lh' = Append(lh, b)  BY <1>2, <1>4, <3>2 DEF LogWrite, Absorbed
        <4>2. QED  BY <3>2, <4>1, AppendEntry DEF LogInv, TypeOK, HeadersInv
      <3>3. QED  BY <3>1, <3>2
    <2>3. /\ written'[p] = written[p] \cup {b}
          /\ \A q \in Proc : q # p => written'[q] = written[q]
          /\ Active \subseteq Proc
      BY <2>1 DEF LogInv, TypeOK, Active
    <2>4. CallsInv'
      <3>1. Cardinality(written[p] \cup {b}) <= MAXOPBLOCKS  BY DEF LogWrite
      <3>2. IsFiniteSet(written[p] \cup {b})
        BY <1>1, FS_AddElement DEF ReserveInv, CallsInv
      <3>3. QED  BY <1>1, <2>2, <2>3, <3>1, <3>2 DEF ReserveInv, CallsInv
    <2>5. Logged' = Logged \cup {<<p, b>>}
      <3>1. \A x : x \in Logged' <=> x \in Active \X Block /\ x[2] \in written'[x[1]]
        BY <1>1 DEF Logged
      <3>2. \A x : x \in Logged <=> x \in Active \X Block /\ x[2] \in written[x[1]]
        BY DEF Logged
      <3>3. <<p, b>> \in Active \X Block /\ <<p, b>>[1] = p /\ <<p, b>>[2] = b
        BY <1>1
      <3>4. ASSUME NEW x \in Active \X Block
            PROVE  x[2] \in written'[x[1]] <=> x[2] \in written[x[1]] \/ x = <<p, b>>
        <4>1. PICK q \in Active, c \in Block : x = <<q, c>>  OBVIOUS
        <4>2. q \in Proc  BY <2>3
        <4>3. QED  BY <2>3, <4>1, <4>2
      <3>5. QED  BY <3>1, <3>2, <3>3, <3>4
    <2>6. Cardinality(Logged') =
            IF b \in written[p] THEN Cardinality(Logged) ELSE Cardinality(Logged) + 1
      <3>1. <<p, b>> \in Logged <=> b \in written[p]  BY <1>1 DEF Logged
      <3>2. QED  BY <2>5, <3>1, FS_AddElement DEF ReserveInv
    <2>7. IsFiniteSet(Logged')  BY <2>5, FS_AddElement DEF ReserveInv
    <2>8. b \in written[p] => b \in Entries(lh)  BY <1>1 DEF ReserveInv, CallsInv
    <2>9. CASE b \in written[p]
      <3>1. Len(lh') = Len(lh) /\ Cardinality(Logged') = Cardinality(Logged)
        BY <2>2, <2>6, <2>8, <2>9
      <3>2. ReservationHolds'  BY <1>1, <3>1 DEF ReserveInv, ReservationHolds
      <3>3. QED  BY <2>4, <2>7, <3>2 DEF ReserveInv
    <2>10. CASE b \notin written[p]
      <3>1. Cardinality(Logged') = Cardinality(Logged) + 1  BY <2>6, <2>10
      <3>2. Len(lh') \in {Len(lh), Len(lh) + 1}  BY <2>2
      <3>3. Len(lh) + (Reserved(Cardinality(Active)) - Cardinality(Logged)) <= LOGSIZE
        BY DEF ReserveInv, ReservationHolds, Reserved
      <3>4. Len(lh') + (Reserved(Cardinality(Active)) - Cardinality(Logged')) <= LOGSIZE
        BY <3>1, <3>2, <3>3, ReserveTypes
      <3>5. ReservationHolds'  BY <1>1, <3>4 DEF ReservationHolds, Reserved
      <3>6. QED  BY <2>4, <2>7, <3>5 DEF ReserveInv
    <2>11. QED  BY <2>9, <2>10
  <1>5. QED  BY <1>3, <1>4

\* end_op() gives back what its call did not use.
LEMMA EndOpReserve ==
    ASSUME NEW p \in Proc, LogInv, ReserveInv, EndOp(p) PROVE ReserveInv'
  <1>1. Active' = Active \ {p} /\ p \in Active /\ written' = written /\ lh' = lh
    <2>1. p \in Active /\ written' = written /\ lh' = lh  BY DEF EndOp, Active
    <2>2. CASE outstanding = 1  BY <2>1, <2>2 DEF LogInv, TypeOK, EndOp, Active
    <2>3. CASE outstanding # 1  BY <2>1, <2>3 DEF LogInv, TypeOK, EndOp, Active, Wakeup
    <2>4. QED  BY <2>1, <2>2, <2>3
  <1>2. Cardinality(Active') = Cardinality(Active) - 1 /\ Cardinality(Active') \in Nat
    <2>1. /\ IsFiniteSet(Active \ {p})
          /\ Cardinality(Active \ {p}) = Cardinality(Active) - 1
      BY <1>1, ReserveTypes, FS_RemoveElement
    <2>2. QED  BY <1>1, <2>1, FS_CardinalityType
  <1> DEFINE own == {p} \X written[p]
  <1>3. IsFiniteSet(own) /\ Cardinality(own) = Cardinality(written[p])
    <2>1. IsFiniteSet(written[p])  BY <1>1 DEF ReserveInv, CallsInv
    <2>2. IsFiniteSet({p}) /\ Cardinality({p}) = 1  BY FS_Singleton
    <2>3. Cardinality(written[p]) \in Nat  BY <2>1, FS_CardinalityType
    <2>4. IsFiniteSet(own) /\ Cardinality(own) = Cardinality({p}) * Cardinality(written[p])
      BY <2>1, <2>2, FS_Product
    <2>5. QED  BY <2>2, <2>3, <2>4
  <1>4. own \subseteq Logged
    BY <1>1 DEF Logged, LogInv, TypeOK
  <1>5. Logged' = Logged \ own
    <2>1. \A x : x \in Logged' <=> x \in (Active \ {p}) \X Block /\ x[2] \in written[x[1]]
      BY <1>1 DEF Logged
    <2>2. \A x : x \in Logged <=> x \in Active \X Block /\ x[2] \in written[x[1]]
      BY DEF Logged
    <2>3. QED  BY <2>1, <2>2
  <1>6. /\ IsFiniteSet(Logged')
        /\ Cardinality(Logged') = Cardinality(Logged) - Cardinality(written[p])
    <2>1. Logged \cap own = own  BY <1>4
    <2>2. /\ IsFiniteSet(Logged \ own)
          /\ Cardinality(Logged \ own) = Cardinality(Logged) - Cardinality(Logged \cap own)
      BY FS_Difference DEF ReserveInv
    <2>3. QED  BY <1>3, <1>5, <2>1, <2>2
  <1>7. Cardinality(written[p]) \in Nat /\ Cardinality(written[p]) <= MAXOPBLOCKS
    BY <1>1, FS_CardinalityType DEF ReserveInv, CallsInv
  <1>8. /\ Reserved(Cardinality(Active)) = Reserved(Cardinality(Active')) + MAXOPBLOCKS
        /\ Reserved(Cardinality(Active')) \in Nat
    <2>1. Cardinality(Active) = Cardinality(Active') + 1  BY <1>2, ReserveTypes
    <2>2. QED  BY <1>2, <2>1, ReservedNext
  <1>9. ReservationHolds'
    <2>1. Len(lh) + (Reserved(Cardinality(Active)) - Cardinality(Logged)) <= LOGSIZE
      BY DEF ReserveInv, ReservationHolds, Reserved
    <2>2. /\ Cardinality(Logged) \in Nat /\ Len(lh) \in Nat /\ LOGSIZE \in Nat
          /\ MAXOPBLOCKS \in Nat
      BY ReserveTypes
    <2>3. Len(lh) + (Reserved(Cardinality(Active')) - Cardinality(Logged')) <= LOGSIZE
      BY ONLY <1>6, <1>7, <1>8, <2>1, <2>2
    <2>4. QED  BY <1>1, <2>3 DEF ReservationHolds, Reserved
  <1>10. CallsInv'  BY <1>1 DEF ReserveInv, CallsInv, Entries
  <1>11. QED  BY <1>6, <1>9, <1>10 DEF ReserveInv

\* The reservation of begin_op() adds up, whatever calls are grouped and
\* whatever blocks they share, in every execution.
THEOREM ReservationsHold == Spec => []ReservationHolds
  <1>0. (TypeOK /\ Active = {} => ReserveInv)'  BY IdleReserve, PTL
  <1>1. Init => ReserveInv
    <2>1. Init => Active = {}  BY DEF Init, Active
    <2>2. QED  BY <2>1, InitInv, IdleReserve DEF LogInv
  <1>2. LogInv /\ LogInv' /\ ReserveInv /\ [Next]_vars => ReserveInv'
    <2> SUFFICES ASSUME LogInv, LogInv', ReserveInv, [Next]_vars PROVE ReserveInv'  OBVIOUS
    <2>0. TypeOK' /\ Active' = {} => ReserveInv'  BY <1>0
    <2>1. CASE Recover
      <3>1. outstanding = 0  BY <2>1 DEF Recover, ReadHead, RecoverInstall, RecoverClear,
                                LogInv, BootInv, Recovering
      <3>2. Active = {}  BY <3>1, NoneActive DEF LogInv
      <3>3. Active' = Active
        BY <2>1 DEF Recover, ReadHead, RecoverInstall, RecoverClear, Active
      <3>4. QED  BY <2>0, <3>2, <3>3 DEF LogInv
    <2>2. CASE Commit
      <3>1. outstanding = 0
        BY <2>2 DEF Commit, WriteLog, WriteHead, Install, Erase, CommitDone, LogInv, StageInv
      <3>2. Active = {}  BY <3>1, NoneActive DEF LogInv
      <3>3. Active' = Active
        BY <2>2 DEF Commit, WriteLog, WriteHead, Install, Erase, CommitDone, Active, Wakeup,
                    LogInv, TypeOK
      <3>4. QED  BY <2>0, <3>2, <3>3 DEF LogInv
    <2>3. CASE \E p \in Proc : CallBegin(p)
      <3>1. Active' = Active  BY <2>3 DEF LogInv, TypeOK, CallBegin, Active
      <3>2. QED  BY <2>3, <3>1, SameReserve DEF CallBegin
    <2>4. CASE \E p \in Proc : BeginOp(p)  BY <2>4, BeginOpReserve
    <2>5. CASE \E p \in Proc, b \in Block, v \in Val : LogWrite(p, b, v)
      BY <2>5, LogWriteReserve
    <2>6. CASE \E p \in Proc : EndOp(p)  BY <2>6, EndOpReserve
    <2>7. CASE \E b \in Block : Bread(b) \/ Recycle(b)
      BY <2>7, SameReserve DEF Bread, Recycle, Active
    <2>8. CASE Crash
      <3>1. Active' = {}  BY <2>8 DEF Crash, Active
      <3>2. QED  BY <2>0, <3>1 DEF LogInv
    <2>9. CASE UNCHANGED vars  BY <2>9, SameReserve DEF vars, Active
    <2>10. QED  BY <2>1, <2>2, <2>3, <2>4, <2>5, <2>6, <2>7, <2>8, <2>9 DEF Next
  <1>3. ReserveInv => ReservationHolds  BY DEF ReserveInv
  <1>4. QED  BY <1>1, <1>2, <1>3, LogInvariant, PTL DEF Spec

-----------------------------------------------------------------------------
(* The log implements AtomicLog.  Each lemma says what a step of the log is *)
(* to the abstract specification.                                           *)

\* A home block with a slot in the on-disk header is read from that slot.
LEMMA DurableLogged ==
    ASSUME LogInv, NEW i \in 1..Len(dhead)
    PROVE  dhead[i] \in Block /\ Durable[dhead[i]] = dlog[i]
  <1>1. dhead[i] \in Block /\ dhead[i] \in Entries(dhead)  BY DEF LogInv, TypeOK, Entries
  <1>2. (CHOOSE j \in 1..Len(dhead) : dhead[j] = dhead[i]) = i
    BY SlotOf DEF LogInv, TypeOK, HeadersInv
  <1>3. QED  BY <1>1, <1>2 DEF Durable

\* Only disk writes change the durable image.
LEMMA DurableSame ==
    ASSUME UNCHANGED <<disk, dlog, dhead>> PROVE Durable' = Durable
  BY DEF Durable, Entries

\* Writing a home block that has a slot in the header changes nothing durable.
LEMMA DurableUnderInstall ==
    ASSUME LogInv, NEW b \in Entries(dhead), NEW v,
           disk' = [disk EXCEPT ![b] = v], UNCHANGED <<dlog, dhead>>
    PROVE  Durable' = Durable
  BY DEF Durable, Entries, LogInv, TypeOK

\* Boot and recovery are invisible.
LEMMA RecoverSimulates ==
    ASSUME LogInv, Recover PROVE UNCHANGED <<Durable, Current, Active>>
  <1>1. CASE ReadHead
    BY <1>1, DurableSame DEF ReadHead, Current, Recovering, Active
  <1>2. CASE RecoverInstall
    <2>0. tail + 1 \in 1..Len(lh) /\ lh = dhead
      BY <1>2, LogAssumption
      DEF LogInv, TypeOK, RecoverInv, RecoverInstall, LogAssumption
    <2>1. lh[tail + 1] \in Entries(dhead)  BY <2>0 DEF Entries
    <2>2. Durable' = Durable  BY <1>2, <2>1, DurableUnderInstall DEF RecoverInstall
    <2>3. QED  BY <1>2, <2>2 DEF RecoverInstall, Current, Recovering, Active
  <1>3. CASE RecoverClear
    <2>1. ASSUME NEW b \in Block PROVE Durable[b] = disk[b]
      <3>1. CASE b \in Entries(dhead)
        <4>1. PICK i \in 1..Len(dhead) : b = dhead[i]  BY <3>1 DEF Entries
        <4>2. disk[b] = dlog[i]  BY <1>3, <4>1 DEF LogInv, RecoverInv, RecoverClear
        <4>3. QED  BY <4>1, <4>2, DurableLogged
      <3>2. CASE b \notin Entries(dhead)  BY <3>2 DEF Durable
      <3>3. QED  BY <3>1, <3>2
    <2>2. Entries(dhead') = {}  BY <1>3 DEF RecoverClear, Entries
    <2>3. Durable' = [b \in Block |-> disk[b]]  BY <1>3, <2>2 DEF RecoverClear, Durable
    <2>4. Durable = [b \in Block |-> disk[b]]  BY <2>1 DEF Durable
    <2>5. Current' = [b \in Block |-> disk[b]]
      BY <1>3 DEF LogInv, BootInv, RecoverClear, Current, Recovering, View
    <2>6. Current = Durable  BY <1>3 DEF RecoverClear, Current, Recovering
    <2>7. QED  BY <1>3, <2>3, <2>4, <2>5, <2>6 DEF RecoverClear, Active
  <1>4. QED  BY <1>1, <1>2, <1>3 DEF Recover

\* The durable image changes at one disk write of a commit, the write_head().
LEMMA WriteHeadSimulates == ASSUME LogInv, WriteHead PROVE Abstract!ACommit
  <1>1. Active = {}
    <2>1. outstanding = 0  BY DEF LogInv, StageInv, WriteHead
    <2>2. QED  BY <2>1, NoneActive DEF LogInv
  <1>2. Current' = Current /\ Active' = Active
    BY DEF WriteHead, Current, Recovering, View, Active
  <1>3. Current = [b \in Block |-> View(b)]  BY DEF WriteHead, Current, Recovering
  <1>4. LogInv'  BY WriteHeadInv
  <1>5. ASSUME NEW b \in Block PROVE Durable'[b] = View(b)
    <2>1. CASE b \in Entries(lh)
      <3>1. PICK i \in 1..Len(lh) : b = lh[i]  BY <2>1 DEF Entries
      <3>2. (CHOOSE j \in 1..Len(lh) : lh[j] = lh[i]) = i
        BY SlotOf DEF LogInv, TypeOK, HeadersInv
      <3>3. Durable'[b] = dlog[i]  BY <2>1, <3>1, <3>2 DEF Durable, WriteHead, Entries
      <3>4. cache[b] # NoBuf /\ dlog[i] = cache[b]
        BY <2>1, <3>1 DEF LogInv, CacheInv, WriteLogInv, WriteHead
      <3>5. QED  BY <3>3, <3>4 DEF View
    <2>2. CASE b \notin Entries(lh)
      <3>1. Durable'[b] = disk[b]  BY <2>2 DEF Durable, WriteHead, Entries
      <3>2. View(b) = disk[b]  BY <2>2 DEF LogInv, CacheInv, WriteHead, View
      <3>3. QED  BY <3>1, <3>2
    <2>3. QED  BY <2>1, <2>2
  <1>6. Durable' = Current  BY <1>3, <1>5 DEF Durable
  <1>7. QED  BY <1>1, <1>2, <1>6 DEF Abstract!ACommit

\* The other steps of commit() are invisible.
LEMMA CommitSimulates ==
    ASSUME LogInv, WriteLog \/ Install \/ Erase \/ CommitDone
    PROVE  UNCHANGED <<Durable, Current, Active>>
  <1>1. CASE WriteLog
    <2>1. dhead = <<>> /\ Entries(dhead) = {}  BY <1>1 DEF LogInv, StageInv, WriteLog, Entries
    <2>2. Durable' = Durable  BY <1>1, <2>1 DEF WriteLog, Durable, Entries
    <2>0. tail + 1 \in 1..Len(lh)
      BY <1>1, LogAssumption DEF LogInv, TypeOK, WriteLog, LogAssumption
    <2>3. lh[tail + 1] \in Block /\ lh[tail + 1] \in Entries(lh)
      BY <2>0 DEF LogInv, TypeOK, Entries
    <2>4. cache[lh[tail + 1]] # NoBuf  BY <1>1, <2>3 DEF LogInv, CacheInv, WriteLog
    <2>5. cache' = cache  BY <1>1, <2>3, <2>4 DEF LogInv, TypeOK, WriteLog, View
    <2>6. QED  BY <1>1, <2>2, <2>5 DEF WriteLog, Current, Recovering, View, Active
  <1>2. CASE Install
    <2>1. /\ lh[tail + 1] \in Block /\ lh[tail + 1] \in Entries(dhead)
          /\ tail + 1 \in 1..Len(lh) /\ tail + 1 \in LogSlot
      BY <1>2, LogAssumption
      DEF LogInv, TypeOK, InstallInv, Install, Entries, LogAssumption, LogSlot
    <2>2. Durable' = Durable  BY <1>2, <2>1, DurableUnderInstall DEF Install
    <2>3. cache[lh[tail + 1]] = dlog[tail + 1]
      BY <1>2, <2>1 DEF LogInv, TypeOK, InstallInv, Install
    <2>4. cache' = cache  BY <1>2, <2>1, <2>3 DEF LogInv, TypeOK, Install
    <2>5. dlog[tail + 1] # NoBuf
      BY <2>1, LogAssumption DEF LogInv, TypeOK, Contents, LogAssumption
    <2>6. \A b \in Block : View(b)' = View(b)
      BY <1>2, <2>1, <2>3, <2>4, <2>5 DEF LogInv, TypeOK, Install, View
    <2>7. QED  BY <1>2, <2>2, <2>6 DEF Install, Current, Recovering, Active
  <1>3. CASE Erase
    <2>1. ASSUME NEW b \in Block PROVE Durable[b] = disk[b]
      <3>1. CASE b \in Entries(dhead)
        <4>1. PICK i \in 1..Len(dhead) : b = dhead[i]  BY <3>1 DEF Entries
        <4>2. dhead = lh /\ i <= tail
          BY <1>3, <4>1 DEF LogInv, TypeOK, InstallInv, Erase, Installed
        <4>3. disk[b] = dlog[i]  BY <1>3, <4>1, <4>2 DEF LogInv, InstallInv, Erase
        <4>4. QED  BY <4>1, <4>3, DurableLogged
      <3>2. CASE b \notin Entries(dhead)  BY <3>2 DEF Durable
      <3>3. QED  BY <3>1, <3>2
    <2>2. Entries(dhead') = {}  BY <1>3 DEF Erase, Entries
    <2>3. Durable' = [b \in Block |-> disk[b]]  BY <1>3, <2>2 DEF Erase, Durable
    <2>4. Durable = [b \in Block |-> disk[b]]  BY <2>1 DEF Durable
    <2>5. QED  BY <1>3, <2>3, <2>4 DEF Erase, Current, Recovering, View, Active
  <1>4. CASE CommitDone
    <2>1. Durable' = Durable  BY <1>4, DurableSame DEF CommitDone
    <2>2. Active' = Active  BY <1>4 DEF LogInv, TypeOK, CommitDone, Wakeup, Active
    <2>3. QED  BY <1>4, <2>1, <2>2 DEF CommitDone, Current, Recovering, View
  <1>5. QED  BY <1>1, <1>2, <1>3, <1>4

\* begin_op(), log_write() and end_op() are the steps the file system sees.
LEMMA CallSimulates ==
    ASSUME LogInv, NEW p \in Proc
    PROVE  /\ CallBegin(p) => UNCHANGED <<Durable, Current, Active>>
           /\ BeginOp(p) => Abstract!ABegin(p) \/ UNCHANGED <<Durable, Current, Active>>
           /\ EndOp(p) => Abstract!AEnd(p)
  <1>1. ASSUME CallBegin(p) PROVE UNCHANGED <<Durable, Current, Active>>
    <2>1. Active' = Active  BY <1>1 DEF LogInv, TypeOK, CallBegin, Active
    <2>2. Durable' = Durable  BY <1>1, DurableSame DEF CallBegin
    <2>3. QED  BY <1>1, <2>1, <2>2 DEF CallBegin, Current, Recovering, View
  <1>2. ASSUME BeginOp(p)
        PROVE  Abstract!ABegin(p) \/ UNCHANGED <<Durable, Current, Active>>
    <2>1. Durable' = Durable  BY <1>2, DurableSame DEF BeginOp
    <2>2. Current' = Current  BY <1>2, <2>1 DEF BeginOp, Current, Recovering, View
    <2>3. CASE MustWait
      <3>1. Active' = Active  BY <1>2, <2>3 DEF LogInv, TypeOK, BeginOp, Active
      <3>2. QED  BY <2>1, <2>2, <3>1
    <2>4. CASE ~MustWait
      <3>1. Active' = Active \cup {p} /\ p \notin Active
        BY <1>2, <2>4 DEF LogInv, TypeOK, BeginOp, Active
      <3>2. QED  BY <2>1, <2>2, <3>1 DEF Abstract!ABegin
    <2>5. QED  BY <2>3, <2>4
  <1>3. ASSUME EndOp(p) PROVE Abstract!AEnd(p)
    <2>1. Durable' = Durable  BY <1>3, DurableSame DEF EndOp
    <2>2. stage = "up"  BY <1>3, InCallIsUp DEF EndOp
    <2>3. ~Recovering /\ ~Recovering'  BY <1>3, <2>2 DEF EndOp, Recovering
    <2>4. Current' = Current  BY <1>3, <2>3 DEF EndOp, Current, View
    <2>5. p \in Active /\ Active' = Active \ {p}
      <3>1. CASE outstanding = 1  BY <1>3, <3>1 DEF LogInv, TypeOK, EndOp, Active
      <3>2. CASE outstanding # 1  BY <1>3, <3>2 DEF LogInv, TypeOK, EndOp, Active, Wakeup
      <3>3. QED  BY <3>1, <3>2
    <2>6. QED  BY <2>1, <2>4, <2>5 DEF Abstract!AEnd
  <1>4. QED  BY <1>1, <1>2, <1>3

\* A log_write() writes one block of the image, or panics without effect.
LEMMA LogWriteSimulates ==
    ASSUME LogInv, NEW p \in Proc, NEW b \in Block, NEW v \in Val, LogWrite(p, b, v)
    PROVE  Abstract!AWrite(p) \/ UNCHANGED <<Durable, Current, Active>>
  <1>1. Durable' = Durable  BY DurableSame DEF LogWrite
  <1>2. Active' = Active /\ p \in Active  BY DEF LogWrite, Active
  <1>3. stage = "up" /\ outstanding >= 1 /\ outstanding \in Nat
    BY InCallIsUp, ActiveCounted DEF LogWrite, LogInv
  <1>4. ~Recovering /\ ~Recovering'  BY <1>3 DEF LogWrite, Recovering
  <1>5. CASE TooBig
    BY <1>1, <1>2, <1>4, <1>5 DEF LogWrite, Current, View
  <1>6. CASE ~TooBig
    <2>1. cache' = [cache EXCEPT ![b] = v] /\ disk' = disk /\ v # NoBuf
      BY <1>3, <1>6, LogAssumption DEF LogWrite, LogAssumption
    <2>2. Current = [x \in Block |-> View(x)] /\ Current' = [x \in Block |-> View(x)']
      BY <1>4 DEF Current
    <2>3. \A x \in Block : View(x)' = IF x = b THEN v ELSE View(x)
      BY <2>1 DEF LogInv, TypeOK, View
    <2>4. Current' = [Current EXCEPT ![b] = v]  BY <2>2, <2>3
    <2>5. QED  BY <1>1, <1>2, <2>4 DEF Abstract!AWrite
  <1>7. QED  BY <1>5, <1>6

\* The buffer cache is invisible: a recycled block is clean.
LEMMA CacheSimulates ==
    ASSUME LogInv, NEW b \in Block, Bread(b) \/ Recycle(b)
    PROVE  UNCHANGED <<Durable, Current, Active>>
  <1>1. Durable' = Durable /\ Active' = Active
    BY DurableSame DEF Bread, Recycle, Active
  <1>2. CASE Recovering
    BY <1>1, <1>2 DEF Bread, Recycle, Current, Recovering
  <1>3. CASE ~Recovering
    <2>1. disk[b] # NoBuf  BY LogAssumption DEF LogInv, TypeOK, Contents, LogAssumption
    <2>2. CASE Bread(b)
      <3>1. \A x \in Block : View(x)' = View(x)
        BY <2>1, <2>2 DEF LogInv, TypeOK, Bread, View
      <3>2. QED  BY <1>1, <1>3, <2>2, <3>1 DEF Bread, Current, Recovering
    <2>3. CASE Recycle(b)
      <3>1. cache[b] = disk[b]
        <4>1. CASE stage = "install"
          <5>1. CASE b \notin Entries(lh)  BY <2>3, <4>1, <5>1 DEF LogInv, InstallInv, Recycle
          <5>2. CASE b \in Entries(lh)
            <6>1. PICK i \in 1..Len(lh) : b = lh[i]  BY <5>2 DEF Entries
            <6>2. i <= tail  BY <2>3, <4>1, <6>1 DEF LogInv, InstallInv, Recycle
            <6>3. QED  BY <2>3, <4>1, <6>1, <6>2 DEF LogInv, InstallInv, Recycle
          <5>3. QED  BY <5>1, <5>2
        <4>2. CASE stage # "install"
          BY <1>3, <2>3, <4>2 DEF LogInv, TypeOK, CacheInv, Recovering, Recycle
        <4>3. QED  BY <4>1, <4>2
      <3>2. \A x \in Block : View(x)' = View(x)
        BY <2>3, <3>1 DEF LogInv, TypeOK, Recycle, View
      <3>3. QED  BY <1>1, <1>3, <2>3, <3>2 DEF Recycle, Current, Recovering
    <2>4. QED  BY <2>2, <2>3
  <1>4. QED  BY <1>2, <1>3

\* A crash, even one that tears the block being written, goes back to the
\* durable image.
LEMMA CrashSimulates == ASSUME LogInv, Crash PROVE Abstract!ACrash
  <1>1. Active' = {} /\ Recovering'  BY DEF Crash, Active, Recovering
  <1>2. Durable' = Durable
    <2>1. CASE UNCHANGED <<disk, dlog>>  BY <2>1, DurableSame DEF Crash
    <2>2. CASE stage = "write_log" /\ UNCHANGED disk
      <3>1. Entries(dhead) = {}  BY <2>2 DEF LogInv, StageInv, Entries
      <3>2. QED  BY <2>2, <3>1 DEF Crash, Durable, Entries
    <2>3. CASE /\ stage \in {"install", "rinstall"} /\ tail < Len(lh)
               /\ disk' = [disk EXCEPT ![lh[tail + 1]] = Torn] /\ UNCHANGED dlog
      <3>1. tail + 1 \in 1..Len(lh) /\ lh = dhead
        BY <2>3, LogAssumption
        DEF LogInv, TypeOK, RecoverInv, InstallInv, LogAssumption
      <3>2. lh[tail + 1] \in Entries(dhead)  BY <3>1 DEF Entries
      <3>3. QED  BY <2>3, <3>2, DurableUnderInstall DEF Crash
    <2>4. QED  BY <2>1, <2>2, <2>3 DEF Crash
  <1>3. Current' = Durable  BY <1>1, <1>2 DEF Current
  <1>4. QED  BY <1>1, <1>2, <1>3 DEF Abstract!ACrash

\* The kernel's log implements the atomic log, for every number of blocks,
\* values, processes and log entries.
THEOREM LogImplementsAtomicLog == Spec => ImplementsAtomicLog
  <1>1. Init => Abstract!AInit
    <2> SUFFICES ASSUME Init PROVE Abstract!AInit  OBVIOUS
    <2>1. Active = {} /\ Recovering  BY DEF Init, Active, Recovering
    <2>2. Entries(dhead) = {}  BY DEF Init, Entries
    <2>3. Durable = [b \in Block |-> InitVal]  BY <2>2 DEF Init, Durable
    <2>4. QED  BY <2>1, <2>3 DEF Current, Abstract!AInit
  <1>2. LogInv /\ [Next]_vars => [Abstract!ANext]_(Abstract!avars)
    <2> SUFFICES ASSUME LogInv, [Next]_vars
                 PROVE  Abstract!ANext \/ UNCHANGED <<Durable, Current, Active>>
      BY DEF Abstract!avars
    <2>1. CASE Recover  BY <2>1, RecoverSimulates
    <2>2. CASE Commit
      BY <2>2, WriteHeadSimulates, CommitSimulates DEF Commit, Abstract!ANext
    <2>3. CASE \E p \in Proc : CallBegin(p) \/ BeginOp(p) \/ EndOp(p)
      BY <2>3, CallSimulates DEF Abstract!ANext
    <2>4. CASE \E p \in Proc, b \in Block, v \in Val : LogWrite(p, b, v)
      BY <2>4, LogWriteSimulates DEF Abstract!ANext
    <2>5. CASE \E b \in Block : Bread(b) \/ Recycle(b)  BY <2>5, CacheSimulates
    <2>6. CASE Crash  BY <2>6, CrashSimulates DEF Abstract!ANext
    <2>7. CASE UNCHANGED vars
      BY <2>7 DEF vars, Durable, Current, Active, Recovering, View, Entries
    <2>8. QED  BY <2>1, <2>2, <2>3, <2>4, <2>5, <2>6, <2>7 DEF Next
  <1>3. QED  BY <1>1, <1>2, LogInvariant, PTL DEF Spec, ImplementsAtomicLog, Abstract!ASpec
=============================================================================
