---------------------------- MODULE MemSysProofs ----------------------------
(***************************************************************************)
(* Proofs about the memory side of the CPU (module MemSys) for any number  *)
(* of lines and words and any behaviour of the slave: no word is lost or   *)
(* stale, every load gets its word however the pipeline is stalled, and no *)
(* load from the device overtakes a store to it.                           *)
(*                                                                         *)
(* A step is a clock edge of everything at once.  The inductive invariant  *)
(* follows a pass of the bus controller through its stages: what was asked *)
(* still stands in DT, and what has been read and written so far.          *)
(***************************************************************************)
EXTENDS MemSys, Integers, TLAPS

-----------------------------------------------------------------------------
(* Division.                                                                *)

\* They are determined by it.
LEMMA ModUnique ==
    ASSUME NEW S \in Nat \ {0}, NEW q \in Int, NEW m \in 0..(S - 1), NEW x \in Int,
           x = S * q + m
    PROVE  x % S = m
BY Z3

\* An index that has not wrapped.
LEMMA ModSmall == ASSUME NEW S \in Nat \ {0}, NEW x \in 0..(S - 1) PROVE x % S = x
BY Z3

-----------------------------------------------------------------------------
(* The inductive invariant.                                                 *)

WordData == [Word -> Val]
Writes   == req.dwe \/ UWrite(req.u)

\* The types of what the program's data passes through.
CacheTypes ==
    /\ tag \in [Way -> Line \cup {NoLine}] /\ lru \in Way
    /\ data \in [Way -> LineData] /\ \A k \in Way : tag[k] # NoLine => data[k] \in WordData
    /\ arch \in [Line -> WordData] /\ smem \in [Line -> WordData]
    /\ dt \in Access /\ imiss \in BOOLEAN

AxiTypes ==
    /\ stage \in 0..12 /\ stageW \in 0..6 \cup {10}
    /\ rbuf \in LineData /\ roff \in Word /\ woff \in Word
    /\ awvalid \in BOOLEAN /\ wvalid \in BOOLEAN /\ wlast \in BOOLEAN
    /\ srd \in [on : BOOLEAN, line : Line \cup {NoLine}, beat : Word]
    /\ swr \in [st : {"idle", "data", "resp"}, line : Line \cup {NoLine}, beat : Word]
    /\ req \in [ire : BOOLEAN, dre : BOOLEAN, draddr : Line \cup {NoLine},
                dwe : BOOLEAN, dwaddr : Line \cup {NoLine}, u : Uaxi]

\* A pass of the controller is about what is still wanted: the miss that stands
\* in DT and its victim, and the uncached access.
PassInv ==
    stage # 0 =>
        /\ req.dre => Miss(dt) /\ req.draddr = dt.line
        /\ req.dwe <=> req.dre /\ tag[lru] # NoLine
        /\ req.dwe => req.dwaddr = tag[lru]
        /\ req.u # NoAxi => req.u = uaxi

\* Which requests lead to which stage, and how the two machines go together.
StageInv ==
    /\ stage = 1 => Writes
    /\ stage \in 2..9 => ReadsOf(req)
    /\ stage \in {6, 7} => req.dre
    /\ stage \in {8, 9} => URead(req.u) /\ ~req.dre
    /\ stage \in {0, 1, 12} => stageW = 0
    /\ stage \in 2..10 => (Writes <=> stageW # 0)
    /\ stage = 11 => stageW = IF Writes THEN 10 ELSE 0
    /\ stageW \in 1..3 => req.dwe
    /\ stageW \in 4..6 => ~req.dwe /\ UWrite(req.u)
    /\ refresh = IF stage = 12 THEN Refreshed(req) ELSE NoRefresh

\* The uncached path: a load waits in DT; its answer may be taken for one cycle.
UncacheInv ==
    /\ ustage \in {"IDLE", "BUFFER", "WAIT"}
    /\ uaxi \in Uaxi
    /\ bufferValid <=> ustage = "BUFFER"
    /\ ustage = "IDLE" => uaxi = NoAxi /\ ~finish
    /\ ustage = "BUFFER" => UWrite(uaxi) /\ ~finish
    /\ ustage = "WAIT" => /\ IsLoad(dt) /\ dt.uc /\ ~valid
                          /\ IF finish THEN uaxi = NoAxi /\ stage = 0 ELSE URead(uaxi)
    /\ valid => ustage = "IDLE" /\ IsLoad(dt) /\ dt.uc /\ stage \in {0, 1, 2}
    /\ finish \/ valid => confRdata = answer

\* The read burst: words up to roff have arrived.
ReadInv ==
    /\ srd.on <=> stage \in {4, 7, 9}
    /\ stage = 7 => /\ srd.line = req.draddr /\ srd.beat = roff
                    /\ \A j \in Word : j < roff => rbuf[j] = smem[req.draddr][j]
    /\ stage \in {10, 11} /\ req.dre => rbuf = smem[req.draddr]
    /\ stage = 12 /\ req.dre => newline = smem[req.draddr]
    /\ stage \in 10..12 /\ URead(req.u) => urbuf = answer

\* The write burst: the victim is on its way from the cache to memory.
Sent(n) == \A j \in Word : j < n => smem[req.dwaddr][j] = data[lru][j]

WriteInv ==
    /\ stage = 1 /\ req.dwe => oldline = data[lru]
    /\ stage \in 2..11 /\ req.dwe => wbuf = data[lru]
    /\ stageW \in {0, 4, 10} => swr.st = "idle" /\ ~wvalid
    /\ stageW \notin {1, 4} => ~awvalid
    /\ stageW = 1 => \/ swr.st = "idle" /\ ~wvalid /\ awvalid /\ woff = 0
                     \/ /\ swr.st = "data" /\ wvalid /\ ~awvalid /\ ~wlast
                        /\ swr.beat + 1 = woff /\ swr.line = req.dwaddr
                        /\ wdata = data[lru][swr.beat] /\ Sent(swr.beat)
    /\ stageW = 2 => /\ swr.st = "data" /\ wvalid /\ wlast
                     /\ swr.beat = LineWords - 1 /\ swr.line = req.dwaddr
                     /\ wdata = data[lru][swr.beat] /\ Sent(swr.beat)
    /\ stageW = 3 => swr.st = "resp" /\ swr.line = req.dwaddr /\ ~wvalid
    /\ stageW = 5 => swr.st = "data" /\ wvalid /\ wlast /\ swr.line = NoLine
    /\ stageW = 6 => swr.st = "resp" /\ ~wvalid /\ swr.line = NoLine
    /\ req.dwe /\ (stageW \in {3, 10} \/ stage = 12) => smem[req.dwaddr] = data[lru]

MemInv ==
    /\ CacheTypes /\ AxiTypes /\ PassInv /\ StageInv /\ UncacheInv /\ ReadInv /\ WriteInv
    /\ Coherent /\ LoadCorrect

-----------------------------------------------------------------------------
(* Signals and words.                                                       *)

\* A line has words, and the tokens are not what they stand beside.
LEMMA Sizes == /\ LineWords \in Nat \ {0} /\ NoLine \notin Line /\ 0 \in Word
               /\ StoreLine \subseteq Line /\ StoreVal \subseteq Val
BY MemSysAssumption DEF Word

\* The word counters of axi_ctrl.v stay inside a line.
LEMMA NextWordIs ==
    ASSUME NEW o \in Word
    PROVE  NextWord(o) \in Word /\ (o # LineWords - 1 => NextWord(o) = o + 1 /\ o + 1 \in Word)
<1>1. CASE o = LineWords - 1
  <2>1. o + 1 = LineWords * 1 + 0
    BY <1>1, Sizes
  <2>2. (o + 1) % LineWords = 0
    BY <2>1, Sizes, ModUnique DEF Word
  <2>3. QED
    BY <1>1, <2>2, Sizes DEF NextWord
<1>2. CASE o # LineWords - 1
  <2>1. o + 1 \in 0..(LineWords - 1)
    BY <1>2, Sizes DEF Word
  <2>2. (o + 1) % LineWords = o + 1
    BY <2>1, Sizes, ModSmall
  <2>3. QED
    BY <2>1, <2>2 DEF NextWord, Word
<1>3. QED
  BY <1>1, <1>2

\* The slave gives a signal only when it can.
LEMMA BusSignals ==
    ASSUME AxiTypes, NEW go \in SUBSET SlaveCan, NEW v \in Answers
    PROVE  /\ Bus(go, v).arready => stage \in {3, 6, 8} /\ ~srd.on
           /\ Bus(go, v).rvalid => stage \in {4, 7, 9} /\ srd.on
           /\ Bus(go, v).rlast <=> Bus(go, v).rvalid /\ LastBeat
           /\ Bus(go, v).rvalid /\ stage = 9 => Bus(go, v).rdata = v /\ v \in DevVal
           /\ Bus(go, v).rvalid /\ stage = 7 => Bus(go, v).rdata = smem[srd.line][srd.beat]
           /\ Bus(go, v).awready => awvalid /\ swr.st = "idle"
           /\ Bus(go, v).wready => wvalid /\ swr.st = "data"
           /\ Bus(go, v).bvalid => swr.st = "resp"
           /\ "rvalid" \in go <=> Bus(go, v).rvalid
<1>1. /\ "arready" \in go => "arready" \in SlaveCan
      /\ "rvalid" \in go => "rvalid" \in SlaveCan
      /\ "awready" \in go => "awready" \in SlaveCan
      /\ "wready" \in go => "wready" \in SlaveCan
      /\ "bvalid" \in go => "bvalid" \in SlaveCan
  OBVIOUS
<1>2. /\ "arready" \in SlaveCan => stage \in {3, 6, 8} /\ ~srd.on
      /\ "rvalid" \in SlaveCan => stage \in {4, 7, 9} /\ srd.on
      /\ "awready" \in SlaveCan => awvalid /\ swr.st = "idle"
      /\ "wready" \in SlaveCan => wvalid /\ swr.st = "data"
      /\ "bvalid" \in SlaveCan => swr.st = "resp"
  BY DEF SlaveCan, ArValid, RReady, BReady
<1>3. /\ Bus(go, v).arready = ("arready" \in go) /\ Bus(go, v).rvalid = ("rvalid" \in go)
      /\ Bus(go, v).rlast = ("rvalid" \in go /\ LastBeat)
      /\ Bus(go, v).awready = ("awready" \in go) /\ Bus(go, v).wready = ("wready" \in go)
      /\ Bus(go, v).bvalid = ("bvalid" \in go)
      /\ "rvalid" \in go /\ stage = 9 => Bus(go, v).rdata = v
      /\ "rvalid" \in go /\ stage = 7 => Bus(go, v).rdata = smem[srd.line][srd.beat]
  BY DEF Bus
<1>4. stage = 9 => v \in DevVal
  BY DEF Answers
<1>5. QED
  BY <1>1, <1>2, <1>3, <1>4

\* A stalled pipeline keeps what is in DT and MEM1.
LEMMA Held ==
    ASSUME NEW go, NEW v, Clock(go, v), Stall
    PROVE  /\ dt' = dt /\ ms1' = ms1 /\ arch' = arch
           /\ ms1 # NoLoad => stallFlag' /\ rdataBuffer' = Ms2Input
BY DEF Clock, CoreClock, Flush, HoldStages, Ms2Input

-----------------------------------------------------------------------------
(* What an edge does, by the state before it.                               *)

\* axi_ctrl.v, the read side: where each stage leads.
LEMMA ReadMoves ==
    ASSUME AxiTypes, NEW go \in SUBSET SlaveCan, NEW v \in Answers, Clock(go, v)
    PROVE  /\ stage = 0 => /\ req' = AxiIn
                           /\ stage' = IF AxiIn.dwe \/ UWrite(AxiIn.u) THEN 1
                                       ELSE IF ReadsOf(AxiIn) THEN 2 ELSE 0
           /\ stage # 0 => req' = req
           /\ stage = 1 => stage' = IF ReadsOf(req) THEN 2 ELSE 10
           /\ stage = 2 => stage' \in {3, 5}
           /\ stage = 3 => stage' = IF Bus(go, v).arready THEN 4 ELSE 3
           /\ stage = 4 => stage' = IF Bus(go, v).rlast THEN 5 ELSE 4
           /\ stage = 5 => stage' = IF req.dre THEN 6 ELSE IF URead(req.u) THEN 8 ELSE 10
           /\ stage = 6 => stage' = IF Bus(go, v).arready THEN 7 ELSE 6
           /\ stage = 7 => stage' = IF Bus(go, v).rlast THEN 10 ELSE 7
           /\ stage = 8 => stage' = IF Bus(go, v).arready THEN 9 ELSE 8
           /\ stage = 9 => stage' = IF Bus(go, v).rvalid THEN 10 ELSE 9
           /\ stage = 10 => stage' = IF stageW \in {0, 10} THEN 11 ELSE 10
           /\ stage = 11 => stage' = 12
           /\ stage = 12 => stage' = 0
           /\ refresh' = IF stage = 11 THEN Refreshed(req)
                         ELSE IF stage \in {0, 12} THEN NoRefresh ELSE refresh
<1>1. Bus(go, v).rlast => Bus(go, v).rvalid
  BY BusSignals
<1>2. AxiRead(AxiIn, oldline, Bus(go, v)) /\ stage \in 0..12
  BY DEF Clock, AxiTypes
<1>3. QED
  BY <1>1, <1>2 DEF AxiRead, R0, R1, R2, RAddr, R4, R5, R7, R9, R10, R11, R12, Goto, readSide,
         ArValid, WriteSettled

\* The same, for the buffers of the read side
LEMMA ReadBuffers ==
    ASSUME AxiTypes, NEW go \in SUBSET SlaveCan, NEW v \in Answers, Clock(go, v)
    PROVE  /\ wbuf' = IF stage = 1 THEN oldline ELSE IF stage = 11 THEN BlankLine ELSE wbuf
           /\ stage # 7 => rbuf' = IF stage = 11 THEN BlankLine ELSE rbuf
           /\ stage = 7 => rbuf' = IF Bus(go, v).rvalid
                                   THEN [rbuf EXCEPT ![roff] = Bus(go, v).rdata] ELSE rbuf
           /\ roff' \in {0, roff, NextWord(roff)}
           /\ stage = 6 /\ Bus(go, v).arready => roff' = 0
           /\ stage = 7 => roff' = IF Bus(go, v).rvalid /\ ~Bus(go, v).rlast
                                   THEN NextWord(roff) ELSE roff
           /\ stage = 9 /\ Bus(go, v).rvalid => urbuf' = Bus(go, v).rdata
           /\ stage \notin {9, 12} => urbuf' = urbuf
           /\ stage = 11 /\ req.dre => newline' = rbuf
<1>1. AxiRead(AxiIn, oldline, Bus(go, v)) /\ stage \in 0..12
  BY DEF Clock, AxiTypes
<1>2. QED
  BY <1>1 DEF AxiRead, R0, R1, R2, RAddr, R4, R5, R7, R9, R10, R11, R12, Goto, readSide, ArValid

\* axi_ctrl.v, the write side
LEMMA WriteMoves ==
    ASSUME AxiTypes, NEW go \in SUBSET SlaveCan, NEW v \in Answers, Clock(go, v)
    PROVE  /\ stageW = 0 => IF stage = 1 /\ Writes
                            THEN /\ stageW' = IF req.dwe THEN 1 ELSE 4
                                 /\ awvalid' /\ woff' = 0 /\ UNCHANGED <<wvalid, wdata, wlast>>
                            ELSE stageW' = 0 /\ UNCHANGED writeSide
           /\ stageW = 1 => IF Bus(go, v).awready \/ Bus(go, v).wready
                            THEN /\ awvalid' = (awvalid /\ ~Bus(go, v).awready)
                                 /\ wdata' = wbuf[woff] /\ wvalid'
                                 /\ wlast' = (woff = LineWords - 1) /\ woff' = NextWord(woff)
                                 /\ stageW' = IF woff = LineWords - 1 THEN 2 ELSE 1
                            ELSE stageW' = 1 /\ UNCHANGED writeSide
           /\ stageW \in {2, 5} => IF Bus(go, v).wready
                                   THEN /\ stageW' = stageW + 1 /\ ~wvalid' /\ ~wlast'
                                        /\ UNCHANGED <<woff, awvalid>>
                                   ELSE stageW' = stageW /\ UNCHANGED writeSide
           /\ stageW \in {3, 6} => /\ stageW' = IF Bus(go, v).bvalid THEN 10 ELSE stageW
                                   /\ UNCHANGED writeSide
           /\ stageW = 4 => IF Bus(go, v).awready
                            THEN stageW' = 5 /\ ~awvalid' /\ wvalid' /\ wlast' /\ woff' = woff
                            ELSE stageW' = 4 /\ UNCHANGED writeSide
           /\ stageW = 10 => stageW' = (IF stage = 11 THEN 0 ELSE 10) /\ UNCHANGED writeSide
<1>1. AxiWrite(Bus(go, v)) /\ stageW \in 0..6 \cup {10}
  BY DEF Clock, AxiTypes
<1>2. QED
  BY <1>1 DEF AxiWrite, W0, W1, WLastWord, WResp, W4, W10, GotoW, Writes, LastWord

\* When the caches get to know that a pass is over.
LEMMA RefreshIs ==
    ASSUME AxiTypes, StageInv
    PROVE  (refresh.d <=> stage = 12 /\ req.dre) /\ (refresh.u <=> stage = 12 /\ req.u # NoAxi)
BY DEF AxiTypes, StageInv, Refreshed, NoRefresh

\* dcache.v: a miss changes nothing until the line comes; then it takes the place of the victim.
LEMMA MissEdge ==
    ASSUME CacheTypes, NEW go, NEW v, Clock(go, v), Miss(dt)
    PROVE  /\ dt' = dt /\ arch' = arch /\ ms1' = ms1
           /\ ~refresh.d => UNCHANGED <<tag, lru, data>>
           /\ refresh.d => /\ tag' = [tag EXCEPT ![lru] = dt.line]
                           /\ data' = [data EXCEPT ![lru] = newline]
           /\ oldline' = IF tag[lru] # NoLine THEN data[lru] ELSE [i \in Word |-> Garbage]
<1>1. Stall
  BY DEF Stall, StallAxi
<1>2. \A k \in Way : ~HitWay(dt, k)
  BY DEF Miss, Hit
<1>3. Cached(dt) /\ (WriteBack(dt) <=> tag[lru] # NoLine)
  BY DEF Miss, WriteBack
<1>4. TagClock(dt, refresh.d) /\ DataClock(dt, refresh.d, newline)
  BY DEF Clock, DCacheClock
<1>5. data \in [Way -> LineData] /\ Way = {0, 1}
  BY DEF CacheTypes, Way
<1>6. tag' = IF refresh.d THEN [tag EXCEPT ![lru] = dt.line] ELSE tag
  BY <1>3, <1>4 DEF TagClock
<1>7. lru' = IF refresh.d THEN 1 - lru ELSE lru
  BY <1>2, <1>4, <1>5 DEF TagClock
<1>8. ~refresh.d => data' = data
  BY <1>2, <1>3, <1>4, <1>5 DEF DataClock
<1>9. refresh.d => data' = [data EXCEPT ![lru] = newline]
  BY <1>3, <1>4 DEF DataClock
<1>10. oldline' = IF tag[lru] # NoLine THEN data[lru] ELSE [i \in Word |-> Garbage]
  BY <1>3, <1>4 DEF DataClock
<1>11. QED
  BY <1>1, <1>6, <1>7, <1>8, <1>9, <1>10, Held

\* Without a miss no tag changes, and data only where a store hits.
LEMMA HitEdge ==
    ASSUME CacheTypes, NEW go, NEW v, Clock(go, v), ~refresh.d
    PROVE  /\ tag' = tag
           /\ data' = IF Cached(dt) /\ dt.we
                      THEN [w \in Way |-> IF HitWay(dt, w)
                                          THEN [data[w] EXCEPT ![dt.word] = dt.val]
                                          ELSE data[w]]
                      ELSE data
<1>1. TagClock(dt, refresh.d) /\ DataClock(dt, refresh.d, newline)
  BY DEF Clock, DCacheClock
<1>2. tag' = tag
  BY <1>1 DEF TagClock
<1>3. data \in [Way -> LineData]
  BY DEF CacheTypes
<1>4. WriteBack(dt) => \A w \in Way : ~HitWay(dt, w)
  BY DEF WriteBack, Miss, Hit
<1>5. QED
  BY <1>1, <1>2, <1>3, <1>4 DEF DataClock

\* Only the victim of a write-back changes in memory, and only to what the cache has.
LEMMA MemoryEdge ==
    ASSUME CacheTypes, AxiTypes, PassInv, StageInv, WriteInv,
           NEW go \in SUBSET SlaveCan, NEW v \in Answers, Clock(go, v)
    PROVE  \/ smem' = smem
           \/ /\ Bus(go, v).wready /\ stageW \in {1, 2} /\ req.dwe /\ stage \in 2..10
              /\ req.dwaddr = tag[lru] /\ tag[lru] \in Line /\ swr.beat \in Word
              /\ Miss(dt)
              /\ smem' = [smem EXCEPT ![tag[lru]][swr.beat] = data[lru][swr.beat]]
<1>1. SlaveWrite(Bus(go, v))
  BY DEF Clock
<1>2. CASE ~(Bus(go, v).wready /\ swr.line # NoLine)
  BY <1>1, <1>2 DEF SlaveWrite
<1>3. CASE Bus(go, v).wready /\ swr.line # NoLine
  <2>1. swr.st = "data" /\ wvalid
    BY <1>3, BusSignals
  <2>2. stageW \in {1, 2} /\ swr.line = req.dwaddr /\ wdata = data[lru][swr.beat]
    BY <1>3, <2>1 DEF WriteInv, AxiTypes
  <2>3. stage \in 2..10 /\ req.dwe
    BY <2>2 DEF StageInv, AxiTypes
  <2>4. req.dwaddr = tag[lru] /\ Miss(dt)
    BY <2>3 DEF PassInv
  <2>5. tag[lru] \in Line /\ swr.beat \in Word
    BY <1>3, <2>2, <2>4 DEF AxiTypes, CacheTypes
  <2>6. QED
    BY <1>1, <1>3, <2>2, <2>3, <2>4, <2>5 DEF SlaveWrite
<1>4. QED
  BY <1>2, <1>3

\* What a pass is about does not change while it lasts.
LEMMA PassStep ==
    ASSUME CacheTypes, AxiTypes, PassInv, StageInv, UncacheInv,
           NEW go \in SUBSET SlaveCan, NEW v \in Answers, Clock(go, v)
    PROVE  PassInv'
<1> SUFFICES ASSUME stage' # 0 PROVE PassInv'
  BY DEF PassInv
<1>1. stage # 12
  BY ReadMoves
<1>2. ~refresh.d /\ ~refresh.u
  BY <1>1, RefreshIs
<1>3. uaxi # NoAxi => uaxi' = uaxi
  <2>1. UncacheClock(dt, refresh.u, urbuf)
    BY DEF Clock
  <2>2. QED
    BY <1>2, <2>1 DEF UncacheClock, Start, Drain, Answer, Leave, Hold, UncacheInv
<1>4. Miss(dt) => UNCHANGED <<dt, tag, lru>>
  BY <1>2, MissEdge
<1>5. Miss(dt) => Miss(dt)'
  BY <1>4 DEF Miss, Hit, HitWay, Cached
<1>6. CASE stage = 0
  <2>1. /\ req'.dre = Miss(dt) /\ req'.u = uaxi
        /\ req'.dwe = WriteBack(dt)
        /\ req'.draddr = IF Miss(dt) THEN dt.line ELSE NoLine
        /\ req'.dwaddr = IF WriteBack(dt) THEN tag[lru] ELSE NoLine
    BY <1>6, ReadMoves DEF AxiIn
  <2>2. WriteBack(dt) <=> Miss(dt) /\ tag[lru] # NoLine
    BY DEF WriteBack
  <2>3. req'.dre => Miss(dt)' /\ req'.draddr = dt'.line
    BY <1>4, <1>5, <2>1
  <2>4. req'.dwe <=> req'.dre /\ tag'[lru'] # NoLine
    BY <1>4, <2>1, <2>2
  <2>5. req'.dwe => req'.dwaddr = tag'[lru']
    BY <1>4, <2>1, <2>2
  <2>6. req'.u # NoAxi => req'.u = uaxi'
    BY <1>3, <2>1
  <2>7. QED
    BY <2>3, <2>4, <2>5, <2>6 DEF PassInv
<1>7. CASE stage # 0
  <2>1. req' = req
    BY <1>7, ReadMoves
  <2>2. req.dre => Miss(dt) /\ req.draddr = dt.line
    BY <1>7 DEF PassInv
  <2>3. /\ req.dwe <=> req.dre /\ tag[lru] # NoLine
        /\ req.dwe => req.dwaddr = tag[lru]
        /\ req.u # NoAxi => req.u = uaxi
    BY <1>7 DEF PassInv
  <2>4. req.dre => UNCHANGED <<dt, tag, lru>> /\ Miss(dt)'
    BY <1>4, <1>5, <2>2
  <2>5. QED
    BY <1>3, <2>1, <2>2, <2>3, <2>4 DEF PassInv
<1>8. QED
  BY <1>6, <1>7

\* The types of the cache.
LEMMA CacheTypesStep ==
    ASSUME CacheTypes, AxiTypes, PassInv, StageInv, ReadInv, WriteInv,
           NEW go \in SUBSET SlaveCan, NEW v \in Answers, Clock(go, v)
    PROVE  CacheTypes'
<1>1. dt' \in Access /\ imiss' \in BOOLEAN
  BY DEF Clock, CoreClock, Advance, Flush, HoldStages, CacheTypes
<1>2. dt # NoReq /\ ~dt.uc => dt.line \in Line /\ dt.word \in Word
  BY Sizes DEF CacheTypes, Access
<1>3. dt # NoReq /\ ~dt.uc /\ dt.we => dt.val \in Val
  BY Sizes DEF CacheTypes, Access
<1>4. lru' \in Way
  BY DEF Clock, DCacheClock, TagClock, CacheTypes, Way
<1>5. arch' \in [Line -> WordData]
  <2>1. CASE arch' = arch
    BY <2>1 DEF CacheTypes
  <2>2. CASE IsStore(dt) /\ ~dt.uc /\ arch' = [arch EXCEPT ![dt.line][dt.word] = dt.val]
    BY <1>2, <1>3, <2>2 DEF IsStore, CacheTypes, WordData
  <2>3. QED
    BY <2>1, <2>2 DEF Clock, CoreClock, Advance, Flush, HoldStages
<1>6. smem' \in [Line -> WordData]
  <2>1. CASE smem' = smem
    BY <2>1 DEF CacheTypes
  <2>2. CASE /\ tag[lru] \in Line /\ swr.beat \in Word
             /\ smem' = [smem EXCEPT ![tag[lru]][swr.beat] = data[lru][swr.beat]]
    <3>1. data[lru][swr.beat] \in Val
      BY <2>2, Sizes DEF CacheTypes, WordData
    <3>2. QED
      BY <2>2, <3>1 DEF CacheTypes, WordData
  <2>3. QED
    BY <2>1, <2>2, MemoryEdge
<1>7. CASE refresh.d
  <2>1. stage = 12 /\ req.dre
    BY <1>7, RefreshIs
  <2>2. Miss(dt) /\ req.draddr = dt.line /\ newline = smem[req.draddr]
    BY <2>1 DEF PassInv, ReadInv
  <2>3. dt.line \in Line
    BY <1>2, <2>2 DEF Miss, Cached
  <2>4. newline \in WordData
    BY <2>2, <2>3 DEF CacheTypes
  <2>5. newline \in LineData
    BY <2>4 DEF WordData, LineData
  <2>6. tag' = [tag EXCEPT ![lru] = dt.line] /\ data' = [data EXCEPT ![lru] = newline]
    BY <1>7, <2>2, MissEdge
  <2>7. QED
    BY <1>1, <1>4, <1>5, <1>6, <2>3, <2>4, <2>5, <2>6 DEF CacheTypes
<1>8. CASE ~refresh.d
  <2>1. tag' = tag
    BY <1>8, HitEdge
  <2>2. CASE data' = data
    BY <1>1, <1>4, <1>5, <1>6, <2>1, <2>2 DEF CacheTypes
  <2>3. CASE Cached(dt) /\ dt.we
    <3>1. dt.word \in Word /\ dt.val \in Val
      BY <1>2, <1>3, <2>3 DEF Cached
    <3>2. data' = [w \in Way |-> IF HitWay(dt, w)
                                 THEN [data[w] EXCEPT ![dt.word] = dt.val] ELSE data[w]]
      BY <1>8, <2>3, HitEdge
    <3>3. data' \in [Way -> LineData]
      BY <3>1, <3>2 DEF CacheTypes, LineData
    <3>4. ASSUME NEW k \in Way, tag[k] # NoLine PROVE data'[k] \in WordData
      <4>1. data[k] \in WordData
        BY <3>4 DEF CacheTypes
      <4>2. QED
        BY <3>1, <3>2, <4>1 DEF WordData
    <3>5. QED
      BY <1>1, <1>4, <1>5, <1>6, <2>1, <3>3, <3>4 DEF CacheTypes
  <2>4. QED
    BY <1>8, <2>2, <2>3, HitEdge
<1>9. QED
  BY <1>7, <1>8

\* The line that is being read is a line of the memory.
LEMMA MissingLine ==
    ASSUME CacheTypes, Miss(dt)
    PROVE  dt.line \in Line /\ dt.word \in Word /\ \A k \in Way : tag[k] # dt.line
BY Sizes DEF CacheTypes, Access, Miss, Hit, HitWay, Cached

\* The types of the bus controller and the slave.
LEMMA AxiTypesStep ==
    ASSUME CacheTypes, AxiTypes, PassInv, StageInv, UncacheInv, ReadInv, WriteInv,
           NEW go \in SUBSET SlaveCan, NEW v \in Answers, Clock(go, v)
    PROVE  AxiTypes'
<1>1. stage' \in 0..12
  BY ReadMoves DEF AxiTypes
<1>2. stageW' \in 0..6 \cup {10}
  BY WriteMoves DEF AxiTypes
<1>3. rbuf' \in LineData
  <2>1. ASSUME stage = 7, Bus(go, v).rvalid PROVE Bus(go, v).rdata \in Val
    <3>1. srd.line = dt.line /\ Miss(dt) /\ srd.beat \in Word
      BY <2>1 DEF ReadInv, StageInv, PassInv, AxiTypes
    <3>2. smem[dt.line][srd.beat] \in Val
      BY <3>1, MissingLine DEF CacheTypes, WordData
    <3>3. Bus(go, v).rdata = smem[srd.line][srd.beat]
      BY <2>1, BusSignals
    <3>4. QED
      BY <3>1, <3>2, <3>3
  <2>2. BlankLine \in LineData
    BY DEF BlankLine, LineData, LastWord, Word
  <2>3. CASE stage = 7
    BY <2>1, <2>3, ReadBuffers DEF AxiTypes, LineData
  <2>4. QED
    BY <2>2, <2>3, ReadBuffers DEF AxiTypes
<1>4. roff' \in Word
  BY ReadBuffers, NextWordIs, Sizes DEF AxiTypes
<1>5. woff' \in Word
  BY WriteMoves, NextWordIs, Sizes DEF AxiTypes, writeSide
<1>6. awvalid' \in BOOLEAN /\ wvalid' \in BOOLEAN /\ wlast' \in BOOLEAN
  <2>1. AxiWrite(Bus(go, v))
    BY DEF Clock
  <2>2. QED
    BY <2>1, Zenon DEF AxiTypes, AxiWrite, W0, W1, WLastWord, WResp, W4, W10, writeSide
<1>7. srd' \in [on : BOOLEAN, line : Line \cup {NoLine}, beat : Word]
  <2>1. Bus(go, v).rvalid /\ ~Bus(go, v).rlast => srd.beat + 1 \in Word
    BY BusSignals, NextWordIs DEF LastBeat, AxiTypes
  <2>2. req.draddr \in Line \cup {NoLine}
    BY DEF AxiTypes
  <2>3. SlaveRead(Bus(go, v))
    BY DEF Clock
  <2>4. QED
    BY <2>1, <2>2, <2>3, Sizes DEF SlaveRead, AxiTypes, Quiet
<1>8. swr' \in [st : {"idle", "data", "resp"}, line : Line \cup {NoLine}, beat : Word]
  <2>1. Bus(go, v).wready /\ ~wlast => swr.beat + 1 \in Word
    BY BusSignals DEF WriteInv, AxiTypes
  <2>2. req.dwaddr \in Line \cup {NoLine}
    BY DEF AxiTypes
  <2>3. SlaveWrite(Bus(go, v))
    BY DEF Clock
  <2>4. QED
    BY <2>1, <2>2, <2>3, Sizes DEF SlaveWrite, AxiTypes
<1>9. req' \in [ire : BOOLEAN, dre : BOOLEAN, draddr : Line \cup {NoLine},
                dwe : BOOLEAN, dwaddr : Line \cup {NoLine}, u : Uaxi]
  <2>1. CASE stage # 0
    BY <2>1, ReadMoves DEF AxiTypes
  <2>2. CASE stage = 0
    <3>1. imiss \in BOOLEAN /\ uaxi \in Uaxi
      BY DEF CacheTypes, UncacheInv
    <3>2. Miss(dt) \in BOOLEAN /\ WriteBack(dt) \in BOOLEAN
      BY DEF Miss, WriteBack
    <3>3. Miss(dt) => dt.line \in Line
      BY MissingLine
    <3>4. tag[lru] \in Line \cup {NoLine}
      BY DEF CacheTypes
    <3>5. AxiIn \in [ire : BOOLEAN, dre : BOOLEAN, draddr : Line \cup {NoLine},
                     dwe : BOOLEAN, dwaddr : Line \cup {NoLine}, u : Uaxi]
      BY <3>1, <3>2, <3>3, <3>4 DEF AxiIn
    <3>6. QED
      BY <2>2, <3>5, ReadMoves
  <2>3. QED
    BY <2>1, <2>2
<1>10. QED
  BY <1>1, <1>2, <1>3, <1>4, <1>5, <1>6, <1>7, <1>8, <1>9 DEF AxiTypes


\* The two machines of axi_ctrl.v stay in step.
LEMMA StageStep ==
    ASSUME AxiTypes, StageInv, NEW go \in SUBSET SlaveCan, NEW v \in Answers, Clock(go, v)
    PROVE  StageInv'
<1>1. stage \in 0..12 /\ stageW \in 0..6 \cup {10}
  BY DEF AxiTypes
<1>2. refresh' = IF stage' = 12 THEN Refreshed(req)' ELSE NoRefresh'
  <2>1. stage' = 12 <=> stage = 11
    BY <1>1, ReadMoves
  <2>2. stage = 11 => req' = req
    BY ReadMoves
  <2>3. refresh' = IF stage = 11 THEN Refreshed(req)
                   ELSE IF stage \in {0, 12} THEN NoRefresh ELSE refresh
    BY ReadMoves
  <2>4. refresh = IF stage = 12 THEN Refreshed(req) ELSE NoRefresh
    BY DEF StageInv
  <2>5. QED
    BY <2>1, <2>2, <2>3, <2>4 DEF Refreshed, NoRefresh
<1>3. CASE stage = 0
  <2>1. stageW' = 0
    BY <1>1, <1>3, WriteMoves DEF StageInv
  <2>2. /\ Writes' <=> AxiIn.dwe \/ UWrite(AxiIn.u)
        /\ ReadsOf(req)' <=> ReadsOf(AxiIn)
    BY <1>3, ReadMoves DEF Writes, ReadsOf, UWrite, URead
  <2>3. stage' = IF Writes' THEN 1 ELSE IF ReadsOf(req)' THEN 2 ELSE 0
    BY <1>3, <2>2, ReadMoves
  <2>4. QED
    BY <1>2, <2>1, <2>3 DEF StageInv
<1>4. CASE stage # 0
  <2>1. req' = req
    BY <1>4, ReadMoves
  <2>2. /\ Writes' <=> Writes
        /\ ReadsOf(req)' <=> ReadsOf(req)
        /\ URead(req.u)' <=> URead(req.u)
        /\ UWrite(req.u)' <=> UWrite(req.u)
        /\ req'.dre = req.dre /\ req'.dwe = req.dwe
    BY <2>1 DEF Writes, ReadsOf, UWrite, URead
  <2>3. /\ stage' = 1 => FALSE
        /\ stage' \in 2..9 => ReadsOf(req)
        /\ stage' \in {6, 7} => req.dre
        /\ stage' \in {8, 9} => URead(req.u) /\ ~req.dre
    BY <1>1, <1>4, ReadMoves DEF StageInv
  <2>4. /\ stageW' \in 1..3 => req.dwe
        /\ stageW' \in 4..6 => ~req.dwe /\ UWrite(req.u)
    BY <1>1, WriteMoves DEF StageInv, Writes
  <2>5. /\ stage' \in {0, 1, 12} => stageW' = 0
        /\ stage' \in 2..10 => (Writes <=> stageW' # 0)
        /\ stage' = 11 => stageW' = IF Writes THEN 10 ELSE 0
    <3>1. CASE stage = 1
      BY <1>1, <3>1, ReadMoves, WriteMoves DEF StageInv
    <3>2. CASE stage \in 2..9
      <4>1. stage' \in 2..10
        BY <3>2, ReadMoves
      <4>2. stageW' # 0 <=> stageW # 0
        BY <1>1, <3>2, WriteMoves
      <4>3. QED
        BY <3>2, <4>1, <4>2 DEF StageInv
    <3>3. CASE stage = 10
      <4>1. stage' = IF stageW \in {0, 10} THEN 11 ELSE 10
        BY <3>3, ReadMoves
      <4>2. /\ stageW' # 0 <=> stageW # 0
            /\ stageW \in {0, 10} => stageW' = stageW
        BY <1>1, <3>3, WriteMoves
      <4>3. QED
        BY <3>3, <4>1, <4>2 DEF StageInv
    <3>4. CASE stage \in {11, 12}
      BY <1>1, <3>4, ReadMoves, WriteMoves DEF StageInv
    <3>5. QED
      BY <1>1, <1>4, <3>1, <3>2, <3>3, <3>4
  <2>6. QED
    BY <1>2, <2>2, <2>3, <2>4, <2>5 DEF StageInv
<1>5. QED
  BY <1>3, <1>4

\* uncache.v: the request and the answer it waits for stay together.
LEMMA UncacheStep ==
    ASSUME CacheTypes, AxiTypes, PassInv, StageInv, UncacheInv, ReadInv,
           NEW go \in SUBSET SlaveCan, NEW v \in Answers, Clock(go, v)
    PROVE  UncacheInv'
<1>1. /\ UncacheClock(dt, refresh.u, urbuf)
      /\ valid' = finish
      /\ confRdata' = IF refresh.u THEN urbuf ELSE confRdata
  BY DEF Clock, UncacheClock
<1>2. ustage = "WAIT" \/ RdReq(dt) => dt' = dt
  BY Held DEF Stall, StallAxi, UncacheStall
<1>3. ustage = "WAIT" /\ stage # 9 => answer' = answer
  <2>1. ustage = "WAIT" => Stall
    BY DEF Stall, StallAxi, UncacheStall
  <2>2. QED
    BY <2>1, BusSignals DEF Clock
<1>4. finish => ustage = "WAIT" /\ stage = 0 /\ ~refresh.u
  BY RefreshIs DEF UncacheInv
<1>5. CASE Start(dt)
  <2>1. [we |-> dt.we, val |-> dt.val] \in [we : BOOLEAN, val : DevStore \cup {Garbage}]
    BY <1>5 DEF Start, RdReq, WrReq, CacheTypes, Access
  <2>2. uaxi' = [we |-> dt.we, val |-> dt.val] /\ uaxi' # NoAxi /\ uaxi' \in Uaxi
    BY <1>5, <2>1, MemSysAssumption DEF Start, Uaxi
  <2>3. ustage = "IDLE" /\ ~finish /\ finish' = finish /\ ~valid'
    BY <1>1, <1>5 DEF Start, UncacheInv
  <2>4. CASE dt.we
    BY <1>5, <2>2, <2>3, <2>4 DEF Start, UncacheInv, UWrite
  <2>5. CASE ~dt.we
    <3>1. RdReq(dt) /\ IsLoad(dt) /\ dt.uc /\ dt' = dt
      BY <1>2, <1>5, <2>5 DEF Start, RdReq, WrReq, IsLoad
    <3>2. IsLoad(dt)' /\ dt'.uc
      BY <3>1 DEF IsLoad
    <3>3. QED
      BY <1>5, <2>2, <2>3, <2>5, <3>2 DEF Start, UncacheInv, URead
  <2>6. QED
    BY <2>4, <2>5
<1>6. CASE Drain(refresh.u)
  BY <1>1, <1>4, <1>6 DEF Drain, UncacheInv, Uaxi
<1>7. CASE Answer(refresh.u)
  <2>1. ~finish /\ stage = 12 /\ req.u # NoAxi /\ req.u = uaxi /\ URead(uaxi)
    BY <1>4, <1>7, RefreshIs DEF Answer, UncacheInv, PassInv
  <2>2. urbuf = answer /\ answer' = answer
    BY <1>3, <1>7, <2>1 DEF ReadInv, Answer
  <2>3. stage' = 0
    BY <2>1, ReadMoves
  <2>4. IsLoad(dt)' /\ dt'.uc
    BY <1>2, <1>7 DEF Answer, UncacheInv, IsLoad
  <2>5. QED
    BY <1>1, <1>7, <2>1, <2>2, <2>3, <2>4 DEF Answer, UncacheInv, Uaxi
<1>8. CASE Leave(refresh.u)
  <2>1. stage' \in {0, 1, 2}
    BY <1>4, <1>8, ReadMoves DEF Leave
  <2>2. confRdata' = answer'
    BY <1>1, <1>3, <1>4, <1>8 DEF Leave, UncacheInv
  <2>3. IsLoad(dt)' /\ dt'.uc
    BY <1>2, <1>8 DEF Leave, UncacheInv, IsLoad
  <2>4. QED
    BY <1>8, <2>1, <2>2, <2>3 DEF Leave, UncacheInv
<1>9. CASE Hold(dt, refresh.u)
  <2>1. UNCHANGED <<ustage, bufferValid, finish, uaxi>> /\ ~finish /\ ~valid'
    BY <1>1, <1>4, <1>9 DEF Hold
  <2>2. ustage = "WAIT" => IsLoad(dt)' /\ dt'.uc
    BY <1>2 DEF UncacheInv, IsLoad
  <2>3. QED
    BY <2>1, <2>2 DEF UncacheInv, URead, UWrite
<1>10. QED
  BY <1>1, <1>5, <1>6, <1>7, <1>8, <1>9 DEF UncacheClock

\* The read burst fills the line word by word.
LEMMA ReadStep ==
    ASSUME CacheTypes, AxiTypes, PassInv, StageInv, UncacheInv, ReadInv, WriteInv,
           NEW go \in SUBSET SlaveCan, NEW v \in Answers, Clock(go, v)
    PROVE  ReadInv'
<1>1. stage \in 0..12
  BY DEF AxiTypes
<1>2. SlaveRead(Bus(go, v))
  BY DEF Clock
<1>3. srd'.on <=> stage' \in {4, 7, 9}
  <2>1. stage \in {3, 6, 8} => (stage' \in {4, 7, 9} <=> Bus(go, v).arready)
    BY ReadMoves
  <2>2. stage \in {4, 7} => (stage' \in {4, 7, 9} <=> ~Bus(go, v).rlast)
    BY ReadMoves
  <2>3. stage = 9 => (stage' \in {4, 7, 9} <=> ~Bus(go, v).rlast)
    BY ReadMoves, BusSignals DEF LastBeat
  <2>4. stage \notin {3, 6, 8, 4, 7, 9} => stage' \notin {4, 7, 9}
    BY <1>1, ReadMoves
  <2>5. srd'.on <=> IF Bus(go, v).arready THEN TRUE ELSE IF Bus(go, v).rlast THEN FALSE ELSE srd.on
    BY <1>2 DEF SlaveRead, Quiet, AxiTypes
  <2>6. QED
    BY <1>1, <2>1, <2>2, <2>3, <2>4, <2>5, BusSignals DEF ReadInv
<1>4. req.dre /\ stage # 0 => smem'[req.draddr] = smem[req.draddr]
  <2>1. ASSUME req.dre, stage # 0 PROVE req.draddr \in Line /\ tag[lru] # req.draddr
    BY <2>1, MissingLine DEF PassInv, CacheTypes
  <2>2. QED
    BY <2>1, MemoryEdge DEF CacheTypes
<1>5. stage' = 7 => /\ srd'.line = req'.draddr /\ srd'.beat = roff'
                    /\ \A j \in Word : j < roff' => rbuf'[j] = smem'[req'.draddr][j]
  <2>1. CASE stage = 6 /\ Bus(go, v).arready
    <3>1. roff' = 0 /\ req' = req
      BY <2>1, ReadBuffers, ReadMoves
    <3>2. srd'.line = req.draddr /\ srd'.beat = 0
      BY <1>2, <2>1 DEF SlaveRead
    <3>3. QED
      BY <3>1, <3>2, Sizes DEF Word
  <2>2. CASE stage = 7 /\ ~Bus(go, v).rvalid
    <3>1. rbuf' = rbuf /\ roff' = roff /\ req' = req
      BY <2>2, ReadBuffers, ReadMoves
    <3>2. ~Bus(go, v).arready /\ ~Bus(go, v).rlast
      BY <2>2, BusSignals
    <3>3. srd' = srd
      BY <1>2, <2>2, <3>2 DEF SlaveRead
    <3>4. req.dre
      BY <2>2 DEF StageInv
    <3>5. QED
      BY <1>4, <2>2, <3>1, <3>3, <3>4 DEF ReadInv
  <2>3. CASE stage = 7 /\ Bus(go, v).rvalid /\ ~Bus(go, v).rlast
    <3>1. srd.beat # LineWords - 1 /\ srd.beat = roff /\ srd.line = req.draddr
      BY <2>3, BusSignals DEF LastBeat, ReadInv
    <3>2. roff' = roff + 1 /\ req' = req /\ roff \in Word
      BY <2>3, <3>1, ReadBuffers, ReadMoves, NextWordIs DEF AxiTypes
    <3>3. srd' = [srd EXCEPT !.beat = @ + 1]
      BY <1>2, <2>3, BusSignals DEF SlaveRead
    <3>4. rbuf' = [rbuf EXCEPT ![roff] = smem[req.draddr][roff]]
      <4>1. Bus(go, v).rdata = smem[req.draddr][roff]
        BY <2>3, <3>1, BusSignals
      <4>2. QED
        BY <2>3, <4>1, ReadBuffers
    <3>5. req.dre
      BY <2>3 DEF StageInv
    <3>6. srd'.line = req'.draddr /\ srd'.beat = roff'
      BY <3>1, <3>2, <3>3 DEF AxiTypes
    <3>7. ASSUME NEW j \in Word, j < roff' PROVE rbuf'[j] = smem[req.draddr][j]
      <4>1. j = roff \/ j < roff
        BY <3>2, <3>7 DEF Word
      <4>2. rbuf \in [Word -> Val \cup {Garbage}]
        BY DEF AxiTypes, LineData
      <4>3. j < roff => rbuf[j] = smem[req.draddr][j]
        BY <2>3 DEF ReadInv
      <4>4. QED
        BY <3>2, <3>4, <4>1, <4>2, <4>3
    <3>8. QED
      BY <1>4, <2>3, <3>2, <3>5, <3>6, <3>7
  <2>4. QED
    BY <1>1, <2>1, <2>2, <2>3, ReadMoves
<1>6. stage' \in {10, 11} /\ req'.dre => rbuf' = smem'[req'.draddr]
  <2>1. SUFFICES ASSUME stage' \in {10, 11}, req'.dre PROVE rbuf' = smem'[req'.draddr]
    OBVIOUS
  <2>2. stage \in {1, 5, 7, 9, 10} /\ req' = req /\ req.dre
    BY <1>1, <2>1, ReadMoves
  <2>3. CASE stage = 7
    <3>1. Bus(go, v).rvalid /\ srd.beat = LineWords - 1 /\ srd.beat = roff /\ srd.line = req.draddr
      BY <2>1, <2>3, ReadMoves, BusSignals DEF LastBeat, ReadInv
    <3>2. rbuf' = [rbuf EXCEPT ![roff] = smem[req.draddr][roff]]
      <4>1. Bus(go, v).rdata = smem[req.draddr][roff]
        BY <2>3, <3>1, BusSignals
      <4>2. QED
        BY <2>3, <3>1, <4>1, ReadBuffers
    <3>3. ASSUME NEW j \in Word PROVE rbuf'[j] = smem[req.draddr][j]
      <4>1. j = roff \/ j < roff
        BY <3>1, Sizes DEF Word
      <4>2. rbuf \in [Word -> Val \cup {Garbage}] /\ roff \in Word
        BY DEF AxiTypes, LineData
      <4>3. j < roff => rbuf[j] = smem[req.draddr][j]
        BY <2>3 DEF ReadInv
      <4>4. QED
        BY <3>2, <4>1, <4>2, <4>3
    <3>4. rbuf' \in [Word -> Val \cup {Garbage}]
      BY AxiTypesStep DEF AxiTypes, LineData
    <3>5. smem[req.draddr] \in [Word -> Val]
      BY <2>2, <2>3, MissingLine DEF PassInv, CacheTypes, WordData
    <3>6. rbuf' = smem[req.draddr]
      BY <3>3, <3>4, <3>5
    <3>7. QED
      BY <1>4, <2>2, <2>3, <3>6
  <2>4. CASE stage = 10
    BY <1>4, <2>2, <2>4, ReadBuffers DEF ReadInv
  <2>5. stage \notin {1, 5, 9}
    BY <2>1, <2>2, ReadMoves DEF StageInv, ReadsOf
  <2>6. QED
    BY <2>2, <2>3, <2>4, <2>5
<1>7. stage' = 12 /\ req'.dre => newline' = smem'[req'.draddr]
  <2>1. stage' = 12 => stage = 11 /\ req' = req
    BY <1>1, ReadMoves
  <2>2. stage = 11 /\ req.dre => newline' = rbuf /\ rbuf = smem[req.draddr]
    BY ReadBuffers DEF ReadInv
  <2>3. QED
    BY <1>4, <2>1, <2>2
<1>8. stage' \in 10..12 /\ URead(req.u)' => urbuf' = answer'
  <2>1. SUFFICES ASSUME stage' \in 10..12, URead(req.u)' PROVE urbuf' = answer'
    OBVIOUS
  <2>2. stage \in {1, 5, 7, 9, 10, 11} /\ req' = req
    BY <1>1, <2>1, ReadMoves
  <2>3. URead(req.u) /\ ReadsOf(req)
    BY <2>1, <2>2 DEF URead, ReadsOf
  <2>4. stage \notin {1, 5}
    BY <2>1, <2>2, <2>3, ReadMoves DEF StageInv, ReadsOf
  <2>5. ustage = "WAIT" /\ Stall /\ ~Miss(dt)
    <3>1. URead(uaxi)
      BY <2>2, <2>3 DEF PassInv, URead
    <3>2. ustage = "WAIT"
      BY <3>1 DEF UncacheInv, URead, UWrite
    <3>3. QED
      BY <3>2 DEF UncacheInv, Stall, StallAxi, UncacheStall, Miss, Cached, IsLoad
  <2>6. stage \in {9, 10, 11}
    BY <2>2, <2>4, <2>5 DEF PassInv, StageInv
  <2>7. CASE stage = 9
    <3>1. Bus(go, v).rvalid /\ Bus(go, v).rdata = v /\ "rvalid" \in go
      BY <2>1, <2>7, ReadMoves, BusSignals
    <3>2. answer' = v
      BY <2>7, <3>1 DEF Clock
    <3>3. QED
      BY <2>7, <3>1, <3>2, ReadBuffers
  <2>8. CASE stage \in {10, 11}
    <3>1. answer' = answer
      BY <2>5, <2>8 DEF Clock
    <3>2. QED
      BY <2>3, <2>8, <3>1, ReadBuffers DEF ReadInv
  <2>9. QED
    BY <2>6, <2>7, <2>8
<1>9. QED
  BY <1>3, <1>5, <1>6, <1>7, <1>8 DEF ReadInv

\* What the slave does with the write channel, by the state it is in.
LEMMA SlaveEdge ==
    ASSUME AxiTypes, NEW go \in SUBSET SlaveCan, NEW v \in Answers, Clock(go, v)
    PROVE  /\ swr.st = "idle" => swr' = IF Bus(go, v).awready
                 THEN [st |-> "data", line |-> IF stageW = 1 THEN req.dwaddr ELSE NoLine,
                       beat |-> 0]
                 ELSE swr
           /\ swr.st = "data" => IF Bus(go, v).wready
                 THEN /\ swr'.st = (IF wlast THEN "resp" ELSE "data")
                      /\ swr'.line = swr.line
                      /\ swr'.beat = (IF wlast THEN 0 ELSE swr.beat + 1)
                 ELSE swr' = swr
           /\ swr.st = "resp" => swr' = IF Bus(go, v).bvalid
                 THEN [st |-> "idle", line |-> NoLine, beat |-> 0] ELSE swr
           /\ swr.st # "data" => smem' = smem
<1>1. SlaveWrite(Bus(go, v))
  BY DEF Clock
<1>2. /\ Bus(go, v).awready => swr.st = "idle"
      /\ Bus(go, v).wready => swr.st = "data"
      /\ Bus(go, v).bvalid => swr.st = "resp"
  BY BusSignals
<1>3. swr \in [st : {"idle", "data", "resp"}, line : Line \cup {NoLine}, beat : Word]
  BY DEF AxiTypes
<1>4. CASE swr.st = "idle"
  BY <1>1, <1>2, <1>4 DEF SlaveWrite
<1>5. CASE swr.st = "data"
  BY <1>1, <1>2, <1>3, <1>5 DEF SlaveWrite
<1>6. CASE swr.st = "resp"
  BY <1>1, <1>2, <1>6 DEF SlaveWrite
<1>7. QED
  BY <1>3, <1>4, <1>5, <1>6

\* A word the slave takes is the victim's.
LEMMA BurstWord ==
    ASSUME CacheTypes, AxiTypes, PassInv, StageInv, WriteInv, stageW \in {1, 2},
           NEW go \in SUBSET SlaveCan, NEW v \in Answers, Clock(go, v), Bus(go, v).wready
    PROVE  \A j \in Word : smem'[req.dwaddr][j] = IF j = swr.beat THEN data[lru][j]
                                                 ELSE smem[req.dwaddr][j]
<1>1. /\ swr.line = req.dwaddr /\ wdata = data[lru][swr.beat] /\ swr.beat \in Word
  BY BusSignals DEF WriteInv, AxiTypes
<1>2. req.dwe /\ stage # 0
  BY DEF StageInv, AxiTypes
<1>3. req.dwaddr \in Line
  BY <1>2 DEF PassInv, CacheTypes
<1>4. smem' = [smem EXCEPT ![req.dwaddr][swr.beat] = data[lru][swr.beat]]
  BY <1>1, <1>3, Sizes DEF Clock, SlaveWrite
<1>5. smem \in [Line -> [Word -> Val]]
  BY DEF CacheTypes, WordData
<1>6. QED
  BY <1>1, <1>3, <1>4, <1>5

\* The write burst carries the victim to memory, in order and as a whole.
LEMMA WriteStep ==
    ASSUME CacheTypes, AxiTypes, PassInv, StageInv, UncacheInv, ReadInv, WriteInv,
           NEW go \in SUBSET SlaveCan, NEW v \in Answers, Clock(go, v)
    PROVE  WriteInv'
<1>1. stage \in 0..12 /\ stageW \in 0..6 \cup {10}
  BY DEF AxiTypes
<1>2. stage # 0 => req' = req
  BY ReadMoves
<1>3. stage \notin {0, 12} /\ req.dwe => UNCHANGED <<data, lru, tag>> /\ Miss(dt)
  BY RefreshIs, MissEdge DEF PassInv
<1>4. stage' = 1 /\ req'.dwe => oldline' = data'[lru']
  <2>1. SUFFICES ASSUME stage' = 1, req'.dwe PROVE oldline' = data'[lru']
    OBVIOUS
  <2>2. stage = 0 /\ req' = AxiIn
    BY <1>1, <2>1, ReadMoves
  <2>3. WriteBack(dt)
    BY <2>1, <2>2 DEF AxiIn
  <2>4. Miss(dt) /\ tag[lru] # NoLine /\ ~refresh.d
    BY <2>2, <2>3, RefreshIs DEF WriteBack
  <2>5. QED
    BY <2>4, MissEdge
<1>5. stage' \in 2..11 /\ req'.dwe => wbuf' = data'[lru']
  <2>1. SUFFICES ASSUME stage' \in 2..11, req'.dwe PROVE wbuf' = data'[lru']
    OBVIOUS
  <2>2. stage \in 1..10
    <3>1. stage = 0 => stage' \notin 2..11
      BY <2>1, ReadMoves
    <3>2. QED
      BY <1>1, <2>1, <3>1, ReadMoves
  <2>3. req.dwe /\ data' = data /\ lru' = lru
    BY <1>2, <1>3, <2>1, <2>2
  <2>4. CASE stage = 1
    BY <2>3, <2>4, ReadBuffers DEF WriteInv
  <2>5. CASE stage \in 2..10
    BY <2>3, <2>5, ReadBuffers DEF WriteInv
  <2>6. QED
    BY <2>2, <2>4, <2>5
<1>6. stageW # 0 => stage \in 2..11
  BY <1>1 DEF StageInv
<1>7. CASE stageW = 0
  <2>1. swr.st = "idle" /\ ~wvalid /\ ~awvalid
    BY <1>7 DEF WriteInv
  <2>2. swr' = swr
    BY <2>1, SlaveEdge, BusSignals
  <2>3. CASE stage = 1 /\ Writes
    <3>1. /\ stageW' = (IF req.dwe THEN 1 ELSE 4) /\ awvalid' /\ woff' = 0 /\ wvalid' = wvalid
          /\ stage' # 12
      BY <1>7, <2>3, WriteMoves, ReadMoves
    <3>2. QED
      BY <1>4, <1>5, <2>1, <2>2, <3>1 DEF WriteInv
  <2>4. CASE ~(stage = 1 /\ Writes)
    <3>1. stageW' = 0 /\ wvalid' = wvalid /\ awvalid' = awvalid
      BY <1>7, <2>4, WriteMoves DEF writeSide
    <3>2. ~(stage' = 12 /\ req'.dwe)
      BY <1>1, <1>2, <1>7, ReadMoves DEF StageInv, Writes
    <3>3. QED
      BY <1>4, <1>5, <2>1, <2>2, <3>1, <3>2 DEF WriteInv
  <2>5. QED
    BY <2>3, <2>4
<1>8. CASE stageW = 1
  <2>1. /\ req.dwe /\ stage \in 2..10 /\ stage' # 12 /\ req' = req
        /\ data' = data /\ lru' = lru
    BY <1>1, <1>2, <1>3, <1>6, <1>8, ReadMoves DEF StageInv
  <2>2. wbuf = data[lru]
    BY <2>1 DEF WriteInv
  <2>3. CASE swr.st = "idle" /\ ~wvalid /\ awvalid /\ woff = 0
    <3>1. ~Bus(go, v).wready
      BY <2>3, BusSignals
    <3>2. CASE ~Bus(go, v).awready
      <4>1. stageW' = 1 /\ UNCHANGED <<swr, wvalid, awvalid, woff>>
        BY <1>8, <2>3, <3>1, <3>2, WriteMoves, SlaveEdge DEF writeSide
      <4>2. QED
        BY <1>4, <1>5, <2>1, <2>3, <4>1 DEF WriteInv
    <3>3. CASE Bus(go, v).awready
      <4>1. /\ swr' = [st |-> "data", line |-> req.dwaddr, beat |-> 0]
        BY <1>8, <2>3, <3>3, SlaveEdge
      <4>2. /\ ~awvalid' /\ wdata' = data[lru][0] /\ wvalid'
            /\ wlast' = (0 = LineWords - 1) /\ woff' = NextWord(0)
            /\ stageW' = IF 0 = LineWords - 1 THEN 2 ELSE 1
        BY <1>8, <2>2, <2>3, <3>3, WriteMoves
      <4>3. Sent(swr.beat)' /\ wdata' = data'[lru'][swr'.beat]
        BY <2>1, <4>1, <4>2, Sizes DEF Sent, Word
      <4>4. 0 # LineWords - 1 => woff' = 0 + 1
        BY <4>2, NextWordIs, Sizes
      <4>5. CASE 0 = LineWords - 1
        <5>1. /\ stageW' = 2 /\ swr'.st = "data" /\ wvalid' /\ wlast' /\ ~awvalid'
              /\ swr'.beat = LineWords - 1 /\ swr'.line = req'.dwaddr
          BY <2>1, <4>1, <4>2, <4>5
        <5>2. QED
          BY <1>4, <1>5, <2>1, <4>3, <5>1 DEF WriteInv
      <4>6. CASE 0 # LineWords - 1
        <5>1. /\ stageW' = 1 /\ swr'.st = "data" /\ wvalid' /\ ~wlast' /\ ~awvalid'
              /\ swr'.beat + 1 = woff' /\ swr'.line = req'.dwaddr
          BY <2>1, <4>1, <4>2, <4>4, <4>6
        <5>2. QED
          BY <1>4, <1>5, <2>1, <4>3, <5>1 DEF WriteInv
      <4>7. QED
        BY <4>5, <4>6
    <3>4. QED
      BY <3>2, <3>3
  <2>4. CASE /\ swr.st = "data" /\ wvalid /\ ~awvalid /\ ~wlast
             /\ swr.beat + 1 = woff /\ swr.line = req.dwaddr
             /\ wdata = data[lru][swr.beat] /\ Sent(swr.beat)
    <3>1. ~Bus(go, v).awready
      BY <2>4, BusSignals
    <3>2. CASE ~Bus(go, v).wready
      <4>1. stageW' = 1 /\ UNCHANGED <<swr, wvalid, awvalid, wlast, woff, wdata>>
        BY <1>8, <2>4, <3>1, <3>2, WriteMoves, SlaveEdge DEF writeSide
      <4>2. smem' = smem
        BY <3>2, MemoryEdge
      <4>3. Sent(swr.beat)'
        BY <2>1, <2>4, <4>1, <4>2 DEF Sent
      <4>4. QED
        BY <1>4, <1>5, <2>1, <2>4, <4>1, <4>3 DEF WriteInv
    <3>3. CASE Bus(go, v).wready
      <4>0. \A j \in Word : smem'[req.dwaddr][j] = IF j = swr.beat THEN data[lru][j]
                                                   ELSE smem[req.dwaddr][j]
        BY <1>8, <3>3, BurstWord
      <4>1. swr'.st = "data" /\ swr'.line = req.dwaddr /\ swr'.beat = woff
        BY <2>4, <3>3, SlaveEdge
      <4>2. /\ ~awvalid' /\ wdata' = data[lru][woff] /\ wvalid'
            /\ wlast' = (woff = LineWords - 1) /\ woff' = NextWord(woff)
            /\ stageW' = IF woff = LineWords - 1 THEN 2 ELSE 1
        BY <1>8, <2>2, <2>4, <3>3, WriteMoves
      <4>3. Sent(swr.beat)' /\ wdata' = data'[lru'][swr'.beat]
        <5>1. ASSUME NEW j \in Word, j < woff PROVE smem'[req.dwaddr][j] = data[lru][j]
          <6>1. j = swr.beat \/ j < swr.beat
            BY <2>4, <5>1 DEF Word, AxiTypes
          <6>2. QED
            BY <2>4, <4>0, <6>1 DEF Sent
        <5>2. QED
          BY <2>1, <4>1, <4>2, <5>1 DEF Sent
      <4>4. woff # LineWords - 1 => woff' = woff + 1
        BY <4>2, NextWordIs DEF AxiTypes
      <4>5. CASE woff = LineWords - 1
        <5>1. /\ stageW' = 2 /\ swr'.st = "data" /\ wvalid' /\ wlast' /\ ~awvalid'
              /\ swr'.beat = LineWords - 1 /\ swr'.line = req'.dwaddr
          BY <2>1, <4>1, <4>2, <4>5
        <5>2. QED
          BY <1>4, <1>5, <2>1, <4>3, <5>1 DEF WriteInv
      <4>6. CASE woff # LineWords - 1
        <5>1. /\ stageW' = 1 /\ swr'.st = "data" /\ wvalid' /\ ~wlast' /\ ~awvalid'
              /\ swr'.beat + 1 = woff' /\ swr'.line = req'.dwaddr
          BY <2>1, <4>1, <4>2, <4>4, <4>6
        <5>2. QED
          BY <1>4, <1>5, <2>1, <4>3, <5>1 DEF WriteInv
      <4>7. QED
        BY <4>5, <4>6
    <3>4. QED
      BY <3>2, <3>3
  <2>5. QED
    BY <1>8, <2>3, <2>4 DEF WriteInv
<1>9. CASE stageW = 2
  <2>1. /\ req.dwe /\ stage \in 2..10 /\ stage' # 12 /\ req' = req
        /\ data' = data /\ lru' = lru
    BY <1>1, <1>2, <1>3, <1>6, <1>9, ReadMoves DEF StageInv
  <2>2. /\ swr.st = "data" /\ wvalid /\ wlast /\ ~awvalid
        /\ swr.beat = LineWords - 1 /\ swr.line = req.dwaddr
        /\ wdata = data[lru][swr.beat] /\ Sent(swr.beat)
    BY <1>9 DEF WriteInv
  <2>3. CASE ~Bus(go, v).wready
    <3>1. stageW' = 2 /\ UNCHANGED <<swr, wvalid, awvalid, wlast, wdata>>
      BY <1>9, <2>2, <2>3, WriteMoves, SlaveEdge DEF writeSide
    <3>2. smem' = smem
      BY <2>3, MemoryEdge
    <3>3. Sent(swr.beat)'
      BY <2>1, <2>2, <3>1, <3>2 DEF Sent
    <3>4. QED
      BY <1>4, <1>5, <2>1, <2>2, <3>1, <3>3 DEF WriteInv
  <2>4. CASE Bus(go, v).wready
    <3>1. stageW' = 3 /\ ~wvalid' /\ ~awvalid'
      BY <1>9, <2>2, <2>4, WriteMoves
    <3>2. swr'.st = "resp" /\ swr'.line = req.dwaddr
      BY <2>2, <2>4, SlaveEdge
    <3>3. smem'[req.dwaddr] = data[lru]
      <4>1. \A j \in Word : smem'[req.dwaddr][j] = IF j = swr.beat THEN data[lru][j]
                                                   ELSE smem[req.dwaddr][j]
        BY <1>9, <2>4, BurstWord
      <4>2. ASSUME NEW j \in Word PROVE smem'[req.dwaddr][j] = data[lru][j]
        <5>1. j = swr.beat \/ j < swr.beat
          BY <2>2, Sizes DEF Word
        <5>2. QED
          BY <2>2, <4>1, <5>1 DEF Sent
      <4>3. req.dwaddr \in Line /\ data[lru] \in [Word -> Val]
        BY <2>1 DEF PassInv, CacheTypes, WordData
      <4>4. smem'[req.dwaddr] \in [Word -> Val]
        BY <4>3, CacheTypesStep DEF CacheTypes, WordData
      <4>5. QED
        BY <4>2, <4>3, <4>4
    <3>4. QED
      BY <1>4, <1>5, <2>1, <3>1, <3>2, <3>3 DEF WriteInv
  <2>5. QED
    BY <2>3, <2>4
<1>10. CASE stageW = 3
  <2>1. /\ req.dwe /\ stage \in 2..10 /\ stage' # 12 /\ req' = req
        /\ data' = data /\ lru' = lru
    BY <1>1, <1>2, <1>3, <1>6, <1>10, ReadMoves DEF StageInv
  <2>2. /\ swr.st = "resp" /\ swr.line = req.dwaddr /\ ~wvalid /\ ~awvalid
        /\ smem[req.dwaddr] = data[lru]
    BY <1>10, <2>1 DEF WriteInv
  <2>3. /\ stageW' = IF Bus(go, v).bvalid THEN 10 ELSE 3
        /\ ~wvalid' /\ ~awvalid'
    BY <1>10, <2>2, WriteMoves DEF writeSide
  <2>4. /\ smem' = smem
        /\ swr' = IF Bus(go, v).bvalid THEN [st |-> "idle", line |-> NoLine, beat |-> 0] ELSE swr
    BY <2>2, SlaveEdge
  <2>5. QED
    BY <1>4, <1>5, <2>1, <2>2, <2>3, <2>4 DEF WriteInv
<1>11. CASE stageW = 4
  <2>1. ~req.dwe /\ req' = req
    BY <1>2, <1>6, <1>11 DEF StageInv
  <2>2. swr.st = "idle" /\ ~wvalid
    BY <1>11 DEF WriteInv
  <2>3. CASE ~Bus(go, v).awready
    <3>1. stageW' = 4 /\ wvalid' = wvalid /\ swr' = swr
      BY <1>11, <2>2, <2>3, WriteMoves, SlaveEdge DEF writeSide
    <3>2. QED
      BY <1>4, <1>5, <2>1, <2>2, <3>1 DEF WriteInv
  <2>4. CASE Bus(go, v).awready
    <3>1. stageW' = 5 /\ ~awvalid' /\ wvalid' /\ wlast'
      BY <1>11, <2>4, WriteMoves
    <3>2. swr' = [st |-> "data", line |-> NoLine, beat |-> 0]
      BY <1>11, <2>2, <2>4, SlaveEdge
    <3>3. QED
      BY <1>4, <1>5, <2>1, <3>1, <3>2 DEF WriteInv
  <2>5. QED
    BY <2>3, <2>4
<1>12. CASE stageW = 5
  <2>1. ~req.dwe /\ req' = req
    BY <1>2, <1>6, <1>12 DEF StageInv
  <2>2. swr.st = "data" /\ wvalid /\ wlast /\ swr.line = NoLine /\ ~awvalid
    BY <1>12 DEF WriteInv
  <2>3. CASE ~Bus(go, v).wready
    <3>1. stageW' = 5 /\ UNCHANGED <<swr, wvalid, awvalid, wlast>>
      BY <1>12, <2>2, <2>3, WriteMoves, SlaveEdge DEF writeSide
    <3>2. QED
      BY <1>4, <1>5, <2>1, <2>2, <3>1 DEF WriteInv
  <2>4. CASE Bus(go, v).wready
    <3>1. stageW' = 6 /\ ~wvalid' /\ ~awvalid'
      BY <1>12, <2>2, <2>4, WriteMoves
    <3>2. swr'.st = "resp" /\ swr'.line = NoLine
      BY <2>2, <2>4, SlaveEdge
    <3>3. QED
      BY <1>4, <1>5, <2>1, <3>1, <3>2 DEF WriteInv
  <2>5. QED
    BY <2>3, <2>4
<1>13. CASE stageW = 6
  <2>1. ~req.dwe /\ req' = req
    BY <1>2, <1>6, <1>13 DEF StageInv
  <2>2. swr.st = "resp" /\ ~wvalid /\ swr.line = NoLine /\ ~awvalid
    BY <1>13 DEF WriteInv
  <2>3. /\ stageW' = IF Bus(go, v).bvalid THEN 10 ELSE 6
        /\ ~wvalid' /\ ~awvalid'
    BY <1>13, <2>2, WriteMoves DEF writeSide
  <2>4. swr' = IF Bus(go, v).bvalid THEN [st |-> "idle", line |-> NoLine, beat |-> 0] ELSE swr
    BY <2>2, SlaveEdge
  <2>5. QED
    BY <1>4, <1>5, <2>1, <2>2, <2>3, <2>4 DEF WriteInv
<1>14. CASE stageW = 10
  <2>1. stage \in 2..11 /\ req' = req
    BY <1>2, <1>6, <1>14
  <2>2. req.dwe => data' = data /\ lru' = lru /\ smem[req.dwaddr] = data[lru]
    BY <1>3, <1>14, <2>1 DEF WriteInv
  <2>3. swr.st = "idle" /\ ~wvalid /\ ~awvalid
    BY <1>14 DEF WriteInv
  <2>4. stageW' \in {0, 10} /\ ~wvalid' /\ ~awvalid'
    BY <1>14, <2>3, WriteMoves DEF writeSide
  <2>5. swr' = swr /\ smem' = smem
    BY <2>3, SlaveEdge, BusSignals
  <2>6. QED
    BY <1>4, <1>5, <2>1, <2>2, <2>3, <2>4, <2>5 DEF WriteInv
<1>15. QED
  BY <1>1, <1>7, <1>8, <1>9, <1>10, <1>11, <1>12, <1>13, <1>14

-----------------------------------------------------------------------------
(* Where a word is found.                                                   *)

WayOf(t, l) == CHOOSE k \in Way : t[k] = l

\* With distinct tags the way that holds a line is the only one.
LEMMA OneWay ==
    ASSUME NEW t, NEW l \in Line, t[0] # t[1] \/ t[0] = NoLine, NEW k \in Way, t[k] = l
    PROVE  WayOf(t, l) = k
<1>1. WayOf(t, l) \in Way /\ t[WayOf(t, l)] = l
  BY Zenon DEF WayOf
<1>2. l # NoLine
  BY Sizes
<1>3. QED
  BY <1>1, <1>2 DEF Way

\* Found, by the way that holds the line
LEMMA FoundIs ==
    ASSUME NEW t, NEW d, NEW m, NEW l \in Line, NEW w, t[0] # t[1] \/ t[0] = NoLine
    PROVE  /\ \A k \in Way : t[k] = l =>
                (IF \E j \in Way : t[j] = l THEN d[WayOf(t, l)][w] ELSE m[l][w]) = d[k][w]
           /\ (\A k \in Way : t[k] # l) =>
                (IF \E j \in Way : t[j] = l THEN d[WayOf(t, l)][w] ELSE m[l][w]) = m[l][w]
BY OneWay

\* The same of the state before an edge
LEMMA FoundNow ==
    ASSUME tag[0] # tag[1] \/ tag[0] = NoLine, NEW l \in Line, NEW w
    PROVE  /\ \A k \in Way : tag[k] = l => Found(l, w) = data[k][w]
           /\ (\A k \in Way : tag[k] # l) => Found(l, w) = smem[l][w]
<1>1. Found(l, w) = IF \E j \in Way : tag[j] = l THEN data[WayOf(tag, l)][w] ELSE smem[l][w]
  BY DEF Found, WayOf
<1>2. QED
  BY <1>1, FoundIs

\* and of the state after it.
LEMMA FoundNext ==
    ASSUME tag'[0] # tag'[1] \/ tag'[0] = NoLine, NEW l \in Line, NEW w
    PROVE  /\ \A k \in Way : tag'[k] = l => Found(l, w)' = data'[k][w]
           /\ (\A k \in Way : tag'[k] # l) => Found(l, w)' = smem'[l][w]
<1>1. Found(l, w)' = IF \E j \in Way : tag'[j] = l THEN data'[WayOf(tag', l)][w] ELSE smem'[l][w]
  BY DEF Found, WayOf
<1>2. QED
  BY <1>1, FoundIs

\* No edge loses a word: the line that comes is the one in memory, its victim
\* is in memory already, and a store and its way change together.
LEMMA CoherentStep ==
    ASSUME CacheTypes, AxiTypes, PassInv, StageInv, ReadInv, WriteInv, Coherent,
           NEW go \in SUBSET SlaveCan, NEW v \in Answers, Clock(go, v)
    PROVE  Coherent'
<1>1. tag[0] # tag[1] \/ tag[0] = NoLine
  BY DEF Coherent
<1>2. tag \in [Way -> Line \cup {NoLine}] /\ lru \in Way /\ Way = {0, 1}
  BY DEF CacheTypes, Way
<1>3. CASE refresh.d
  <2>1. stage = 12 /\ req.dre
    BY <1>3, RefreshIs
  <2>2. /\ Miss(dt) /\ newline = smem[dt.line]
        /\ tag[lru] # NoLine => smem[tag[lru]] = data[lru]
    BY <2>1 DEF PassInv, ReadInv, WriteInv
  <2>3. dt.line \in Line /\ \A k \in Way : tag[k] # dt.line
    BY <2>2, MissingLine
  <2>4. /\ tag' = [tag EXCEPT ![lru] = dt.line] /\ data' = [data EXCEPT ![lru] = newline]
        /\ dt' = dt /\ arch' = arch
    BY <1>3, <2>2, MissEdge
  <2>5. smem' = smem
    BY <2>1, MemoryEdge
  <2>6. tag'[0] # tag'[1] \/ tag'[0] = NoLine
    BY <1>2, <2>3, <2>4
  <2>7. data \in [Way -> LineData]
    BY DEF CacheTypes
  <2>8. ASSUME NEW l \in Line, NEW w \in Word PROVE Found(l, w)' = Found(l, w)
    <3>1. CASE l = dt.line
      <4>1. Found(l, w) = smem[l][w]
        BY <1>1, <2>3, <3>1, FoundNow
      <4>2. tag'[lru] = l /\ data'[lru] = newline
        BY <1>2, <2>4, <2>7, <3>1
      <4>3. Found(l, w)' = data'[lru][w]
        BY <1>2, <2>6, <4>2, FoundNext
      <4>4. QED
        BY <2>2, <3>1, <4>1, <4>2, <4>3
    <3>2. CASE l = tag[lru]
      <4>1. Found(l, w) = data[lru][w]
        BY <1>1, <1>2, <3>2, FoundNow
      <4>2. \A k \in Way : tag'[k] # l
        BY <1>1, <1>2, <2>3, <2>4, <3>2, Sizes
      <4>3. Found(l, w)' = smem[l][w]
        BY <2>5, <2>6, <4>2, FoundNext
      <4>4. smem[l] = data[lru]
        BY <2>2, <3>2, Sizes
      <4>5. QED
        BY <4>1, <4>3, <4>4
    <3>3. CASE l # dt.line /\ l = tag[1 - lru]
      <4>1. 1 - lru \in Way /\ 1 - lru # lru
        BY <1>2
      <4>2. Found(l, w) = data[1 - lru][w]
        BY <1>1, <3>3, <4>1, FoundNow
      <4>3. tag'[1 - lru] = l /\ data'[1 - lru] = data[1 - lru]
        BY <1>2, <2>4, <2>7, <3>3, <4>1
      <4>4. Found(l, w)' = data'[1 - lru][w]
        BY <2>6, <4>1, <4>3, FoundNext
      <4>5. QED
        BY <4>2, <4>3, <4>4
    <3>4. CASE l # dt.line /\ l # tag[lru] /\ l # tag[1 - lru]
      <4>1. (\A k \in Way : tag[k] # l) /\ (\A k \in Way : tag'[k] # l)
        BY <1>2, <2>4, <3>4
      <4>2. QED
        BY <1>1, <2>5, <2>6, <4>1, FoundNow, FoundNext
    <3>5. QED
      BY <3>1, <3>2, <3>3, <3>4
  <2>9. QED
    BY <2>4, <2>6, <2>8 DEF Coherent, IsStore
<1>4. CASE ~refresh.d /\ Miss(dt)
  <2>1. tag' = tag /\ data' = data /\ dt' = dt /\ arch' = arch
    BY <1>4, MissEdge
  <2>2. tag'[0] # tag'[1] \/ tag'[0] = NoLine
    BY <1>1, <2>1
  <2>3. ASSUME NEW l \in Line, NEW w \in Word PROVE Found(l, w)' = Found(l, w)
    <3>1. CASE \E k \in Way : tag[k] = l
      <4>1. PICK k \in Way : tag[k] = l
        BY <3>1
      <4>2. Found(l, w) = data[k][w] /\ Found(l, w)' = data'[k][w]
        BY <1>1, <2>1, <2>2, <4>1, FoundNow, FoundNext
      <4>3. QED
        BY <2>1, <4>2
    <3>2. CASE \A k \in Way : tag[k] # l
      <4>1. Found(l, w) = smem[l][w] /\ Found(l, w)' = smem'[l][w]
        BY <1>1, <2>1, <2>2, <3>2, FoundNow, FoundNext
      <4>2. smem'[l] = smem[l]
        BY <1>2, <3>2, MemoryEdge DEF CacheTypes
      <4>3. QED
        BY <4>1, <4>2
    <3>3. QED
      BY <3>1, <3>2
  <2>4. QED
    BY <2>1, <2>2, <2>3 DEF Coherent, IsStore
<1>5. CASE ~refresh.d /\ ~Miss(dt)
  <2>1. tag' = tag /\ smem' = smem
    BY <1>5, HitEdge, MemoryEdge
  <2>2. tag'[0] # tag'[1] \/ tag'[0] = NoLine
    BY <1>1, <2>1
  <2>3. ASSUME NEW l \in Line, NEW w \in Word
        PROVE  Found(l, w)' = IF IsStore(dt) /\ ~dt.uc /\ dt.line = l /\ dt.word = w THEN dt.val
                              ELSE Found(l, w)
    <3>1. CASE \A k \in Way : tag[k] # l
      <4>1. ~(IsStore(dt) /\ ~dt.uc /\ dt.line = l)
        BY <1>5, <3>1 DEF Miss, Hit, HitWay, Cached, IsStore
      <4>2. QED
        BY <1>1, <2>1, <2>2, <3>1, <4>1, FoundNow, FoundNext
    <3>2. CASE \E k \in Way : tag[k] = l
      <4>1. PICK k \in Way : tag[k] = l
        BY <3>2
      <4>2. Found(l, w) = data[k][w] /\ Found(l, w)' = data'[k][w]
        BY <1>1, <2>1, <2>2, <4>1, FoundNow, FoundNext
      <4>3. data[k] \in [Word -> Val \cup {Garbage}]
        BY DEF CacheTypes, LineData
      <4>4. data'[k][w] = IF IsStore(dt) /\ ~dt.uc /\ dt.line = l /\ dt.word = w THEN dt.val
                          ELSE data[k][w]
        BY <1>5, <4>1, <4>3, HitEdge DEF Cached, HitWay, IsStore
      <4>5. QED
        BY <4>2, <4>4
    <3>3. QED
      BY <3>1, <3>2
  <2>4. CASE dt' = dt /\ arch' = arch
    BY <2>2, <2>3, <2>4 DEF Coherent, IsStore
  <2>5. CASE Advance
    <3>1. arch' = IF IsStore(dt) /\ ~dt.uc THEN [arch EXCEPT ![dt.line][dt.word] = dt.val] ELSE arch
      BY <2>5 DEF Advance
    <3>2. IsStore(dt) => IF dt.uc THEN dt.line = NoLine ELSE dt.line \in Line /\ dt.word \in Word
      BY Sizes DEF IsStore, CacheTypes, Access
    <3>3. ASSUME NEW l \in Line, NEW w \in Word
          PROVE  arch'[l][w] = IF IsStore(dt) /\ ~dt.uc /\ dt.line = l /\ dt.word = w THEN dt.val
                               ELSE arch[l][w]
      <4>1. arch \in [Line -> [Word -> Val]]
        BY DEF CacheTypes, WordData
      <4>2. QED
        BY <3>1, <3>2, <4>1
    <3>4. ASSUME NEW l \in Line, NEW w \in Word PROVE Found(l, w)' = arch'[l][w]
      <4>1. CASE IsStore(dt) /\ ~dt.uc /\ dt.line = l /\ dt.word = w
        BY <2>3, <3>3, <4>1
      <4>2. CASE ~(IsStore(dt) /\ ~dt.uc /\ dt.line = l /\ dt.word = w)
        <5>1. ~(IsStore(dt) /\ dt.line = l /\ dt.word = w)
          BY <3>2, <4>2, Sizes
        <5>2. Found(l, w) = arch[l][w]
          BY <5>1 DEF Coherent
        <5>3. QED
          BY <2>3, <3>3, <4>2, <5>2
      <4>3. QED
        BY <4>1, <4>2
    <3>5. QED
      BY <2>2, <3>4 DEF Coherent
  <2>6. QED
    BY <2>4, <2>5 DEF Clock, CoreClock, Flush, HoldStages
<1>6. QED
  BY <1>3, <1>4, <1>5

\* A load that leaves DT takes its word along, and a stalled one keeps it.
LEMMA LoadStep ==
    ASSUME CacheTypes, AxiTypes, StageInv, UncacheInv, Coherent, LoadCorrect,
           NEW go \in SUBSET SlaveCan, NEW v \in Answers, Clock(go, v)
    PROVE  LoadCorrect'
<1>1. CASE Stall
  <2>1. ms1' = ms1 /\ (ms1 # NoLoad => stallFlag' /\ rdataBuffer' = Ms2Input)
    BY <1>1, Held
  <2>2. QED
    BY <2>1 DEF LoadCorrect, Ms2Input
<1>2. CASE Flush
  BY <1>2 DEF Flush, LoadCorrect
<1>3. CASE ~Stall /\ Advance
  <2>1. SUFFICES ASSUME ms1' # NoLoad PROVE Ms2Input' = ms1'.exp
    BY DEF LoadCorrect
  <2>2. IsLoad(dt) /\ ms1'.exp = IF dt.uc THEN answer ELSE arch[dt.line][dt.word]
    BY <1>3, <2>1 DEF Advance
  <2>3. ~stallFlag' /\ cachedR' = (dt = NoReq \/ ~dt.uc)
    BY <1>3 DEF Advance, Clock, CoreClock
  <2>4. CASE dt.uc
    <3>1. valid
      BY <1>3, <2>2, <2>4 DEF Stall, StallAxi, UncacheStall, RdReq, IsLoad
    <3>2. ~refresh.u
      BY <3>1, RefreshIs DEF UncacheInv
    <3>3. confRdata' = answer
      BY <3>1, <3>2 DEF UncacheInv, Clock, UncacheClock
    <3>4. QED
      BY <2>2, <2>3, <2>4, <3>3 DEF Ms2Input, DataSramRdata, IsLoad
  <2>5. CASE ~dt.uc
    <3>1. Cached(dt) /\ Hit(dt)
      BY <1>3, <2>2, <2>5 DEF Stall, StallAxi, Miss, Cached, IsLoad
    <3>2. dt.line \in Line /\ dt.word \in Word
      BY <3>1, Sizes DEF CacheTypes, Access, Cached
    <3>3. Found(dt.line, dt.word) = arch[dt.line][dt.word]
      BY <2>2, <3>2 DEF Coherent, IsLoad, IsStore
    <3>4. PICK k \in Way : HitWay(dt, k) /\ sramRdata' = data[k][dt.word]
      BY <3>1 DEF Hit, Way, Clock, DCacheClock, DataClock
    <3>5. Found(dt.line, dt.word) = data[k][dt.word]
      <4>1. tag[0] # tag[1] \/ tag[0] = NoLine
        BY DEF Coherent
      <4>2. QED
        BY <3>2, <3>4, <4>1, FoundNow DEF HitWay
    <3>6. QED
      BY <2>2, <2>3, <2>5, <3>3, <3>4, <3>5 DEF Ms2Input, DataSramRdata
  <2>6. QED
    BY <2>4, <2>5
<1>4. QED
  BY <1>1, <1>2, <1>3 DEF Clock, CoreClock

-----------------------------------------------------------------------------
(* The theorems.                                                            *)

\* After reset nothing is cached and nothing is asked.
LEMMA InitMemInv == Init => MemInv
<1> SUFFICES ASSUME Init PROVE MemInv
  OBVIOUS
<1> USE DEF Init, DCacheInit, UncacheInit, AxiInit
<1>1. InitMem \in [Line -> WordData]
  BY MemSysAssumption DEF WordData, Word
<1>2. [i \in Word |-> Garbage] \in LineData /\ BlankLine \in LineData
  BY DEF LineData, BlankLine, LastWord, Word
<1>3. CacheTypes
  BY <1>1, <1>2 DEF CacheTypes, Way, Access
<1>4. AxiTypes
  <2>1. /\ Quiet \in [on : BOOLEAN, line : Line \cup {NoLine}, beat : Word]
        /\ swr \in [st : {"idle", "data", "resp"}, line : Line \cup {NoLine}, beat : Word]
    BY Sizes DEF Quiet
  <2>2. NoAxi \in Uaxi
    BY DEF Uaxi
  <2>3. IdleIn \in [ire : BOOLEAN, dre : BOOLEAN, draddr : Line \cup {NoLine},
                    dwe : BOOLEAN, dwaddr : Line \cup {NoLine}, u : Uaxi]
    BY <2>2 DEF IdleIn
  <2>4. /\ stage \in 0..12 /\ stageW \in 0..6 \cup {10}
        /\ rbuf \in LineData /\ roff \in Word /\ woff \in Word
    BY <1>2, Sizes
  <2>5. awvalid \in BOOLEAN /\ wvalid \in BOOLEAN /\ wlast \in BOOLEAN
    OBVIOUS
  <2>6. QED
    BY <2>1, <2>3, <2>4, <2>5 DEF AxiTypes
<1>5. PassInv /\ StageInv
  BY DEF PassInv, StageInv
<1>6. UncacheInv
  BY DEF UncacheInv, Uaxi
<1>7. ReadInv /\ WriteInv
  BY DEF ReadInv, WriteInv, Quiet
<1>8. Coherent
  <2>1. \A k \in Way : tag[k] = NoLine
    OBVIOUS
  <2>2. ASSUME NEW l \in Line, NEW w \in Word PROVE Found(l, w) = arch[l][w]
    BY <2>1, Sizes DEF Found
  <2>3. QED
    BY <2>1, <2>2 DEF Coherent, Way
<1>9. LoadCorrect
  BY DEF LoadCorrect
<1>10. QED
  BY <1>3, <1>4, <1>5, <1>6, <1>7, <1>8, <1>9 DEF MemInv

\* Every clock edge keeps the invariant, whatever the slave gives.
LEMMA ClockMemInv ==
    ASSUME MemInv, NEW go \in SUBSET SlaveCan, NEW v \in Answers, Clock(go, v)
    PROVE  MemInv'
BY CacheTypesStep, AxiTypesStep, PassStep, StageStep, UncacheStep, ReadStep, WriteStep,
   CoherentStep, LoadStep DEF MemInv

\* MemInv holds in every state of the memory side: the passes of axi_ctrl.v,
\* the burst it is in, the request in DT and the cache always fit together.
THEOREM MemInvariant == Spec => []MemInv
<1>1. MemInv /\ [Next]_vars => MemInv'
  <2>1. SUFFICES ASSUME MemInv, [Next]_vars PROVE MemInv'
    OBVIOUS
  <2>2. CASE Next
    BY <2>1, <2>2, ClockMemInv DEF Next
  <2>3. CASE UNCHANGED vars
    <3>1. /\ UNCHANGED <<tag, lru, data, oldline, sramRdata>>
          /\ UNCHANGED <<ustage, bufferValid, finish, valid, uaxi, confRdata>>
          /\ UNCHANGED <<stage, stageW, req, wbuf, rbuf, roff, woff, urbuf, awvalid, wvalid>>
          /\ UNCHANGED <<wdata, wlast, refresh, newline>>
          /\ UNCHANGED <<dt, imiss, es, cachedR, ms1, stallFlag, rdataBuffer>>
          /\ UNCHANGED <<smem, srd, swr, arch, answer>>
      BY <2>3 DEF vars, dcacheVars, uncacheVars, axiVars, coreVars, slaveVars
    <3>2. CacheTypes' /\ AxiTypes'
      BY <2>1, <3>1 DEF MemInv, CacheTypes, AxiTypes
    <3>3. PassInv' /\ StageInv'
      BY <2>1, <3>1 DEF MemInv, PassInv, StageInv, Writes, UWrite, URead, ReadsOf, Refreshed,
                       NoRefresh, Miss, Hit, HitWay, Cached
    <3>4. UncacheInv' /\ ReadInv'
      BY <2>1, <3>1 DEF MemInv, UncacheInv, ReadInv, UWrite, URead, IsLoad
    <3>5. WriteInv'
      BY <2>1, <3>1 DEF MemInv, WriteInv, Sent
    <3>6. Coherent' /\ LoadCorrect'
      BY <2>1, <3>1 DEF MemInv, Coherent, Found, IsStore, LoadCorrect, Ms2Input, DataSramRdata
    <3>7. QED
      BY <3>2, <3>3, <3>4, <3>5, <3>6 DEF MemInv
  <2>4. QED
    BY <2>1, <2>2, <2>3
<1>2. QED
  BY <1>1, InitMemInv, PTL DEF Spec

\* Between the cache and the memory no word is lost or stale: dcache.v and
\* axi_ctrl.v never give a way away before its line has reached memory.
THEOREM Coherence == Spec => []Coherent
<1>1. MemInv => Coherent
  BY DEF MemInv
<1>2. QED
  BY <1>1, MemInvariant, PTL

\* MEM2 takes for every load the word the program wrote or the device answered,
\* whatever stalls lie between (mem_stage.v).
THEOREM LoadsAreCorrect == Spec => []LoadCorrect
<1>1. MemInv => LoadCorrect
  BY DEF MemInv
<1>2. QED
  BY <1>1, MemInvariant, PTL

\* uncache.v and axi_ctrl.v never let a load from the device overtake a store to it.
THEOREM DeviceInOrder == Spec => []DeviceOrder
<1>1. MemInv => DeviceOrder
  <2>1. SUFFICES ASSUME MemInv, stage \in {8, 9}
                 PROVE  /\ ~bufferValid /\ (swr.st = "idle" \/ swr.line # NoLine)
                        /\ stageW \notin {4, 5, 6}
    BY DEF DeviceOrder
  <2>2. URead(req.u) /\ ~req.dre /\ ~req.dwe /\ URead(uaxi)
    BY <2>1 DEF MemInv, StageInv, PassInv, URead
  <2>3. ~bufferValid
    BY <2>1, <2>2 DEF MemInv, UncacheInv, URead, UWrite
  <2>4. stageW \in {0, 10}
    BY <2>1, <2>2 DEF MemInv, AxiTypes, StageInv, URead, UWrite
  <2>5. QED
    BY <2>1, <2>3, <2>4 DEF MemInv, WriteInv
<1>2. QED
  BY <1>1, MemInvariant, PTL
=============================================================================
