------------------------------- MODULE MemSys -------------------------------
(***************************************************************************)
(* The memory side of the CPU as mycpu_top.v wires it: the DT, MEM1 and    *)
(* MEM2 stages, the data cache, the uncached path, the bus controller, and *)
(* (external) the AXI slave with the memory and one device register.       *)
(*                                                                         *)
(* A step is one clock edge: every register takes the value its inputs had *)
(* in the cycle before, so Clock is the conjunction of the edges of all    *)
(* the modules.  The slave and the program choose, the rest is determined. *)
(***************************************************************************)
EXTENDS Naturals

CONSTANTS Line, LineWords, Val,
          StoreLine,   \* bound: the lines the program stores to
          StoreVal,    \* bound: the values it stores
          DevStore,    \* bound: the values it stores to the device
          DevVal,      \* what the device may answer
          InitMem,     \* the memory when the CPU is reset
          NoLine, Garbage, NoReq, NoAxi, NoLoad

VARIABLES tag, lru, data, oldline, sramRdata                          \* DCache
VARIABLES ustage, bufferValid, finish, valid, uaxi, confRdata         \* Uncache
VARIABLES stage, stageW, req, wbuf, rbuf, roff, woff, urbuf,          \* AxiCtrl
          awvalid, wvalid, wdata, wlast, refresh, newline

VARIABLES dt,          \* DT stage: the access on data_sram_*
          imiss,       \* the fetch in IF2 misses the instruction cache
          es,          \* stallreq_es: a multiplication or division runs
          cachedR,     \* dcache_cached_r
          ms1,         \* MEM1 stage: the load and (ghost) its proper value
          stallFlag, rdataBuffer,       \* stall_flag, data_sram_rdata_buffer
          smem, srd, swr,               \* slave: memory, read burst, write burst
          arch, answer                  \* ghosts: memory as the program sees it;
                                        \* the device's answer to the load in DT

INSTANCE DCache
INSTANCE Uncache
INSTANCE AxiCtrl

ASSUME MemSysAssumption ==
    /\ LineWords \in Nat \ {0}
    /\ StoreLine \subseteq Line /\ StoreVal \subseteq Val
    /\ InitMem \in [Line -> [0..(LineWords - 1) -> Val]]
    /\ NoLine \notin Line /\ Garbage \notin Val \cup DevVal
    /\ NoAxi \notin [we : BOOLEAN, val : DevStore \cup {Garbage}]

coreVars  == <<dt, imiss, es, cachedR, ms1, stallFlag, rdataBuffer>>
slaveVars == <<smem, srd, swr>>
vars == <<dcacheVars, uncacheVars, axiVars, coreVars, slaveVars, arch, answer>>

\* What the program may put into the DT stage; mmu.v splits by address.  (Of
\* the lines it never stores to, it loads only the first word.)
Access ==
    {NoReq}
    \cup [uc : {FALSE}, we : {FALSE}, line : StoreLine, word : Word, val : {Garbage}]
    \cup [uc : {FALSE}, we : {FALSE}, line : Line, word : {0}, val : {Garbage}]
    \cup [uc : {FALSE}, we : {TRUE}, line : StoreLine, word : Word, val : StoreVal]
    \cup [uc : {TRUE}, we : {FALSE}, line : {NoLine}, word : {0}, val : {Garbage}]
    \cup [uc : {TRUE}, we : {TRUE}, line : {NoLine}, word : {0}, val : DevStore]

IsStore(d) == d # NoReq /\ d.we
IsLoad(d)  == d # NoReq /\ ~d.we

-----------------------------------------------------------------------------
(* Wires between the modules.                                               *)

AxiIn ==
    [ire |-> imiss,
     dre |-> Miss(dt), draddr |-> IF Miss(dt) THEN dt.line ELSE NoLine,
     dwe |-> WriteBack(dt), dwaddr |-> IF WriteBack(dt) THEN tag[lru] ELSE NoLine,
     u   |-> uaxi]

IdleIn == [ire |-> FALSE, dre |-> FALSE, draddr |-> NoLine,
           dwe |-> FALSE, dwaddr |-> NoLine, u |-> NoAxi]

StallAxi      == imiss \/ Miss(dt) \/ UncacheStall(dt)
Stall         == StallAxi \/ es
DataSramRdata == IF cachedR THEN sramRdata ELSE confRdata

\* What MEM2 takes when the pipeline moves.
NoStallFlag == DataSramRdata                                            \* mutant
Ms2Input == IF stallFlag THEN rdataBuffer ELSE DataSramRdata

-----------------------------------------------------------------------------
(* The AXI slave: one read and one write burst at a time, each signal given *)
(* when it pleases; data is taken after its address.                        *)

Quiet == [on |-> FALSE, line |-> NoLine, beat |-> 0]

SlaveCan ==
    {s \in {"arready", "rvalid", "awready", "wready", "bvalid"} :
        CASE s = "arready" -> ArValid /\ ~srd.on
          [] s = "rvalid"  -> RReady /\ srd.on
          [] s = "awready" -> awvalid /\ swr.st = "idle"
          [] s = "wready"  -> wvalid /\ swr.st = "data"
          [] s = "bvalid"  -> BReady /\ swr.st = "resp"}

LastBeat == stage = 9 \/ srd.beat = LineWords - 1

Bus(go, v) ==
    [arready |-> "arready" \in go, rvalid |-> "rvalid" \in go,
     rlast   |-> "rvalid" \in go /\ LastBeat,
     rdata   |-> CASE "rvalid" \notin go \/ stage = 4 -> Garbage
                   [] stage = 9 -> v
                   [] OTHER -> smem[srd.line][srd.beat],
     awready |-> "awready" \in go, wready |-> "wready" \in go,
     bvalid  |-> "bvalid" \in go]

SlaveRead(bus) ==
    srd' = IF bus.arready
           THEN [on |-> TRUE, line |-> IF stage = 6 THEN req.draddr ELSE NoLine, beat |-> 0]
           ELSE IF bus.rlast THEN Quiet
           ELSE IF bus.rvalid THEN [srd EXCEPT !.beat = @ + 1]
           ELSE srd

SlaveWrite(bus) ==
    /\ swr' = IF bus.awready
              THEN [st |-> "data", line |-> IF stageW = 1 THEN req.dwaddr ELSE NoLine, beat |-> 0]
              ELSE IF bus.wready
              THEN [swr EXCEPT !.st = IF wlast THEN "resp" ELSE "data",
                               !.beat = IF wlast THEN 0 ELSE @ + 1]
              ELSE IF bus.bvalid THEN [st |-> "idle", line |-> NoLine, beat |-> 0]
              ELSE swr
    /\ smem' = IF bus.wready /\ swr.line # NoLine
               THEN [smem EXCEPT ![swr.line][swr.beat] = wdata]
               ELSE smem

-----------------------------------------------------------------------------
(* The pipeline around the DT stage.                                        *)

\* The load in DT moves to MEM1, the program supplies the next access.
Advance ==
    /\ dt' \in Access
    /\ imiss' \in BOOLEAN /\ es' \in BOOLEAN
    /\ ms1' = IF IsLoad(dt) THEN [exp |-> IF dt.uc THEN answer ELSE arch[dt.line][dt.word]]
              ELSE NoLoad
    /\ stallFlag' = FALSE /\ rdataBuffer' = Garbage
    /\ arch' = IF IsStore(dt) /\ ~dt.uc THEN [arch EXCEPT ![dt.line][dt.word] = dt.val]
               ELSE arch

\* An exception in MEM2 empties the stages before it.  csr_cancel has kept the
\* accesses behind the faulting instruction from leaving the EXE stage.
Flush ==
    /\ dt = NoReq /\ ms1 = NoLoad
    /\ imiss' \in BOOLEAN /\ es' = FALSE
    /\ stallFlag' = FALSE /\ rdataBuffer' = Garbage
    /\ UNCHANGED <<dt, ms1, arch>>

\* MEM2 saves what MEM1 offers in the first stalled cycle.
HoldStages ==
    /\ UNCHANGED <<dt, ms1, arch>>
    /\ imiss' = (imiss /\ ~refresh.i)
    /\ es' \in {es, FALSE}
    /\ stallFlag' = TRUE
    /\ rdataBuffer' = IF stallFlag THEN rdataBuffer ELSE DataSramRdata

CoreClock ==
    /\ cachedR' = (dt = NoReq \/ ~dt.uc)
    /\ \/ ~Stall /\ Advance
       \/ ~StallAxi /\ Flush
       \/ Stall /\ HoldStages

-----------------------------------------------------------------------------

Clock(go, v) ==
    /\ DCacheClock(dt, refresh.d, newline)
    /\ UncacheClock(dt, refresh.u, urbuf)
    /\ AxiRead(AxiIn, oldline, Bus(go, v))
    /\ AxiWrite(Bus(go, v))
    /\ SlaveRead(Bus(go, v)) /\ SlaveWrite(Bus(go, v))
    /\ CoreClock
    /\ answer' = IF stage = 9 /\ "rvalid" \in go THEN v
                 ELSE IF Stall THEN answer ELSE Garbage

Init ==
    /\ DCacheInit /\ UncacheInit(Garbage) /\ AxiInit(IdleIn)
    /\ dt = NoReq /\ imiss = FALSE /\ es = FALSE
    /\ cachedR = FALSE /\ ms1 = NoLoad /\ stallFlag = FALSE /\ rdataBuffer = Garbage
    /\ smem = InitMem /\ srd = Quiet /\ swr = [st |-> "idle", line |-> NoLine, beat |-> 0]
    /\ arch = InitMem /\ answer = Garbage

Answers == IF stage = 9 THEN DevVal ELSE {Garbage}

Next == \E go \in SUBSET SlaveCan, v \in Answers : Clock(go, v)

\* The slave gives every signal it is asked for in the end, and a
\* multiplication or division ends.
SlaveGives(s) == \E go \in SUBSET SlaveCan, v \in Answers : s \in go /\ Clock(go, v)
MulDivEnds    == es /\ Next /\ ~es'

Spec == Init /\ [][Next]_vars

FairSpec ==
    /\ Spec /\ WF_vars(Next) /\ WF_vars(MulDivEnds)
    /\ WF_vars(SlaveGives("arready")) /\ WF_vars(SlaveGives("rvalid"))
    /\ WF_vars(SlaveGives("awready")) /\ WF_vars(SlaveGives("wready"))
    /\ WF_vars(SlaveGives("bvalid"))

-----------------------------------------------------------------------------

Uaxi == {NoAxi} \cup [we : BOOLEAN, val : DevStore \cup {Garbage}]
Datum == Val \cup DevVal \cup DevStore \cup {Garbage}
LineData == [Word -> Val \cup {Garbage}]

\* Every register holds a value its code can give it; the burst counters stay
\* inside a line, and nothing but program data ever reaches the memory.
TypeOK ==
    /\ tag \in [Way -> Line \cup {NoLine}] /\ lru \in Way
    /\ data \in [Way -> LineData] /\ oldline \in LineData /\ sramRdata \in Datum
    /\ ustage \in {"IDLE", "BUFFER", "WAIT"} /\ uaxi \in Uaxi
    /\ {bufferValid, finish, valid} \subseteq BOOLEAN /\ confRdata \in Datum
    /\ stage \in 0..12 /\ stageW \in 0..6 \cup {10}
    /\ req \in [ire : BOOLEAN, dre : BOOLEAN, draddr : Line \cup {NoLine},
                dwe : BOOLEAN, dwaddr : Line \cup {NoLine}, u : Uaxi]
    /\ {wbuf, rbuf, newline} \subseteq LineData /\ {roff, woff} \subseteq Word
    /\ urbuf \in Datum /\ {awvalid, wvalid, wlast} \subseteq BOOLEAN /\ wdata \in Datum
    /\ refresh \in [i : BOOLEAN, d : BOOLEAN, u : BOOLEAN]
    /\ dt \in Access /\ {imiss, es, cachedR, stallFlag} \subseteq BOOLEAN
    /\ ms1 \in {NoLoad} \cup [exp : Val \cup DevVal] /\ rdataBuffer \in Datum
    /\ smem \in [Line -> [Word -> Val]] /\ arch \in [Line -> [Word -> Val]]
    /\ srd \in [on : BOOLEAN, line : Line \cup {NoLine}, beat : Word]
    /\ swr \in [st : {"idle", "data", "resp"}, line : Line \cup {NoLine}, beat : Word]
    /\ answer \in DevVal \cup {Garbage}

\* The word that would be found: in the way that holds the line, else in memory.
Found(l, w) ==
    IF \E k \in Way : tag[k] = l THEN data[CHOOSE k \in Way : tag[k] = l][w]
                                ELSE smem[l][w]

\* No line is in both ways, and every word is found as the program last wrote
\* it (but for the store that is being done): a victim reaches memory before
\* its way is given away, whatever the bus is doing meanwhile.
Coherent ==
    /\ tag[0] # tag[1] \/ tag[0] = NoLine
    /\ \A l \in Line, w \in Word :
         \/ IsStore(dt) /\ dt.line = l /\ dt.word = w
         \/ Found(l, w) = arch[l][w]

\* A load in MEM1 offers MEM2 the word the program wrote, or the device's
\* answer, in every cycle it stands there, however long and why ever the
\* pipeline is stalled.
LoadCorrect == ms1 # NoLoad => Ms2Input = ms1.exp

\* The device sees an uncached load only after the stores before it: no write
\* to it is under way and none is waiting in the buffer.
DeviceOrder ==
    stage \in {8, 9} => ~bufferValid /\ (swr.st = "idle" \/ swr.line # NoLine)
                        /\ stageW \notin {4, 5, 6}

\* The bus never stops the pipeline for good.
StallEnds == []<>~Stall
=============================================================================
