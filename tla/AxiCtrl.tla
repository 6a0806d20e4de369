------------------------------ MODULE AxiCtrl ------------------------------
(***************************************************************************)
(* The bus controller (axi_ctrl.v): one state machine takes the misses of  *)
(* both caches and the uncached access and reads, a second one writes, in  *)
(* lock step at the ends of a pass.  One operator per state of the code's  *)
(* one-hot stage and stage_w; an operator is what one clock edge does.     *)
(*                                                                         *)
(* "in" holds the requests of the caches, "bus" the signals of the slave.  *)
(***************************************************************************)
EXTENDS Naturals

CONSTANTS LineWords, NoAxi, Garbage

VARIABLES stage,      \* stage: 0..11, and 12 when no bit is set
          stageW,     \* stage_w
          req,        \* the *_buffer registers latched in stage 0
          wbuf,       \* dcache_wdata_buffer
          rbuf,       \* dcache_rdata_buffer
          roff,       \* dcache_offset, icache_offset
          woff,       \* dcache_offset_w
          urbuf,      \* uncache_rdata_buffer
          awvalid, wvalid, wdata, wlast,
          refresh,    \* icache_, dcache_ and uncache_refresh
          newline     \* dcache_cacheline_new

axiVars == <<stage, stageW, req, wbuf, rbuf, roff, woff, urbuf, awvalid, wvalid,
             wdata, wlast, refresh, newline>>

LastWord    == LineWords - 1
BlankLine   == [i \in 0..LastWord |-> Garbage]
NoRefresh   == [i |-> FALSE, d |-> FALSE, u |-> FALSE]
UWrite(u)   == u # NoAxi /\ u.we
URead(u)    == u # NoAxi /\ ~u.we
UData(u)    == IF u = NoAxi THEN Garbage ELSE u.val
ReadsOf(r)  == r.ire \/ r.dre \/ URead(r.u)
ArValid     == stage \in {3, 6, 8}
RReady      == stage \in {4, 7, 9}
BReady      == stageW \in 1..6

NoWrap(o)   == o + 1                                           \* mutant
NextWord(o) == (o + 1) % LineWords

NoUncacheRefresh(r) == [i |-> r.ire, d |-> r.dre, u |-> FALSE] \* mutant
Refreshed(r)        == [i |-> r.ire, d |-> r.dre, u |-> r.u # NoAxi]

AxiInit(idle) ==
    /\ stage = 0 /\ stageW = 0
    /\ req = idle
    /\ wbuf = BlankLine /\ rbuf = BlankLine /\ newline = BlankLine
    /\ roff = 0 /\ woff = 0 /\ urbuf = Garbage
    /\ awvalid = FALSE /\ wvalid = FALSE /\ wdata = Garbage /\ wlast = FALSE
    /\ refresh = NoRefresh

-----------------------------------------------------------------------------
(* stage: the read side.                                                    *)

readSide == <<req, wbuf, rbuf, roff, urbuf, refresh, newline>>

Goto(s) == stage' = s

R0(in) ==
    /\ stage = 0
    /\ req' = in
    /\ refresh' = NoRefresh
    /\ stage' = IF in.dwe \/ UWrite(in.u) THEN 1 ELSE IF ReadsOf(in) THEN 2 ELSE 0
    /\ UNCHANGED <<wbuf, rbuf, roff, urbuf, newline>>

R1(oldline) ==
    /\ stage = 1
    /\ wbuf' = oldline
    /\ stage' = IF ReadsOf(req) THEN 2 ELSE 10
    /\ UNCHANGED <<req, rbuf, roff, urbuf, refresh, newline>>

R2 ==
    /\ stage = 2 /\ Goto(IF req.ire THEN 3 ELSE 5)
    /\ UNCHANGED readSide

\* stages 3, 6 and 8: the address is taken
RAddr(bus) ==
    /\ ArValid
    /\ stage' = IF bus.arready THEN stage + 1 ELSE stage
    /\ roff' = IF bus.arready THEN 0 ELSE roff
    /\ UNCHANGED <<req, wbuf, rbuf, urbuf, refresh, newline>>

\* stage 4: the instruction line (its words are not modelled)
R4(bus) ==
    /\ stage = 4
    /\ roff' = IF bus.rvalid /\ ~bus.rlast THEN NextWord(roff) ELSE roff
    /\ stage' = IF bus.rvalid /\ bus.rlast THEN 5 ELSE 4
    /\ UNCHANGED <<req, wbuf, rbuf, urbuf, refresh, newline>>

R5 ==
    /\ stage = 5
    /\ Goto(IF req.dre THEN 6 ELSE IF URead(req.u) THEN 8 ELSE 10)
    /\ UNCHANGED readSide

R7(bus) ==
    /\ stage = 7
    /\ rbuf' = IF bus.rvalid THEN [rbuf EXCEPT ![roff] = bus.rdata] ELSE rbuf
    /\ roff' = IF bus.rvalid /\ ~bus.rlast THEN NextWord(roff) ELSE roff
    /\ stage' = IF bus.rvalid /\ bus.rlast THEN 10 ELSE 7
    /\ UNCHANGED <<req, wbuf, urbuf, refresh, newline>>

R9(bus) ==
    /\ stage = 9
    /\ urbuf' = IF bus.rvalid THEN bus.rdata ELSE urbuf
    /\ stage' = IF bus.rvalid THEN 10 ELSE 9
    /\ UNCHANGED <<req, wbuf, rbuf, roff, refresh, newline>>

DontAwaitWrite == stageW = stageW                              \* mutant
WriteSettled == stageW \in {10, 0}

R10 ==
    /\ stage = 10 /\ Goto(IF WriteSettled THEN 11 ELSE 10)
    /\ UNCHANGED readSide

\* The buffers are dead after this edge; the model clears them.
R11 ==
    /\ stage = 11 /\ Goto(12)
    /\ refresh' = Refreshed(req)
    /\ newline' = IF req.dre THEN rbuf ELSE newline
    /\ wbuf' = BlankLine /\ rbuf' = BlankLine /\ roff' = 0
    /\ UNCHANGED <<req, urbuf>>

R12 ==
    /\ stage = 12 /\ Goto(0)
    /\ refresh' = NoRefresh
    /\ newline' = BlankLine /\ urbuf' = Garbage
    /\ UNCHANGED <<req, wbuf, rbuf, roff>>

AxiRead(in, oldline, bus) ==
    R0(in) \/ R1(oldline) \/ R2 \/ RAddr(bus) \/ R4(bus) \/ R5 \/ R7(bus) \/ R9(bus)
    \/ R10 \/ R11 \/ R12

-----------------------------------------------------------------------------
(* stage_w: the write side.  A write-back goes before an uncached store.    *)

writeSide == <<woff, awvalid, wvalid, wdata, wlast>>

GotoW(s) == stageW' = s

W0 ==
    /\ stageW = 0
    /\ IF stage = 1 /\ (req.dwe \/ UWrite(req.u))
       THEN /\ stageW' = IF req.dwe THEN 1 ELSE 4
            /\ awvalid' = TRUE /\ woff' = 0 /\ UNCHANGED <<wvalid, wdata, wlast>>
       ELSE GotoW(0) /\ UNCHANGED writeSide

\* Either ready moves on to the next word of the line.
W1(bus) ==
    /\ stageW = 1
    /\ IF bus.awready \/ bus.wready
       THEN /\ awvalid' = (awvalid /\ ~bus.awready)
            /\ wdata' = wbuf[woff] /\ wvalid' = TRUE /\ wlast' = (woff = LastWord)
            /\ woff' = NextWord(woff)
            /\ GotoW(IF woff = LastWord THEN 2 ELSE 1)
       ELSE GotoW(1) /\ UNCHANGED writeSide

\* stages 2 and 5: the last word is taken
WLastWord(bus) ==
    /\ stageW \in {2, 5}
    /\ IF bus.wready
       THEN /\ wdata' = Garbage /\ wvalid' = FALSE /\ wlast' = FALSE
            /\ GotoW(stageW + 1) /\ UNCHANGED <<woff, awvalid>>
       ELSE GotoW(stageW) /\ UNCHANGED writeSide

\* stages 3 and 6: the write response
WResp(bus) ==
    /\ stageW \in {3, 6}
    /\ GotoW(IF bus.bvalid THEN 10 ELSE stageW)
    /\ UNCHANGED writeSide

W4(bus) ==
    /\ stageW = 4
    /\ IF bus.awready
       THEN /\ awvalid' = FALSE /\ wdata' = UData(req.u) /\ wvalid' = TRUE /\ wlast' = TRUE
            /\ GotoW(5) /\ UNCHANGED woff
       ELSE GotoW(4) /\ UNCHANGED writeSide

W10 ==
    /\ stageW = 10 /\ GotoW(IF stage = 11 THEN 0 ELSE 10)
    /\ UNCHANGED writeSide

AxiWrite(bus) == W0 \/ W1(bus) \/ WLastWord(bus) \/ WResp(bus) \/ W4(bus) \/ W10
=============================================================================
