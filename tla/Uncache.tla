------------------------------ MODULE Uncache ------------------------------
(***************************************************************************)
(* The path of uncached accesses (uncache.v): a load waits for its answer, *)
(* a store is left in a one-entry buffer while the pipeline goes on.       *)
(***************************************************************************)
CONSTANTS NoReq, NoAxi    \* nothing in DT; nothing asked of the bus

VARIABLES ustage,         \* IDLE, BUFFER (a store) or WAIT (a load)
          bufferValid,    \* buffer_valid
          finish, valid,  \* the load is answered; its answer may be taken
          uaxi,           \* axi_en, axi_wsel, axi_wdata: what the bus is asked
          confRdata       \* conf_rdata

uncacheVars == <<ustage, bufferValid, finish, valid, uaxi, confRdata>>

RdReq(dt) == dt # NoReq /\ dt.uc /\ ~dt.we /\ ~valid
WrReq(dt) == dt # NoReq /\ dt.uc /\ dt.we /\ ~valid

UncacheStall(dt) == RdReq(dt) \/ (WrReq(dt) /\ bufferValid) \/ ustage = "WAIT"

UncacheInit(v0) ==
    /\ ustage = "IDLE" /\ bufferValid = FALSE
    /\ finish = FALSE /\ valid = FALSE
    /\ uaxi = NoAxi
    /\ confRdata = v0

Start(dt) ==
    /\ ustage = "IDLE" /\ ~bufferValid /\ (RdReq(dt) \/ WrReq(dt))
    /\ uaxi' = [we |-> dt.we, val |-> dt.val]
    /\ bufferValid' = dt.we
    /\ ustage' = IF dt.we THEN "BUFFER" ELSE "WAIT"
    /\ UNCHANGED finish

Drain(reload) ==
    /\ ustage = "BUFFER" /\ reload
    /\ bufferValid' = FALSE /\ uaxi' = NoAxi /\ ustage' = "IDLE"
    /\ UNCHANGED finish

Answer(reload) ==
    /\ ustage = "WAIT" /\ reload
    /\ uaxi' = NoAxi /\ finish' = TRUE
    /\ UNCHANGED <<ustage, bufferValid>>

Leave(reload) ==
    /\ ustage = "WAIT" /\ ~reload /\ finish
    /\ finish' = FALSE /\ ustage' = "IDLE"
    /\ UNCHANGED <<uaxi, bufferValid>>

Hold(dt, reload) ==
    /\ CASE ustage = "IDLE"   -> bufferValid \/ ~(RdReq(dt) \/ WrReq(dt))
         [] ustage = "BUFFER" -> ~reload
         [] ustage = "WAIT"   -> ~reload /\ ~finish
    /\ UNCHANGED <<ustage, bufferValid, finish, uaxi>>

UncacheClock(dt, reload, rdata) ==
    /\ valid' = finish
    /\ confRdata' = IF reload THEN rdata ELSE confRdata
    /\ Start(dt) \/ Drain(reload) \/ Answer(reload) \/ Leave(reload) \/ Hold(dt, reload)
=============================================================================
