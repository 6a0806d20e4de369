------------------------------- MODULE DCache -------------------------------
(***************************************************************************)
(* The data cache of the CPU: dcache.v, cache_tag.v and cache_data.v.  The *)
(* 64 sets never interact, so one set is modelled: two ways, one LRU bit.  *)
(* There is no dirty bit; every valid victim is written back.              *)
(*                                                                         *)
(* The operators without primes are the wires of one clock cycle, as       *)
(* functions of the request dt that stands in the DT stage.                *)
(***************************************************************************)
EXTENDS Naturals

CONSTANTS Line,       \* cache lines that fall into the set
          LineWords,  \* 32-bit words of a line (16 in the code)
          Val,        \* contents of a word
          NoLine,     \* an invalid tag
          Garbage,    \* whatever the data banks happen to output
          NoReq       \* no access in the DT stage

VARIABLES tag,        \* tag_way0, tag_way1: the line a way holds
          lru,        \* lru_r: the way to be replaced next
          data,       \* the data banks
          oldline,    \* cacheline_old: the victim, read from the banks
          sramRdata   \* sram_rdata: the word read, one cycle later

dcacheVars == <<tag, lru, data, oldline, sramRdata>>

Way  == {0, 1}
Word == 0..(LineWords - 1)

Cached(dt)    == dt # NoReq /\ ~dt.uc
HitWay(dt, w) == Cached(dt) /\ tag[w] = dt.line
Hit(dt)       == \E w \in Way : HitWay(dt, w)
Miss(dt)      == Cached(dt) /\ ~Hit(dt)

NeverWriteBack(dt) == FALSE                                    \* mutant
WriteBack(dt) == Miss(dt) /\ tag[lru] # NoLine

DCacheInit ==
    /\ tag = [w \in Way |-> NoLine]
    /\ lru = 0
    /\ data = [w \in Way |-> [i \in Word |-> Garbage]]
    /\ oldline = [i \in Word |-> Garbage]
    /\ sramRdata = Garbage

\* cache_tag.v: a hit makes the other way the next victim; refresh installs the
\* tag in the victim and flips the bit.
TagClock(dt, refresh) ==
    /\ lru' = IF HitWay(dt, 0) /\ ~HitWay(dt, 1) THEN 1
              ELSE IF HitWay(dt, 1) /\ ~HitWay(dt, 0) THEN 0
              ELSE IF refresh THEN 1 - lru
              ELSE lru
    /\ tag' = IF refresh
              THEN [tag EXCEPT ![lru] = IF Cached(dt) THEN dt.line ELSE NoLine]
              ELSE tag

\* cache_data.v: refresh fills the victim way, a store that hits writes its word.
DataClock(dt, refresh, newline) ==
    /\ data' = IF refresh /\ Cached(dt) THEN [data EXCEPT ![lru] = newline]
               ELSE IF Cached(dt) /\ dt.we /\ ~WriteBack(dt)
               THEN [w \in Way |-> IF HitWay(dt, w)
                                   THEN [data[w] EXCEPT ![dt.word] = dt.val]
                                   ELSE data[w]]
               ELSE data
    /\ oldline' = IF WriteBack(dt) THEN data[lru] ELSE [i \in Word |-> Garbage]
    /\ sramRdata' = IF HitWay(dt, 0) THEN data[0][dt.word]
                    ELSE IF HitWay(dt, 1) THEN data[1][dt.word]
                    ELSE Garbage

DCacheClock(dt, refresh, newline) ==
    TagClock(dt, refresh) /\ DataClock(dt, refresh, newline)
=============================================================================
