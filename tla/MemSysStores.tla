---------------------------- MODULE MemSysStores ----------------------------
(***************************************************************************)
(* MemSys with a count of the stores the program has made to the device    *)
(* and the device has not yet received.                                    *)
(***************************************************************************)
EXTENDS MCMemSys, Integers

VARIABLE owed     \* stores that entered DT - writes the device took, in -1..Cap

Cap == 2

DeviceStore(d) == IsStore(d) /\ d.uc
Enters   == IF ~Stall /\ DeviceStore(dt') THEN 1 ELSE 0
Received == IF swr.st = "data" /\ swr'.st = "resp" /\ swr.line = NoLine THEN 1 ELSE 0

CountedInit == Init /\ owed = 0

CountedNext ==
    /\ Next
    /\ owed' = owed + Enters - Received
    /\ owed' \in -1..Cap

CountedSpec == CountedInit /\ [][CountedNext]_<<vars, owed>>

\* No store is on its way: none in DT, in the buffer or at the bus controller.
NothingUnderWay == ~DeviceStore(dt) /\ uaxi = NoAxi /\ stage = 0 /\ stageW = 0

\* A ST.W to an uncached address reaches the device.
StoreReachesDevice == NothingUnderWay => owed <= 0

\* A ST.W to an uncached address reaches the device no more than once.
StoreReachesDeviceOnce == owed >= 0
=============================================================================
