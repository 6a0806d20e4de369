SPECIFICATION FairSpec
CONSTANTS
    Block = {b1, b2}
    Val = {v0, v1}
    Proc = {p1, p2}
    InitVal = v0
    Torn = Torn
    NoBuf = NoBuf
    MAXOPBLOCKS = 2
    LOGSIZE = 4
    NLog = 4
INVARIANTS TypeOK QuiescentIsDurable PinMatchesLog ReservationHolds
PROPERTIES ImplementsAtomicLog SleeperWakes
