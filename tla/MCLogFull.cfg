SPECIFICATION Spec
CONSTANTS
    Block = {b1, b2, b3}
    Val = {v0, v1}
    Proc = {p1, p2, p3}
    InitVal = v0
    Torn = Torn
    NoBuf = NoBuf
    MAXOPBLOCKS = 1
    LOGSIZE = 3
    NLog = 3
INVARIANT NoPanic
