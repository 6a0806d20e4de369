SPECIFICATION FairSpec
CONSTANTS
    Proc = {p1, p2}
    Block = {k1, k2, k3}
    WriteBlock = {k1}
    Val = {v0, v1}
    InitVal = v0
    NBUF = 2
    NUM = 4
    IdxMod = 4
    MaxPinned = 1
    None = None
CHECK_DEADLOCK FALSE
PROPERTIES NobodySleepsForever
