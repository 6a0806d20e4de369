SPECIFICATION Spec
CONSTANTS
    Proc = {p1, p2}
    Block = {k1, k2, k3}
    WriteBlock = {k1}
    Val = {v0, v1}
    InitVal = v0
    NBUF = 2
    NUM = 8
    IdxMod = 8
    MaxPinned = 1
    None = None
SYMMETRY Symmetry
CHECK_DEADLOCK FALSE
INVARIANTS RefcntExact NoPanic DescriptorsAccounted
PROPERTIES ImplementsBlockStore
