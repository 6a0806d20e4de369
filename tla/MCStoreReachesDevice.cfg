SPECIFICATION CountedSpec
CONSTANTS
    A = A
    B = B
    C = C
    v0 = v0
    v1 = v1
    vb = vb
    vc = vc
    Line = {A, B, C}
    LineWords = 2
    Val = {v0, v1, vb, vc}
    StoreLine = {}
    StoreVal = {v0, v1}
    DevStore = {v0}
    DevVal = {v0, v1}
    InitMem <- MCInitMem
    NoLine = NoLine
    Garbage = Garbage
    NoReq = NoReq
    NoAxi = NoAxi
    NoLoad = NoLoad
INVARIANT StoreReachesDevice
