SPECIFICATION FairSpec
CONSTANTS
    Proc = {init, p1, p2}
    initproc = init
    CPU = {c1}
    Victim = {p1}
    None = None
    init = init
    p1 = p1
    p2 = p2
    c1 = c1
    c2 = c2
PROPERTY WaitReturns
