SPECIFICATION Spec
CONSTANTS
    Proc = {p1, p2}
    Parent = p1
    Victim = {p2}
    File = {f1, f2, f3}
    Fd = {1, 2}
    Byte = {a, b}
    PIPESIZE = 2
    UintMod = 4
    MaxCount = 3
    None = None
SYMMETRY Symmetry
CHECK_DEADLOCK FALSE
INVARIANTS FileRefsExact NoUseAfterFree SleepsForAReason
PROPERTIES ImplementsFifo
