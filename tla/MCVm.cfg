SPECIFICATION MCSpec
CONSTANTS
    NPROC = 2
    NPAGE = 20
    PGSIZE = 2
    PTES = 4
    MAXVA = 64
    W = 10
    Delta <- MCDelta
    Program <- MCProgram
    MAXARG = 1
    Top = 9
    MinCore = 3
    HdrSize = 2
    UintMod = 64
    Request = {0, 2, 5, 28, 30, 62, 63}
INVARIANTS PagesAccounted ImageWhole NoPanic HeapExact
