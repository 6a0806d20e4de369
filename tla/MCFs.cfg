SPECIFICATION Spec
CONSTANTS
    maker = maker
    remover = remover
    Proc = {maker, remover}
    Call <- MCCall
    None = None
    ninodes = 4
    nblocks = 4
    NINODE = 3
    NDIRECT = 1
    NINDIRECT = 1
    DPB = 4
    MAXLINK = 2
INVARIANTS RefsExact LinksCoverNames BlocksAccounted NoPanic
