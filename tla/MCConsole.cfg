SPECIFICATION Spec
CONSTANTS
    r1 = r1
    r2 = r2
    w1 = w1
    w2 = w2
    Reader = {r1, r2}
    Writer = {w1, w2}
    INPUT_BUF_SIZE = 2
    UART_TX_BUF_SIZE = 2
    UintMod = 4
    Byte = {x, y}
    Scene <- MCScene
    ReadLen = {2}
    None = None
INVARIANTS SleepsForAReason NoOverrun OutputMoves
PROPERTIES ImplementsLineEditor ImplementsFifo
