\* The programs under proof/ of both builds; they end.
SPECIFICATION Spec
CONSTANTS
    PORT_HANDLE_MIN = 1
    PORT_HANDLE_MAX = 2
    CHAN_HANDLE_MIN = 16
    CHAN_HANDLE_MAX = 17
    INVALID_IPC_HANDLE = 0
    Cookie = {c1}
    NULL = NULL
    Char = {a, b}
    NUL = NUL
    WORD = 32
    h1 = h1
    h2 = h2
    h3 = h3
    h4 = h4
    h5 = h5
    MsgId = {1}
    PtrHandle <- MCPtrHandle
    MsgLen <- MCMsgLen
    WaitBits <- MCWaitBits
INVARIANT
    AssertionsHold
SYMMETRY AddressSymmetry
CHECK_DEADLOCK FALSE
