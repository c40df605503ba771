\* The keymaster server over the table of the source.
SPECIFICATION Spec
CONSTANTS
    PORT_HANDLE_MIN = 1
    PORT_HANDLE_MAX = 2
    CHAN_HANDLE_MIN = 16
    CHAN_HANDLE_MAX = 17
    INVALID_IPC_HANDLE = 0
    NULL = NULL
    NUL = NUL
    SECURE = SECURE
    NON_SECURE = NON_SECURE
    c1 = c1
    c2 = c2
    c3 = c3
    KEYMASTER_PATH = k
    Char = {k}
    WORD = 32
    HEADER = 2
    MsgId = {1}
    MsgLen = {1, 2}
    Cookie <- MCCookie
    ChanCtx <- MCChanCtx
INVARIANTS
    TypeOK
    ContextsAccounted
    DispatchSound
    ClosedOnce
    PortsServed
    SecureIsGatekeeper
PROPERTIES
    GoneIsClosed
    Isolation
SYMMETRY ChanSymmetry
