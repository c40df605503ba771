\* The server over the table of the source: liveness.
SPECIFICATION FairSpec
CONSTANTS
    PORT_HANDLE_MIN = 1
    PORT_HANDLE_MAX = 2
    CHAN_HANDLE_MIN = 16
    CHAN_HANDLE_MAX = 17
    INVALID_IPC_HANDLE = 0
    NULL = NULL
    NUL = NUL
    a = a
    b = b
    p1 = p1
    p2 = p2
    c1 = c1
    c2 = c2
    c3 = c3
    Char = {a, b}
    WORD = 32
    MSG_BUF_MAX_SIZE = 2
    MsgId = {1}
    MsgLen = {2}
    Cookie <- MCTwoCookie
    PortCtx <- MCPortCtx
    ChanCtx <- MCTwoChanCtx
    PortPath <- MCPortPath
    PortFlags <- MCPortFlags
    MaxBufSize <- MCMaxBufSize
    SyncPort <- MCSyncPort
    SyncBits <- MCTwoSyncBits
PROPERTIES
    TeardownCompletes
