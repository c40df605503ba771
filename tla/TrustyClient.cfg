\* The disciplined program over the table of the source.
SPECIFICATION Spec
CONSTANTS
    PORT_HANDLE_MIN = 1
    PORT_HANDLE_MAX = 2
    CHAN_HANDLE_MIN = 16
    CHAN_HANDLE_MAX = 17
    INVALID_IPC_HANDLE = 0
    Cookie = {c1}
    NULL = NULL
    Char = {}
    NUL = NUL
    WORD = 32
    MsgId = {1}
    MsgLen = {2}
    FlagSets <- MCFlagSets
    WaitBits <- MCWaitBits
    Iov <- MCIovTwo
INVARIANTS
    TypeOK
    CountersExact
    OwnedIsActive
    ParityIsFlags
    RetiredUnreadable
PROPERTIES
    FreshHandles
    OthersKept
    ImplementsTrustyIpc
