\* The same program, checked against one statement of the repository.
SPECIFICATION Spec
CONSTANTS
    PORT_HANDLE_MIN = 1
    PORT_HANDLE_MAX = 2
    CHAN_HANDLE_MIN = 16
    CHAN_HANDLE_MAX = 17
    INVALID_IPC_HANDLE = 0
    Cookie = {c1}
    NULL = NULL
    Char = {a}
    NUL = NUL
    WORD = 32
    MsgId = {1}
    MsgLen = {0, 2}
    FlagSets <- MCFlagSets
    WaitBits <- MCWaitBits
    Iov <- MCIov
PROPERTY
    FreshHandleHasNoCookie
