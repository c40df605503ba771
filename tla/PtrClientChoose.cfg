\* What a comment says of the choice of wait_any, over the same program.
SPECIFICATION Spec
CONSTANTS
    h1 = h1
    h2 = h2
    h3 = h3
    NULL = NULL
    Cookie = {c1}
    Path = {a}
    MsgId = {1}
    MsgLen = {2}
    CAN_RETURN_INVALID_IPC_HANDLE = TRUE
    Handle <- MCHandle
    FlagSets <- MCFlagSets
    WaitBits <- MCWaitBits
    Iov <- MCIov
INVARIANT
    AnyActiveHandleChosen
SYMMETRY HandleSymmetry
