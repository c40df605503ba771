---------------------------- MODULE TrustySyscalls ----------------------------
(***************************************************************************)
(* The IPC system calls of trusty_syscalls_impl.c (libc-trusty).  A call   *)
(* is an operator whose value is the set of its possible results: a result *)
(* is a record with the value returned (rc), the table after the call      *)
(* (tab) and, where the call has them, its out-parameters.                 *)
(***************************************************************************)
EXTENDS SeaHandleTable

NO_ERROR     == 0
ERR_GENERIC  == -1
ERR_NO_MSG   == -2   \* uapi/err.h is not in this repository: each of these
ERR_BAD_PATH == -3   \* names stands for one negative number.
ERR_NOT_ENOUGH_BUFFER == -4

\* nd_trusty_ipc_err returns any int, and a negative one is the error that
\* the call returns.  ERR_NO_MSG is the only one a caller tells apart.
IpcErr == {ERR_GENERIC, ERR_NO_MSG}

PortFlag == {"TA", "NS"}   \* IPC_PORT_ALLOW_TA_CONNECT, .._NS_CONNECT

Event == {"READY", "ERROR", "HUP", "MSG", "SEND_UNBLOCKED"}

\* Mutant: the second half of the condition is missing.
IsSecurePort_AnyNS(flags) == "NS" \in flags

IsSecurePort(flags) == "NS" \in flags /\ "TA" \notin flags

trusty_port_create(t, path, flags) ==
    IF path = NULL
    THEN {[rc |-> ERR_BAD_PATH, tab |-> t]}
    ELSE {[rc |-> h, tab |-> sea_ht_new_port(t, h, path)] :
             h \in s_first_available_port_handle(t, IsSecurePort(flags))}

trusty_connect(t, path) ==
    IF sea_ht_math_port(t, path) = {INVALID_IPC_HANDLE}
    THEN {[rc |-> INVALID_IPC_HANDLE, tab |-> t]}
    ELSE {[rc |-> h, tab |-> sea_ht_new_channel(t, h)] :
             h \in s_first_available_channel_handle(t)}

\* peer is "zeros" or "nonzero", what the caller finds in *peer_uuid.
trusty_accept(t, port) ==
    {[rc |-> h, tab |-> sea_ht_new_channel(t, h), peer |-> u] :
        h \in s_first_available_channel_handle(t),
        u \in IF port % 2 = 0 THEN {"zeros"} ELSE {"zeros", "nonzero"}}

trusty_close(t, h) == [rc |-> NO_ERROR, tab |-> sea_ht_free(t, h)]

trusty_set_cookie(t, h, cookie) ==
    [rc |-> NO_ERROR, tab |-> sea_ht_set_cookie(t, h, cookie)]

\* The servers check set_cookie for failure.  trusty_syscalls_impl.c always
\* succeeds; the kernel's call may fail and then changes nothing.
set_cookie(tab, h, cookie) ==
    {trusty_set_cookie(tab, h, cookie), [rc |-> ERR_GENERIC, tab |-> tab]}

close(tab, h) == trusty_close(tab, h).tab

\* The event of a handle that wait and wait_any return; with bit MSG set, a
\* new message (id, len) is on the channel.
EventOn(t, h, bits, id, len) ==
    [ rc     |-> NO_ERROR,
      handle |-> h,
      cookie |-> sea_ht_get_cookie(t, h),
      event  |-> bits,
      tab    |-> IF "MSG" \in bits THEN sea_ht_new_nd_msg(t, h, id, len) ELSE t ]

trusty_get_msg(t, h) ==
    {[rc |-> e, id |-> INVALID_IPC_MSG_ID, len |-> 0] : e \in IpcErr}
    \cup
    {[rc  |-> IF sea_ht_get_msg_id(t, h) # INVALID_IPC_MSG_ID
              THEN NO_ERROR ELSE ERR_GENERIC,
      id  |-> sea_ht_get_msg_id(t, h),
      len |-> sea_ht_get_msg_len(t, h)]}

Larger(a, b) == IF a > b THEN a ELSE b

\* Mutant: the identifier is not compared.
trusty_read_msg_NoIdCheck(t, h, id, offset, iov) ==
    LET len == sea_ht_get_msg_len(t, h) - offset
    IN  IF sea_ht_get_msg_len(t, h) = 0
        THEN [rc |-> ERR_GENERIC, stored |-> <<0, 0>>]
        ELSE IF len < iov[1] THEN [rc |-> len, stored |-> <<len, 0>>]
        ELSE [rc |-> iov[1], stored |-> <<iov[1], 0>>]

\* iov is the sequence of the lengths of the one or two buffers; stored[i]
\* is the number of bytes the call writes from the start of buffer i.  The
\* last write goes to the first buffer, with the length of the second.
trusty_read_msg(t, h, id, offset, iov) ==
    LET len  == sea_ht_get_msg_len(t, h) - offset
        rest == len - iov[1]
    IN  CASE \/ sea_ht_get_msg_id(t, h) # id
             \/ sea_ht_get_msg_len(t, h) = 0
                -> [rc |-> ERR_GENERIC, stored |-> <<0, 0>>]
          [] OTHER
                -> IF len < iov[1] THEN [rc |-> len, stored |-> <<len, 0>>]
                   ELSE IF DOMAIN iov = {1}
                   THEN [rc |-> iov[1], stored |-> <<iov[1], 0>>]
                   ELSE IF rest < iov[2]
                   THEN [rc |-> iov[1] + rest, stored |-> <<iov[1], rest>>]
                   ELSE [rc |-> iov[1] + iov[2],
                         stored |-> <<Larger(iov[1], iov[2]), 0>>]

\* Mutant: the message is not retired.
trusty_put_msg_Kept(t, h) == {[rc |-> e, tab |-> t] : e \in IpcErr \cup {NO_ERROR}}

\* The identifier the caller passes is not looked at.
trusty_put_msg(t, h) ==
    {[rc |-> e, tab |-> t] : e \in IpcErr}
    \cup
    {[rc |-> NO_ERROR, tab |-> sea_ht_set_msg_id(t, h, INVALID_IPC_MSG_ID)]}

\* The value sent is the sum of the lengths of the buffers.
trusty_send_msg(iov) ==
    IpcErr \cup {IF DOMAIN iov = {1} THEN iov[1] ELSE iov[1] + iov[2]}

===============================================================================
