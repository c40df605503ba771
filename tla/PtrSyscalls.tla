------------------------------ MODULE PtrSyscalls ------------------------------
(***************************************************************************)
(* The IPC system calls of trusty_syscalls_impl.c of the pointer build     *)
(* (libc-trusty-ptr).  As in TrustySyscalls, a call is the set of its      *)
(* possible results: the value returned (rc), the table after it (tab) and *)
(* its out-parameters.                                                     *)
(***************************************************************************)
EXTENDS PtrHandleTable

NO_ERROR    == 0
ERR_GENERIC == -1   \* stands for every negative error, ERR_NO_MSG apart
ERR_NO_MSG  == -2

IpcErr   == {ERR_GENERIC, ERR_NO_MSG}    \* what nd_trusty_ipc_err may return
PortFlag == {"TA", "NS"}

IsSecurePort(flags) == "NS" \in flags /\ "TA" \notin flags

trusty_port_create(t, path, flags) ==
    IF path = NULL THEN {AllocationFails(t)}
    ELSE sea_ht_new_port(t, IsSecurePort(flags), path)

trusty_connect(t, path) ==
    LET port == sea_ht_math_port(t, path)
    IN  IF port = INVALID_HANDLE THEN {AllocationFails(t)}
        ELSE sea_ht_new_channel(t, port)

\* In spite of its name, true of the ports that TAs may not connect to.
is_allow_ta_connect(t, h) == t.secure[h]

\* peer is "zeros" or "nonzero" as far as the call decides it; when accept
\* fails it is what the caller had there.
trusty_accept(t, port) ==
    {[rc |-> r.rc, tab |-> r.tab, peer |-> u] :
       r \in sea_ht_new_channel(t, port),
       u \in IF is_allow_ta_connect(t, port) THEN {"zeros", "nonzero"} ELSE {"zeros"}}

trusty_close(t, h) == [rc |-> NO_ERROR, tab |-> sea_ht_free(t, h)]

trusty_set_cookie(t, h, cookie) ==
    [rc |-> NO_ERROR, tab |-> sea_ht_set_cookie(t, h, cookie)]

Event == {"READY", "ERROR", "HUP", "MSG", "SEND_UNBLOCKED"}

\* The event of h that wait and wait_any report; with bit MSG set, an arbitrary
\* message is on the handle, port or channel.
EventOn(t, h, bits) ==
    {[rc |-> NO_ERROR, handle |-> h, cookie |-> sea_ht_get_cookie(t, h),
      event |-> bits, tab |-> n] :
        n \in IF "MSG" \in bits THEN sea_ht_new_nd_msg(t, h) ELSE {t}}

trusty_get_msg(t, h) ==
    {[rc |-> e, id |-> INVALID_IPC_MSG_ID, len |-> 0] : e \in IpcErr}
    \cup
    {[rc  |-> IF sea_ht_get_msg_id(t, h) # INVALID_IPC_MSG_ID
              THEN NO_ERROR ELSE ERR_GENERIC,
      id  |-> sea_ht_get_msg_id(t, h),
      len |-> sea_ht_get_msg_len(t, h)]}

Smaller(a, b) == IF a < b THEN a ELSE b

\* The number of bytes said to be read into one or two buffers of lengths iov.
trusty_read_msg(t, h, id, offset, iov) ==
    LET len == sea_ht_get_msg_len(t, h) - offset
    IN  IF sea_ht_get_msg_id(t, h) # id \/ sea_ht_get_msg_len(t, h) = 0
        THEN ERR_GENERIC
        ELSE IF len < iov[1] \/ DOMAIN iov = {1} THEN Smaller(len, iov[1])
        ELSE iov[1] + Smaller(len - iov[1], iov[2])

trusty_put_msg(t, h) ==
    {[rc |-> e, tab |-> t] : e \in IpcErr}
    \cup
    {[rc |-> NO_ERROR, tab |-> sea_ht_set_msg_id(t, h, INVALID_IPC_MSG_ID)]}

trusty_send_msg(iov) ==
    IpcErr \cup {IF DOMAIN iov = {1} THEN iov[1] ELSE iov[1] + iov[2]}

===============================================================================
