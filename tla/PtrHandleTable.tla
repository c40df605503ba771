---------------------------- MODULE PtrHandleTable ----------------------------
(***************************************************************************)
(* The table of IPC handles of the pointer build (libc-trusty-ptr): a      *)
(* handle is the address of a HandleState that malloc gave and that is     *)
(* never freed, and the handles that connect and wait_any work with are    *)
(* the ones that the program has named beforehand.                         *)
(*                                                                         *)
(* The table is a record of functions of the addresses, so that            *)
(* htop(h)->fld is the field fld of the table, at h.                       *)
(***************************************************************************)
EXTENDS Integers

CONSTANTS
    Handle,     \* the addresses malloc has for a HandleState
    Cookie,     \* the pointers callers attach to handles
    NULL,
    Path,       \* addresses of port paths
    MsgId, MsgLen,   \* identifiers and lengths of messages
    CAN_RETURN_INVALID_IPC_HANDLE   \* whether malloc may fail

ASSUME PtrConstants ==
    /\ NULL \notin Handle \cup Cookie \cup Path
    /\ MsgId \subseteq Nat \ {0} /\ MsgLen \subseteq Nat
    /\ CAN_RETURN_INVALID_IPC_HANDLE \in BOOLEAN

\* INVALID_IPC_HANDLE of this build.
INVALID_HANDLE == NULL
INVALID_IPC_MSG_ID == 0

Table ==
    [ allocated : SUBSET Handle,
      active    : SUBSET Handle,
      secure    : [Handle -> BOOLEAN],
      type      : [Handle -> {"port", "channel"}],
      cookie    : [Handle -> Cookie \cup {NULL}],
      path      : [Handle -> Path \cup {NULL}],
      msg_id    : [Handle -> Nat],
      msg_len   : [Handle -> Nat],
      g_on_waitany_handle : Handle \cup {NULL},
      g_on_connect_handle : Handle \cup {NULL} ]

\* What is at an address before malloc gives it is never read.
InitTable ==
    [ allocated |-> {},
      active    |-> {},
      secure    |-> [h \in Handle |-> FALSE],
      type      |-> [h \in Handle |-> "port"],
      cookie    |-> [h \in Handle |-> NULL],
      path      |-> [h \in Handle |-> NULL],
      msg_id    |-> [h \in Handle |-> INVALID_IPC_MSG_ID],
      msg_len   |-> [h \in Handle |-> 0],
      g_on_waitany_handle |-> NULL,
      g_on_connect_handle |-> NULL ]

\* malloc_can_fail or malloc_no_fail: the addresses it may return.
malloc(t) ==
    (Handle \ t.allocated) \cup (IF CAN_RETURN_INVALID_IPC_HANDLE THEN {NULL} ELSE {})

sea_ht_has_msg(t, h)     == t.msg_id[h] > INVALID_IPC_MSG_ID
sea_ht_get_msg_id(t, h)  == t.msg_id[h]
sea_ht_get_msg_len(t, h) == t.msg_len[h]

sea_ht_set_msg_id(t, h, id)   == [t EXCEPT !.msg_id[h] = id]
sea_ht_set_msg_len(t, h, len) == [t EXCEPT !.msg_len[h] = len]

\* The tables after an arbitrary message arrives on h.
sea_ht_new_nd_msg(t, h) ==
    {sea_ht_set_msg_id(sea_ht_set_msg_len(t, h, len), h, id) :
        id \in MsgId, len \in MsgLen}

\* The memory may be used again, while the program may still look at it.
sea_ht_free(t, h) == [t EXCEPT !.active = @ \ {h}]

\* The results of the two allocators, as records of the handle and the table.
AllocationFails(t) == [rc |-> INVALID_HANDLE, tab |-> t]

NewHandle(t, h, secure, type, path) ==
    {[rc |-> h, tab |-> n] :
       n \in sea_ht_new_nd_msg(
               [t EXCEPT !.allocated = @ \cup {h}, !.active = @ \cup {h},
                         !.secure[h] = secure, !.type[h] = type,
                         !.cookie[h] = NULL, !.path[h] = path], h)}

\* Mutant: the result of malloc is not checked.
sea_ht_new_port_NoCheck(t, secure, path) ==
    UNION {NewHandle(t, h, secure, "port", path) : h \in malloc(t)}

sea_ht_new_port(t, secure, path) ==
    UNION {IF h = NULL THEN {AllocationFails(t)}
           ELSE NewHandle(t, h, secure, "port", path) : h \in malloc(t)}

\* Mutant: the flag active is not set.
sea_ht_new_channel_NotActive(t, parent_port) ==
    UNION {IF h = NULL THEN {AllocationFails(t)}
           ELSE {[r EXCEPT !.tab.active = t.active] :
                   r \in NewHandle(t, h, FALSE, "channel", NULL)} : h \in malloc(t)}

\* The field secure of a channel is not set: it has any value.
sea_ht_new_channel(t, parent_port) ==
    UNION {IF h = NULL THEN {AllocationFails(t)}
           ELSE UNION {NewHandle(t, h, secure, "channel", NULL) : secure \in BOOLEAN} :
             h \in malloc(t)}

sea_ht_is_active_port(t, h) == t.type[h] = "port" /\ h \in t.active

sea_ht_set_cookie(t, h, cookie) == [t EXCEPT !.cookie[h] = cookie]
sea_ht_get_cookie(t, h)         == t.cookie[h]

on_waitany_return(t, h) == [t EXCEPT !.g_on_waitany_handle = h]
on_connect_return(t, h) == [t EXCEPT !.g_on_connect_handle = h]

\* The handle the program named.  The assertions in the two functions are the
\* discipline of their callers: the handle named for wait_any is active, the
\* port named for connect has the path asked for.
sea_ht_math_port(t, path)      == t.g_on_connect_handle
sea_ht_choose_active_handle(t) == t.g_on_waitany_handle

math_port_asserts(t, path) ==
    t.g_on_connect_handle # NULL => t.path[t.g_on_connect_handle] = path
choose_active_asserts(t) ==
    t.g_on_waitany_handle # NULL => t.g_on_waitany_handle \in t.active

===============================================================================
