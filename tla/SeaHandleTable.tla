---------------------------- MODULE SeaHandleTable ----------------------------
(***************************************************************************)
(* The table of IPC handles kept by sea_handle_table.c (libc-trusty, the   *)
(* integer-handle build).  A table is a record and every function of the   *)
(* file is an operator from a table to a value or to the updated table, so *)
(* that a handler that makes several calls composes them within one step.  *)
(*                                                                         *)
(* The macros PHANDLE(X, fld) and CHANDLE(X, fld) name one global for each *)
(* handle X: here they are the field fld of the table, at X.               *)
(***************************************************************************)
EXTENDS Integers, FiniteSets

CONSTANTS
    PORT_HANDLE_MIN, PORT_HANDLE_MAX,   \* handles of ports
    CHAN_HANDLE_MIN, CHAN_HANDLE_MAX,   \* handles of channels
    INVALID_IPC_HANDLE,                 \* what stands for no handle
    Cookie,     \* the pointers callers attach to handles
    NULL,       \* the null pointer
    Char,       \* first characters of port paths
    NUL,        \* '\0', the first character of the empty path
    WORD        \* 2^w, where w is the width of an unsigned counter

ASSUME HandleRanges ==
    /\ PORT_HANDLE_MIN \in Nat \ {0}
    /\ PORT_HANDLE_MAX \in Nat
    /\ CHAN_HANDLE_MIN \in Nat
    /\ CHAN_HANDLE_MAX \in Nat
    /\ PORT_HANDLE_MIN <= PORT_HANDLE_MAX
    /\ PORT_HANDLE_MAX < CHAN_HANDLE_MIN
    /\ CHAN_HANDLE_MIN <= CHAN_HANDLE_MAX

\* The header that defines it for integer handles is Trusty's own; all that the
\* code takes for granted is that it is no handle of the table.
ASSUME InvalidIsNoHandle ==
    INVALID_IPC_HANDLE \in Int /\ INVALID_IPC_HANDLE < PORT_HANDLE_MIN

\* The counters are wide enough to count every handle of the table.
ASSUME WordHoldsTable == WORD \in Nat /\ CHAN_HANDLE_MAX < WORD

ASSUME NullIsNoCookie == NULL \notin Cookie

INVALID_IPC_MSG_ID == 0

Port   == PORT_HANDLE_MIN .. PORT_HANDLE_MAX
Chan   == CHAN_HANDLE_MIN .. CHAN_HANDLE_MAX
Handle == Port \cup Chan

IS_PORT_IPC_HANDLE(h)   == PORT_HANDLE_MIN <= h /\ h <= PORT_HANDLE_MAX
IS_SECURE_IPC_HANDLE(h) == h % 2 = 1

Table ==
    [ active  : SUBSET Handle,            \* handles whose flag active is true
      cookie  : [Handle -> Cookie \cup {NULL}],
      path    : [Port -> Char \cup {NUL}],
      msg_id  : [Chan -> Nat],
      msg_len : [Chan -> Nat],
      g_active_phandles : 0 .. WORD - 1,
      g_active_chandles : 0 .. WORD - 1 ]

InitTable ==
    [ active  |-> {},
      cookie  |-> [h \in Handle |-> NULL],
      path    |-> [p \in Port |-> NUL],
      msg_id  |-> [c \in Chan |-> INVALID_IPC_MSG_ID],
      msg_len |-> [c \in Chan |-> 0],
      g_active_phandles |-> 0,
      g_active_chandles |-> 0 ]

-------------------------------------------------------------------------------
(* Messages of a channel.                                                  *)

sea_ht_has_msg(t, h)     == h \in Chan /\ t.msg_id[h] > 0
sea_ht_get_msg_id(t, h)  == IF h \in Chan THEN t.msg_id[h] ELSE 0
sea_ht_get_msg_len(t, h) == IF h \in Chan THEN t.msg_len[h] ELSE 0

sea_ht_set_msg_id(t, h, id) ==
    IF h \in Chan THEN [t EXCEPT !.msg_id[h] = id] ELSE t

sea_ht_set_msg_len(t, h, len) ==
    IF h \in Chan THEN [t EXCEPT !.msg_len[h] = len] ELSE t

\* The arriving message is the environment's choice: any length and any
\* identifier greater than INVALID_IPC_MSG_ID.
sea_ht_new_nd_msg(t, h, id, len) ==
    IF h \in Chan THEN [t EXCEPT !.msg_id[h] = id, !.msg_len[h] = len] ELSE t

-------------------------------------------------------------------------------
(* Allocation and release.  ++ and -- are those of an unsigned word.       *)

Increment(n) == IF n = WORD - 1 THEN 0 ELSE n + 1
Decrement(n) == IF n = 0 THEN WORD - 1 ELSE n - 1

\* What a scan of the handles in increasing order finds, as a set with one
\* element: the first of S, or INVALID_IPC_HANDLE when S is empty.
First(S) ==
    IF S = {} THEN {INVALID_IPC_HANDLE} ELSE {h \in S : \A k \in S : h <= k}

s_first_available_port_handle(t, secure) ==
    First({p \in Port : IS_SECURE_IPC_HANDLE(p) = secure /\ p \notin t.active})

\* Mutant: the flag active is not looked at.
s_first_available_channel_handle_Any(t) == First(Chan)

s_first_available_channel_handle(t) ==
    First({c \in Chan : c \notin t.active})

\* Mutant: the counter goes up before the check for a full table.
sea_ht_new_port_CountFirst(t, h, path) ==
    IF h = INVALID_IPC_HANDLE
    THEN [t EXCEPT !.g_active_phandles = Increment(@)]
    ELSE [t EXCEPT !.active = @ \cup {h},
                   !.path[h] = path,
                   !.g_active_phandles = Increment(@)]

\* Mutants: no check for a full table; a reset of the wrong channel.
sea_ht_new_channel_NoCheck(t, h) ==
    [t EXCEPT !.active = @ \cup {h}, !.g_active_chandles = Increment(@)]

sea_ht_new_channel_ResetFirst(t, h) ==
    IF h = INVALID_IPC_HANDLE THEN t
    ELSE [t EXCEPT !.active = @ \cup {h},
                   !.msg_id[CHAN_HANDLE_MIN] = INVALID_IPC_MSG_ID,
                   !.g_active_chandles = Increment(@)]

\* h is the handle the scan found.
sea_ht_new_port(t, h, path) ==
    IF h = INVALID_IPC_HANDLE THEN t
    ELSE [t EXCEPT !.active = @ \cup {h},
                   !.path[h] = path,
                   !.g_active_phandles = Increment(@)]

sea_ht_new_channel(t, h) ==
    IF h = INVALID_IPC_HANDLE THEN t
    ELSE [t EXCEPT !.active = @ \cup {h},
                   !.g_active_chandles = Increment(@)]

\* Mutant: a case of the switch falls through to the next one.
sea_ht_free_NoBreak(t, h) ==
    CASE h \in Port -> [t EXCEPT !.active = @ \ {h},
                                 !.g_active_phandles = Decrement(@)]
      [] h \in Chan -> [t EXCEPT !.active = @ \ {h, h + 1},
                                 !.g_active_chandles = Decrement(@)]
      [] OTHER      -> t

\* Nothing checks that the handle is active, and only the flag is reset.
sea_ht_free(t, h) ==
    CASE h \in Port -> [t EXCEPT !.active = @ \ {h},
                                 !.g_active_phandles = Decrement(@)]
      [] h \in Chan -> [t EXCEPT !.active = @ \ {h},
                                 !.g_active_chandles = Decrement(@)]
      [] OTHER      -> t

-------------------------------------------------------------------------------
(* Queries and cookies.                                                    *)

\* The first port whose path begins like the one asked for, active or not.
sea_ht_math_port(t, path) == First({p \in Port : t.path[p] = path})

\* Any active handle; the empty set means that the call blocks.
sea_ht_choose_active_handle(t) == t.active

sea_ht_is_active_port(t, h) == h \in Port /\ h \in t.active

\* Mutant: the switch has no case for channels.
sea_ht_set_cookie_PortsOnly(t, h, cookie) ==
    IF h \in Port THEN [t EXCEPT !.cookie[h] = cookie] ELSE t

sea_ht_set_cookie(t, h, cookie) ==
    IF h \in Handle THEN [t EXCEPT !.cookie[h] = cookie] ELSE t

sea_ht_get_cookie(t, h) == IF h \in Handle THEN t.cookie[h] ELSE NULL

-------------------------------------------------------------------------------

\* The counters of the table count the handles whose flag active is true.
CountersAgree(t) ==
    /\ t.g_active_phandles = Cardinality(t.active \cap Port)
    /\ t.g_active_chandles = Cardinality(t.active \cap Chan)

===============================================================================
