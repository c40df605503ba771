----------------------------- MODULE TrustyClient -----------------------------
(***************************************************************************)
(* A program that drives the handle table through the system calls, one    *)
(* action per call.  It is the most general program that keeps the API's   *)
(* discipline, that of the programs under libc-trusty/proof: it uses the   *)
(* handles it was given, closes each of them once (close of                *)
(* INVALID_IPC_HANDLE, which port_close does, is harmless) and reads with  *)
(* identifiers of messages, which are never INVALID_IPC_MSG_ID.            *)
(***************************************************************************)
EXTENDS TrustySyscalls

CONSTANTS
    FlagSets,   \* the flags ports are created with
    MsgId,      \* identifiers of arriving messages
    MsgLen,     \* lengths of arriving messages
    WaitBits,   \* the events wait may report, as sets of bits
    Iov         \* the buffers read_msg is given, as sequences of lengths

ASSUME ClientConstants ==
    /\ FlagSets \subseteq SUBSET PortFlag
    /\ MsgId \subseteq Nat \ {INVALID_IPC_MSG_ID}
    /\ MsgLen \subseteq Nat
    /\ WaitBits \subseteq SUBSET Event
    /\ Iov \subseteq [1..1 -> Nat] \cup [1..2 -> Nat]

VARIABLES
    t,        \* the handle table
    owned,    \* the handles the program was given and has not closed
    flags,    \* the flags each port of the program was created with
    retired,  \* channels whose message was put and that have no newer one
    last      \* the last call, for those whose results a property is about

vars == <<t, owned, flags, retired, last>>

Call(op, h, rc, peer, stored) ==
    [op |-> op, handle |-> h, rc |-> rc, peer |-> peer, stored |-> stored,
     cookie |-> NULL]

\* A wait that reported an event of h with this cookie, or the call that set it.
Reported(op, h, cookie) ==
    [op |-> op, handle |-> h, rc |-> NO_ERROR, peer |-> "none",
     stored |-> <<0, 0>>, cookie |-> cookie]

NoCall == Call("none", INVALID_IPC_HANDLE, 0, "none", <<0, 0>>)

Init ==
    /\ t = InitTable
    /\ owned = {}
    /\ flags = [p \in Port |-> {}]
    /\ retired = {}
    /\ last = NoCall

-------------------------------------------------------------------------------

PortCreate(path, fl) ==
    \E r \in trusty_port_create(t, path, fl) :
        /\ t' = r.tab
        /\ owned' = IF r.rc \in Handle THEN owned \cup {r.rc} ELSE owned
        /\ flags' = IF r.rc \in Port THEN [flags EXCEPT ![r.rc] = fl] ELSE flags
        /\ last' = Call("port_create", INVALID_IPC_HANDLE, r.rc, "none", <<0, 0>>)
        /\ UNCHANGED retired

Connect(path) ==
    \E r \in trusty_connect(t, path) :
        /\ t' = r.tab
        /\ owned' = IF r.rc \in Handle THEN owned \cup {r.rc} ELSE owned
        /\ retired' = retired \ {r.rc}
        /\ last' = Call("connect", INVALID_IPC_HANDLE, r.rc, "none", <<0, 0>>)
        /\ UNCHANGED flags

Accept(p) ==
    \E r \in trusty_accept(t, p) :
        /\ t' = r.tab
        /\ owned' = IF r.rc \in Handle THEN owned \cup {r.rc} ELSE owned
        /\ retired' = retired \ {r.rc}
        /\ last' = Call("accept", p, r.rc, r.peer, <<0, 0>>)
        /\ UNCHANGED flags

Close(h) ==
    /\ t' = trusty_close(t, h).tab
    /\ owned' = owned \ {h}
    /\ retired' = retired \ {h}
    /\ last' = Call("close", h, NO_ERROR, "none", <<0, 0>>)
    /\ UNCHANGED flags

SetCookie(h, cookie) ==
    /\ t' = trusty_set_cookie(t, h, cookie).tab
    /\ last' = Reported("set_cookie", h, cookie)
    /\ UNCHANGED <<owned, flags, retired>>

\* wait(h), when it succeeds; a failed wait changes nothing.
Wait(h, bits, id, len) ==
    LET r == EventOn(t, h, bits, id, len)
    IN  /\ t' = r.tab
        /\ retired' = IF "MSG" \in bits THEN retired \ {h} ELSE retired
        /\ last' = Reported("wait", r.handle, r.cookie)
        /\ UNCHANGED <<owned, flags>>

\* wait_any, when it succeeds: the event of a handle the table chooses.
WaitAny(bits, id, len) ==
    \E h \in sea_ht_choose_active_handle(t) :
        LET r == EventOn(t, h, bits, id, len)
        IN  /\ t' = r.tab
            /\ retired' = IF "MSG" \in bits THEN retired \ {h} ELSE retired
            /\ last' = Reported("wait_any", r.handle, r.cookie)
            /\ UNCHANGED <<owned, flags>>

GetMsg(h) ==
    \E r \in trusty_get_msg(t, h) :
        /\ last' = Call("get_msg", h, r.rc, "none", <<0, 0>>)
        /\ UNCHANGED <<t, owned, flags, retired>>

ReadMsg(h, id, iov) ==
    LET r == trusty_read_msg(t, h, id, 0, iov)
    IN  /\ last' = Call("read_msg", h, r.rc, "none", r.stored)
        /\ UNCHANGED <<t, owned, flags, retired>>

PutMsg(h) ==
    \E r \in trusty_put_msg(t, h) :
        /\ t' = r.tab
        /\ retired' = IF r.rc = NO_ERROR THEN retired \cup {h} ELSE retired
        /\ last' = Call("put_msg", h, r.rc, "none", <<0, 0>>)
        /\ UNCHANGED <<owned, flags>>

Next ==
    \/ \E path \in Char \cup {NUL, NULL}, fl \in FlagSets : PortCreate(path, fl)
    \/ \E path \in Char \cup {NUL, NULL} : Connect(path)
    \/ \E p \in owned \cap Port : Accept(p)
    \/ \E h \in owned \cup {INVALID_IPC_HANDLE} : Close(h)
    \/ \E h \in owned, cookie \in Cookie \cup {NULL} : SetCookie(h, cookie)
    \/ \E h \in owned, bits \in WaitBits, id \in MsgId, len \in MsgLen :
          Wait(h, bits, id, len)
    \/ \E bits \in WaitBits, id \in MsgId, len \in MsgLen : WaitAny(bits, id, len)
    \/ \E c \in owned \cap Chan : GetMsg(c)
    \/ \E c \in owned \cap Chan, id \in MsgId, iov \in Iov : ReadMsg(c, id, iov)
    \/ \E c \in owned \cap Chan : PutMsg(c)

Spec == Init /\ [][Next]_vars

-------------------------------------------------------------------------------
(* Properties.                                                             *)

\* The state has its type.
TypeOK ==
    /\ t \in Table
    /\ owned \subseteq Handle
    /\ flags \in [Port -> SUBSET PortFlag]
    /\ retired \subseteq Chan

\* The counters count: g_active_phandles and g_active_chandles are the numbers
\* of handles whose flag is set, through any sequence of allocations that
\* succeed or find the table full and of releases.  Nothing in the table
\* compares them with the flags, and a release of a handle that is not active
\* would take them below zero.
CountersExact == CountersAgree(t)

\* The table's view is the program's: a handle is active exactly while the
\* program holds it, so that none leaks and none is withdrawn from under the
\* program by a call about another handle.
OwnedIsActive == owned = t.active

\* No call hands out a handle that the program already holds.
FreshHandles ==
    [][ \A h \in Handle :
          (last'.op \in {"port_create", "connect", "accept"} /\ last'.rc = h)
             => h \notin owned ]_<<t, last>>

\* An odd port handle is one that only the non-secure world may connect to:
\* accept decides what it says of the peer from the handle alone, so the
\* parity must follow the flags of port_create for as long as the port lives.
ParityIsFlags ==
    \A p \in owned \cap Port : IS_SECURE_IPC_HANDLE(p) <=> flags[p] = {"NS"}

\* A message that was put back cannot be read: once put_msg succeeded, and
\* until a wait reports another message on the channel, read_msg fails, also
\* for the identifier of the retired message (port_put_msg and port_wait end
\* with this check).
RetiredUnreadable ==
    (last.op = "read_msg" /\ last.handle \in retired) => last.rc < NO_ERROR

\* An allocation or a release touches one handle: those the program held before
\* and holds after it keep their cookies and messages.
OthersKept ==
    [][ \A h \in owned \cap owned' :
          owned # owned' =>
             /\ sea_ht_get_cookie(t', h) = sea_ht_get_cookie(t, h)
             /\ sea_ht_get_msg_id(t', h) = sea_ht_get_msg_id(t, h) ]_<<t, owned>>

\* The calls keep the promises of TrustyIpc: no call is reported to have given
\* a handle and did not open it, or opened one and reported failure; an event
\* is of an open handle and carries the cookie that the program attached to that
\* very handle last; nothing is read from a channel without a message.
Ipc == INSTANCE TrustyIpc WITH
    NoHandle <- INVALID_IPC_HANDLE,
    Cookie   <- Cookie \cup {NULL},
    NoCookie <- NULL,
    ports    <- t.active \cap Port,
    chans    <- t.active \cap Chan,
    cookie   <- [h \in Handle |-> IF h \in t.active THEN t.cookie[h] ELSE NULL],
    hasMsg   <- {c \in t.active : sea_ht_has_msg(t, c)},
    last     <- [op     |-> last.op,
                 handle |-> last.handle,
                 new    |-> IF last.rc \in Handle
                              /\ last.op \in {"port_create", "connect", "accept"}
                            THEN last.rc ELSE INVALID_IPC_HANDLE,
                 ok     |-> IF last.op \in {"port_create", "connect", "accept"}
                            THEN last.rc \in Handle ELSE last.rc >= NO_ERROR,
                 cookie |-> last.cookie]

ImplementsTrustyIpc == Ipc!Spec

-------------------------------------------------------------------------------
(* What the repository says of the calls and the code does not do.          *)

\* "It will be set to all zeros if the connection originated from the
\* non-secure world" (proof/port_accept/main.c:10-12): a port that only the
\* non-secure world may connect to has only such connections.
NonSecurePeerIsZeros ==
    (last.op = "accept" /\ last.rc # INVALID_IPC_HANDLE
       /\ flags[last.handle] = {"NS"}) => last.peer = "zeros"

\* "Total number of bytes stored in the dst buffers on success"
\* (proof/port_read_msg/main.c:17).
ReadReportsStored ==
    (last.op = "read_msg" /\ last.rc >= NO_ERROR)
       => last.rc = last.stored[1] + last.stored[2]

\* A handle fresh from the table carries no cookie ("No cookie set",
\* proof/port_wait/main.c:20-21, and sea_handle_table.c:95 of libc-trusty-ptr).
FreshHandleHasNoCookie ==
    [][ \A h \in owned' \ owned : sea_ht_get_cookie(t', h) = NULL ]_<<t, owned>>

===============================================================================
