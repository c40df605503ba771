------------------------------- MODULE PtrClient -------------------------------
(***************************************************************************)
(* A program that makes the system calls of the pointer build, one action  *)
(* per call: the most general one that keeps the discipline of the         *)
(* programs under libc-trusty-ptr/proof.  It uses the handles it was given *)
(* and closes each once; before it calls connect or wait_any it names a    *)
(* handle, in such a way that the assertions of the table hold; it reads   *)
(* with identifiers of messages.                                           *)
(***************************************************************************)
EXTENDS PtrSyscalls

CONSTANTS
    FlagSets,   \* the flags ports are created with
    WaitBits,   \* the events wait may report, as sets of bits
    Iov         \* the buffers read_msg is given, as sequences of lengths

ASSUME PtrClientConstants ==
    /\ FlagSets \subseteq SUBSET PortFlag
    /\ WaitBits \subseteq SUBSET Event
    /\ Iov \subseteq [1..1 -> Nat] \cup [1..2 -> Nat]

VARIABLES
    t,       \* the handle table
    owned,   \* the handles the program was given and has not closed
    last     \* what it saw of its last call

vars == <<t, owned, last>>

Ipc == INSTANCE TrustyIpc WITH
    NoHandle <- INVALID_HANDLE,
    Cookie   <- Cookie \cup {NULL},
    NoCookie <- NULL,
    ports    <- {h \in t.active : t.type[h] = "port"},
    chans    <- {h \in t.active : t.type[h] = "channel"},
    cookie   <- [h \in Handle |-> IF h \in t.active THEN t.cookie[h] ELSE NULL],
    hasMsg   <- {h \in t.active : sea_ht_has_msg(t, h)}

Init ==
    /\ t = InitTable
    /\ owned = {}
    /\ last = Ipc!NoResult

-------------------------------------------------------------------------------

\* A call that returns a handle.
Opens(op, from, results) ==
    \E r \in results :
        /\ t' = r.tab
        /\ owned' = owned \cup ({r.rc} \ {INVALID_HANDLE})
        /\ last' = Ipc!Result(op, from, r.rc, r.rc # INVALID_HANDLE, NULL)

PortCreate(path, fl) ==
    Opens("port_create", INVALID_HANDLE, trusty_port_create(t, path, fl))

Connect(path) ==
    /\ math_port_asserts(t, path)
    /\ Opens("connect", INVALID_HANDLE, trusty_connect(t, path))

Accept(p) == Opens("accept", p, trusty_accept(t, p))

Close(h) ==
    /\ t' = trusty_close(t, h).tab
    /\ owned' = owned \ {h}
    /\ last' = Ipc!Result("close", h, INVALID_HANDLE, TRUE, NULL)

SetCookie(h, cookie) ==
    /\ t' = trusty_set_cookie(t, h, cookie).tab
    /\ last' = Ipc!Result("set_cookie", h, INVALID_HANDLE, TRUE, cookie)
    /\ UNCHANGED owned

OnWaitAnyReturn(h) == t' = on_waitany_return(t, h) /\ UNCHANGED <<owned, last>>
OnConnectReturn(h) == t' = on_connect_return(t, h) /\ UNCHANGED <<owned, last>>

\* A wait, when it succeeds; a failed one changes nothing.
Waits(op, h, bits) ==
    /\ \E r \in EventOn(t, h, bits) :
          /\ t' = r.tab
          /\ last' = Ipc!Result(op, r.handle, INVALID_HANDLE, TRUE, r.cookie)
    /\ UNCHANGED owned

Wait(h, bits) == Waits("wait", h, bits)

WaitAny(bits) ==
    /\ sea_ht_choose_active_handle(t) \in owned
    /\ Waits("wait_any", sea_ht_choose_active_handle(t), bits)

GetMsg(c) ==
    /\ \E r \in trusty_get_msg(t, c) :
          last' = Ipc!Result("get_msg", c, INVALID_HANDLE, r.rc = NO_ERROR, NULL)
    /\ UNCHANGED <<t, owned>>

ReadMsg(c, id, iov) ==
    /\ last' = Ipc!Result("read_msg", c, INVALID_HANDLE,
                          trusty_read_msg(t, c, id, 0, iov) >= NO_ERROR, NULL)
    /\ UNCHANGED <<t, owned>>

PutMsg(c) ==
    /\ \E r \in trusty_put_msg(t, c) :
          /\ t' = r.tab
          /\ last' = Ipc!Result("put_msg", c, INVALID_HANDLE, r.rc = NO_ERROR, NULL)
    /\ UNCHANGED owned

OwnedPorts == {h \in owned : t.type[h] = "port"}
OwnedChans == {h \in owned : t.type[h] = "channel"}

Next ==
    \/ \E path \in Path \cup {NULL}, fl \in FlagSets : PortCreate(path, fl)
    \/ \E path \in Path : Connect(path)
    \/ \E p \in OwnedPorts : Accept(p)
    \/ \E h \in owned : Close(h)
    \/ \E h \in owned, cookie \in Cookie \cup {NULL} : SetCookie(h, cookie)
    \/ \E h \in owned \cup {NULL} : OnWaitAnyReturn(h)
    \/ \E p \in OwnedPorts \cup {NULL} : OnConnectReturn(p)
    \/ \E h \in owned, bits \in WaitBits : Wait(h, bits)
    \/ \E bits \in WaitBits : WaitAny(bits)
    \/ \E c \in OwnedChans : GetMsg(c)
    \/ \E c \in OwnedChans, id \in MsgId, iov \in Iov : ReadMsg(c, id, iov)
    \/ \E c \in OwnedChans : PutMsg(c)

Spec == Init /\ [][Next]_vars

-------------------------------------------------------------------------------

\* The state has its type.
TypeOK ==
    /\ t \in Table
    /\ owned \subseteq t.allocated

\* The pointer build keeps the promises of TrustyIpc, as the integer build does:
\* also when malloc fails, when a handle that connect still names was closed, and
\* when the handle that wait_any is to report was named long before the call.
ImplementsTrustyIpc == Ipc!Spec

-------------------------------------------------------------------------------
(* What the repository says of the table and the code does not do.         *)

\* "Non-deterministically chooses an active handle" (sea_handle_table.c): the
\* event that wait_any reports next may be that of any active handle.
AnyActiveHandleChosen ==
    sea_ht_choose_active_handle(t) \in owned =>
        \A h \in t.active : sea_ht_choose_active_handle(t) = h

===============================================================================
