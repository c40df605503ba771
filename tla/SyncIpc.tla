-------------------------------- MODULE SyncIpc --------------------------------
(***************************************************************************)
(* sync_ipc_send_msg of storage/ipc.c: a request is sent on a session and  *)
(* its response awaited there, within the handler of an event.  The call   *)
(* is an operator whose value is the set of its outcomes: the value        *)
(* returned (rc), the table after it (tab) and, for the properties,        *)
(* whether a message arrived on the session while it waited (arrived).     *)
(***************************************************************************)
EXTENDS TrustySyscalls

CONSTANTS
    MsgId, MsgLen,   \* identifiers and lengths of arriving messages
    SyncBits         \* the events wait may report on a session, as sets of bits

ASSUME SyncConstants ==
    /\ MsgId \subseteq Nat \ {INVALID_IPC_MSG_ID}
    /\ MsgLen \subseteq Nat
    /\ SyncBits \subseteq SUBSET Event

ERR_NOT_VALID      == -5
ERR_BUSY           == -7
ERR_CHANNEL_CLOSED == -8
ERR_BAD_LEN        == -9
ERR_IO             == -10

Total(iov) == IF DOMAIN iov = {1} THEN iov[1] ELSE iov[1] + iov[2]

\* The one error of send_msg that the caller tells apart.
send_msg(iov) == trusty_send_msg(iov) \cup {ERR_NOT_ENOUGH_BUFFER}

wait(tab, session) ==
    {[rc |-> ERR_GENERIC, event |-> {}, tab |-> tab]}
    \cup
    {[rc |-> NO_ERROR, event |-> bits, tab |-> EventOn(tab, session, bits, id, len).tab] :
        bits \in SyncBits, id \in MsgId, len \in MsgLen}

\* Sends only on SEND_UNBLOCKED, and reports success without having sent on an
\* event that is none of the three it looks at.
wait_to_send(tab, session, tx) ==
    UNION {{[rc |-> rc, tab |-> w.tab, arrived |-> "MSG" \in w.event] :
              rc \in CASE w.rc < 0                     -> {w.rc}
                       [] "SEND_UNBLOCKED" \in w.event -> send_msg(tx)
                       [] w.event \cap {"SEND_UNBLOCKED", "MSG"} = {"MSG"} -> {ERR_BUSY}
                       [] w.event \cap {"SEND_UNBLOCKED", "MSG", "HUP"} = {"HUP"}
                            -> {ERR_CHANNEL_CLOSED}
                       [] OTHER -> {NO_ERROR}} :
           w \in wait(tab, session)}

\* The first part of sync_ipc_send_msg.
SendRequest(tab, session, tx) ==
    {[rc |-> rc, tab |-> tab, arrived |-> FALSE] :
        rc \in send_msg(tx) \ {ERR_NOT_ENOUGH_BUFFER}}
    \cup wait_to_send(tab, session, tx)

\* Any event ends the wait; get_msg then tells whether there is a message.
await_response(s, session) ==
    UNION {{[rc |-> IF w.rc # NO_ERROR THEN w.rc ELSE g.rc, tab |-> w.tab,
             arrived |-> s.arrived \/ "MSG" \in w.event, id |-> g.id, len |-> g.len] :
              g \in trusty_get_msg(w.tab, session)} :
           w \in wait(s.tab, session)}

\* read_msg into the buffers rx, which the message must fill.
ReadWhole(a, session, rx) ==
    LET rc == trusty_read_msg(a.tab, session, a.id, 0, rx).rc
    IN  IF rc >= 0 /\ rc # a.len THEN ERR_IO ELSE rc

Retired(rc, a, session) ==
    {[rc |-> rc, tab |-> put.tab, arrived |-> a.arrived] :
        put \in trusty_put_msg(a.tab, session)}

\* Mutant: the response may be shorter than the first buffer.
read_response_NoMinimum(a, session, rx) ==
    Retired(IF a.len > Total(rx) THEN ERR_BAD_LEN ELSE ReadWhole(a, session, rx),
            a, session)

\* The response a (a result of await_response) is read if the buffers rx can
\* take its length, and retired in any case; after a read twice, which is as
\* good as once, since nothing arrives in between.
read_response(a, session, rx) ==
    Retired(CASE a.len < rx[1]     -> ERR_NOT_VALID
              [] a.len > Total(rx) -> ERR_BAD_LEN
              [] OTHER             -> ReadWhole(a, session, rx),
            a, session)

\* rx is the empty sequence when no response is expected.
sync_ipc_send_msg(tab, session, tx, rx) ==
    LET sent    == SendRequest(tab, session, tx)
        awaited == UNION {await_response(s, session) : s \in {x \in sent : x.rc >= 0}}
        failed  == {[rc |-> a.rc, tab |-> a.tab, arrived |-> a.arrived] :
                       a \in {x \in sent \cup awaited : x.rc < 0}}
    IN  IF rx = <<>>
        THEN {[rc |-> IF s.rc < 0 THEN s.rc ELSE NO_ERROR, tab |-> s.tab,
               arrived |-> s.arrived] : s \in sent}
        ELSE failed \cup UNION {read_response(a, session, rx) :
                                   a \in {x \in awaited : x.rc >= 0}}

===============================================================================
