----------------------------- MODULE KeymasterIpc -----------------------------
(***************************************************************************)
(* The IPC server of the keymaster application (keymaster_ipc.cpp): two    *)
(* ports, one for trusted applications and one for the non-secure world,   *)
(* a context for every accepted channel, and a loop over wait_any that     *)
(* calls the handler an event's cookie points to.                          *)
(*                                                                         *)
(* The server is sequential; each handler is one step.  The environment    *)
(* chooses events, messages, peers and which calls fail.                   *)
(***************************************************************************)
EXTENDS TrustySyscalls

CONSTANTS
    SECURE, NON_SECURE,     \* addresses of the two static port handlers
    ChanCtx,                \* addresses new has for a keymaster_chan_ctx
    KEYMASTER_PATH,         \* the first character of both ports' names
    HEADER,                 \* sizeof(keymaster_message)
    MsgId, MsgLen           \* identifiers and lengths of arriving messages

ASSUME Handlers ==
    /\ SECURE # NON_SECURE
    /\ {SECURE, NON_SECURE} \cap ChanCtx = {}
    /\ Cookie = {SECURE, NON_SECURE} \cup ChanCtx

ASSUME KeymasterConstants ==
    /\ KEYMASTER_PATH \in Char /\ NULL \notin Char
    /\ HEADER \in Nat
    /\ MsgId \subseteq Nat \ {INVALID_IPC_MSG_ID}
    /\ MsgLen \subseteq Nat

\* A scan for a port that finds none returns INVALID_IPC_HANDLE, which
\* keymaster_ipc_init takes for a handle unless it is negative: the table has a
\* port of each parity (the source has two), or the value is negative.
ASSUME TwoPorts == INVALID_IPC_HANDLE < 0 \/ PORT_HANDLE_MIN < PORT_HANDLE_MAX

VARIABLES
    t,                  \* the handle table
    mode,               \* where main is
    ev,                 \* the event the loop is about to dispatch, or NoEvent
    port_secure, port_non_secure,
    live,               \* channel contexts allocated and not deleted
    chan,               \* ctx->chan
    dispatch,           \* ctx->dispatch: "secure" or "non_secure"
    uuid,               \* ctx->uuid: "gatekeeper" or "other"
    abandoned,          \* history: live contexts no event can reach any more
    client              \* history: the peer each open channel was accepted from

ports   == <<port_secure, port_non_secure>>
ctxVars == <<live, chan, dispatch, uuid, abandoned>>
vars    == <<t, mode, ev, ports, ctxVars, client>>

Peer    == {"gatekeeper", "other"}
NoEvent == [handle |-> INVALID_IPC_HANDLE, event |-> {}, cookie |-> NULL]

Init ==
    /\ t = InitTable
    /\ mode = "init"
    /\ ev = NoEvent
    /\ port_secure = INVALID_IPC_HANDLE
    /\ port_non_secure = INVALID_IPC_HANDLE
    /\ live = {}
    /\ chan = [c \in ChanCtx |-> INVALID_IPC_HANDLE]
    /\ dispatch = [c \in ChanCtx |-> "non_secure"]
    /\ uuid = [c \in ChanCtx |-> "other"]
    /\ abandoned = {}
    /\ client = [h \in Chan |-> "none"]

\* What becomes of client in a step that may open a channel for peer.
Accepted(peer) ==
    client' = [h \in Chan |-> IF h \notin t'.active THEN "none"
                             ELSE IF h \in t.active THEN client[h] ELSE peer]

-------------------------------------------------------------------------------
(* keymaster_ipc_init.                                                     *)

\* Mutant: the cookie goes to the first port each time.
CreatePort_FirstPort(tab, flags, handler) ==
    {[rc |-> NO_ERROR, handle |-> r.rc,
      tab |-> trusty_set_cookie(r.tab, PORT_HANDLE_MIN, handler).tab] :
        r \in trusty_port_create(tab, KEYMASTER_PATH, flags)}

\* port_create and set_cookie, for one of the two ports.
CreatePort(tab, flags, handler) ==
    UNION {
      IF r.rc < 0 THEN {[rc |-> r.rc, handle |-> r.rc, tab |-> r.tab]}
      ELSE {[rc     |-> s.rc,
             handle |-> r.rc,
             tab    |-> IF s.rc = NO_ERROR THEN s.tab ELSE close(s.tab, r.rc)] :
               s \in set_cookie(r.tab, r.rc, handler)} :
      r \in trusty_port_create(tab, KEYMASTER_PATH, flags)}

\* When the second port fails the first one stays open, and main returns.
keymaster_ipc_init ==
    /\ mode = "init"
    /\ \E s \in CreatePort(t, {"TA"}, SECURE) :
          \/ /\ s.rc # NO_ERROR
             /\ t' = s.tab
             /\ mode' = "exited"
             /\ UNCHANGED ports
          \/ /\ s.rc = NO_ERROR
             /\ port_secure' = s.handle
             /\ \E n \in CreatePort(s.tab, {"NS"}, NON_SECURE) :
                   /\ t' = n.tab
                   /\ \/ /\ n.rc # NO_ERROR
                         /\ mode' = "exited"
                         /\ UNCHANGED port_non_secure
                      \/ /\ n.rc = NO_ERROR
                         /\ mode' = "loop"
                         /\ port_non_secure' = n.handle
    /\ UNCHANGED <<ev, ctxVars, client>>

-------------------------------------------------------------------------------
(* The loop of main, and the events dispatch_event gives to no handler.    *)

WaitAnyFails ==
    /\ mode = "loop" /\ ev = NoEvent
    /\ mode' = "exited"
    /\ UNCHANGED <<t, ev, ports, ctxVars, client>>

WaitAny ==
    /\ mode = "loop" /\ ev = NoEvent
    /\ \E h \in sea_ht_choose_active_handle(t), bits \in SUBSET Event,
          id \in MsgId, len \in MsgLen :
          LET e == EventOn(t, h, bits, id, len)
          IN  /\ t' = e.tab
              /\ ev' = [handle |-> e.handle, event |-> e.event, cookie |-> e.cookie]
    /\ UNCHANGED <<mode, ports, ctxVars, client>>

\* No bit is set, or there is no handler and the handle is closed.
DispatchNoHandler ==
    /\ mode = "loop" /\ ev # NoEvent
    /\ \/ ev.event = {} /\ UNCHANGED t
       \/ ev.event # {} /\ ev.cookie = NULL /\ t' = close(t, ev.handle)
    /\ ev' = NoEvent
    /\ Accepted("none")
    /\ UNCHANGED <<mode, ports, ctxVars>>

Dispatching(handler) == mode = "loop" /\ ev.event # {} /\ ev.cookie = handler

-------------------------------------------------------------------------------
(* keymaster_port_handler.                                                 *)

handle_port_errors(p) ==
    /\ Dispatching(p)
    /\ ev.event \cap {"ERROR", "HUP", "MSG", "SEND_UNBLOCKED"} # {}
    /\ mode' = "aborted"
    /\ UNCHANGED <<t, ev, ports, ctxVars, client>>

\* Mutant: the test of the peer's uuid is inverted.
keymaster_port_accessible_Inverted(peer, secure) ==
    ~ secure \/ peer # "gatekeeper"

keymaster_port_accessible(peer, secure) == ~ secure \/ peer = "gatekeeper"

RefuseClient(tab, h) == t' = close(tab, h) /\ UNCHANGED ctxVars

keymaster_ctx_open(c, h, peer, secure) ==
    /\ live' = live \cup {c}
    /\ chan' = [chan EXCEPT ![c] = h]
    /\ dispatch' = [dispatch EXCEPT ![c] = IF secure THEN "secure" ELSE "non_secure"]
    /\ uuid' = [uuid EXCEPT ![c] = peer]

\* The handler tests for a negative handle only: when INVALID_IPC_HANDLE is
\* not negative, a failed accept goes on to make a context without a channel.
\* The peer is the kernel's choice.
keymaster_port_handler(p, secure) ==
    /\ Dispatching(p)
    /\ ev.event = {"READY"}
    /\ ev' = NoEvent
    /\ \E r \in trusty_accept(t, ev.handle), peer \in Peer :
       /\ \/ r.rc < 0 /\ t' = r.tab /\ UNCHANGED ctxVars
          \/ /\ r.rc >= 0             \* no access, or no memory for a context
             /\ RefuseClient(r.tab, r.rc)
          \/ /\ r.rc >= 0
             /\ keymaster_port_accessible(peer, secure)
             /\ \E c \in ChanCtx \ live : \E s \in set_cookie(r.tab, r.rc, c) :
                   \/ s.rc < 0 /\ RefuseClient(s.tab, r.rc)
                   \/ /\ s.rc >= 0
                      /\ t' = s.tab
                      /\ keymaster_ctx_open(c, r.rc, peer, secure)
                      /\ abandoned' = IF r.rc = INVALID_IPC_HANDLE
                                      THEN abandoned \cup {c} ELSE abandoned
       /\ Accepted(peer)
    /\ UNCHANGED <<mode, ports>>

-------------------------------------------------------------------------------
(* keymaster_chan_handler.                                                 *)

\* The destructor of MessageDeleter retires the message on every path after
\* get_msg; the result of put_msg is not looked at.
handle_msg(tab, h) ==
    UNION {
      CASE g.rc = ERR_NO_MSG -> {[rc |-> NO_ERROR, tab |-> tab]}
        [] g.rc \notin {NO_ERROR, ERR_NO_MSG} -> {[rc |-> g.rc, tab |-> tab]}
        [] OTHER ->
             LET r == trusty_read_msg(tab, h, g.id, 0, <<g.len>>)
             IN  {[rc  |-> IF r.rc < 0 THEN r.rc
                           ELSE IF r.rc < HEADER THEN ERR_GENERIC  \* ERR_NOT_VALID
                           ELSE NO_ERROR,
                   tab |-> put.tab] : put \in trusty_put_msg(tab, h)} :
      g \in trusty_get_msg(tab, h)}

\* Mutant: the context is not deleted.
keymaster_ctx_close_NoDelete(c, tab) == t' = close(tab, chan[c]) /\ UNCHANGED ctxVars

\* The fields of a deleted context go back to those of Init.
keymaster_ctx_close(c, tab) ==
    /\ t' = close(tab, chan[c])
    /\ live' = live \ {c}
    /\ chan' = [chan EXCEPT ![c] = INVALID_IPC_HANDLE]
    /\ dispatch' = [dispatch EXCEPT ![c] = "non_secure"]
    /\ uuid' = [uuid EXCEPT ![c] = "other"]
    /\ UNCHANGED abandoned

\* Mutants: an error event frees the context of the channel but forgets the
\* handle; the return after a failed message is missing.
ChannelError_NoClose(c) ==
    /\ live' = live \ {c}
    /\ UNCHANGED <<t, chan, dispatch, uuid, abandoned>>

ChannelMessage_NoReturn(c) ==
    \E m \in IF "MSG" \in ev.event THEN handle_msg(t, chan[c])
             ELSE {[rc |-> NO_ERROR, tab |-> t]} :
       /\ t' = LET closed == IF m.rc # NO_ERROR THEN close(m.tab, chan[c]) ELSE m.tab
               IN  IF "HUP" \in ev.event THEN close(closed, chan[c]) ELSE closed
       /\ live' = IF m.rc # NO_ERROR \/ "HUP" \in ev.event THEN live \ {c} ELSE live
       /\ UNCHANGED <<chan, dispatch, uuid, abandoned>>

\* The channel is closed, but its context is not deleted.
ChannelError(c) ==
    /\ t' = close(t, ev.handle)
    /\ abandoned' = abandoned \cup {c}
    /\ UNCHANGED <<live, chan, dispatch, uuid>>

\* A message, when there is one, and then the hang-up.
ChannelMessage(c) ==
    \E m \in IF "MSG" \in ev.event THEN handle_msg(t, chan[c])
             ELSE {[rc |-> NO_ERROR, tab |-> t]} :
       \/ /\ m.rc # NO_ERROR \/ "HUP" \in ev.event
          /\ keymaster_ctx_close(c, m.tab)
       \/ /\ m.rc = NO_ERROR /\ "HUP" \notin ev.event
          /\ t' = m.tab
          /\ UNCHANGED ctxVars

keymaster_chan_handler(c) ==
    /\ Dispatching(c)
    /\ ev' = NoEvent
    /\ IF ev.event \cap {"ERROR", "READY"} # {}
       THEN ChannelError(c) ELSE ChannelMessage(c)
    /\ Accepted("none")
    /\ UNCHANGED <<mode, ports>>

\* main has returned, or a port handler has aborted.
Terminated == mode \in {"exited", "aborted"} /\ UNCHANGED vars

Next ==
    \/ keymaster_ipc_init
    \/ WaitAny \/ WaitAnyFails \/ DispatchNoHandler
    \/ handle_port_errors(SECURE) \/ handle_port_errors(NON_SECURE)
    \/ keymaster_port_handler(SECURE, TRUE)
    \/ keymaster_port_handler(NON_SECURE, FALSE)
    \/ \E c \in ChanCtx : keymaster_chan_handler(c)
    \/ Terminated

Spec == Init /\ [][Next]_vars

-------------------------------------------------------------------------------
(* Properties.                                                             *)

\* The state has its type.
TypeOK ==
    /\ t \in Table
    /\ mode \in {"init", "loop", "exited", "aborted"}
    /\ ev \in [handle : Handle \cup {INVALID_IPC_HANDLE}, event : SUBSET Event,
               cookie : Cookie \cup {NULL}]
    /\ {port_secure, port_non_secure} \subseteq Port \cup {INVALID_IPC_HANDLE}
    /\ live \subseteq ChanCtx
    /\ chan \in [ChanCtx -> Chan \cup {INVALID_IPC_HANDLE}]
    /\ dispatch \in [ChanCtx -> {"secure", "non_secure"}]
    /\ uuid \in [ChanCtx -> Peer]
    /\ abandoned \subseteq live
    /\ client \in [Chan -> Peer \cup {"none"}]

\* Open channels and the contexts in use correspond one to one, and cookies
\* lead from the one to the other.  A context is lost in two ways and no other:
\* by an error event, which closes the channel alone, and by an accept that
\* fails with a handle that is not negative.
ContextsAccounted ==
    /\ t.active \cap Chan = {chan[c] : c \in live \ abandoned}
    /\ \A c \in live \ abandoned : t.cookie[chan[c]] = c

\* "invoke it" (dispatch_event): the handle of the event is open, as the
\* assertion there says, and the cookie is that of one of the two ports or of
\* a context in use of this very channel: never that of a context left behind
\* by an earlier channel with the same handle.
DispatchSound ==
    (mode = "loop" /\ ev.event # {}) =>
        /\ ev.handle \in t.active
        /\ \/ ev.cookie = SECURE     /\ ev.handle = port_secure
           \/ ev.cookie = NON_SECURE /\ ev.handle = port_non_secure
           \/ ev.cookie \in live \ abandoned /\ chan[ev.cookie] = ev.handle

\* Each handle is closed once, by the handler or by keymaster_ctx_close, also
\* when one event carries a message that fails and a hang-up.
ClosedOnce == CountersAgree(t)

\* The loop serves both ports for as long as it runs: whatever happens on the
\* channels, the two handles stay open and lead to their own handlers.
PortsServed ==
    mode = "loop" =>
        /\ t.active \cap Port = {port_secure, port_non_secure}
        /\ t.cookie[port_secure] = SECURE
        /\ t.cookie[port_non_secure] = NON_SECURE

\* When an event of a channel is dispatched, the context it finds has the uuid
\* of the client that is connected there now, and it dispatches to
\* keymaster_dispatch_secure, which gives out the authentication token key, only
\* for the gatekeeper: also when the context's address, the handle or the cookie
\* the handle still carries belonged to another client before.
SecureIsGatekeeper ==
    (mode = "loop" /\ ev.event # {} /\ ev.handle \in Chan) =>
        /\ ev.cookie \in live
        /\ uuid[ev.cookie] = client[ev.handle]
        /\ dispatch[ev.cookie] = "secure" => client[ev.handle] = "gatekeeper"

\* An error, or a hang-up of the peer, ends in a closed channel whatever else
\* the event carries and whatever its message leads to.
GoneIsClosed ==
    [][ (/\ mode = "loop" /\ ev.handle \in Chan /\ ev' = NoEvent
         /\ ev.event \cap {"ERROR", "READY", "HUP"} # {})
        => ev.handle \notin t'.active ]_<<t, ev>>

\* The event of one handle leaves the other channels and contexts alone.
Isolation ==
    [][ (mode = "loop" /\ ev # NoEvent) =>
          \A c \in live \ abandoned : chan[c] # ev.handle =>
             /\ c \in live' \ abandoned'
             /\ chan'[c] = chan[c] /\ chan[c] \in t'.active
             /\ uuid'[c] = uuid[c] /\ dispatch'[c] = dispatch[c]
      ]_vars

===============================================================================
