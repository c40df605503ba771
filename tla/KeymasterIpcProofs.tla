-------------------------- MODULE KeymasterIpcProofs --------------------------
(***************************************************************************)
(* The properties of KeymasterIpc for every size of the table, all         *)
(* addresses of contexts and all messages.  The invariant IInv adds to the *)
(* properties what the loop leaves unsaid: that the event about to be      *)
(* dispatched still describes its handle, with any bits and none, that     *)
(* every context in use belongs to the client of its channel at all times  *)
(* and not only when an event finds it, and that keymaster_ipc_init starts *)
(* from an empty table.                                                    *)
(***************************************************************************)
EXTENDS KeymasterIpc, TrustySyscallsProofs

\* The contexts an event can lead to.
InUse == live \ abandoned

EventIsCurrent ==
    (mode = "loop" /\ ev # NoEvent) =>
        ev.handle \in t.active /\ ev.cookie = t.cookie[ev.handle]

ClientsKnown ==
    \A c \in InUse :
        /\ uuid[c] = client[chan[c]]
        /\ dispatch[c] = "secure" => uuid[c] = "gatekeeper"

NothingBeforeInit == mode = "init" => t.active = {} /\ live = {} /\ ev = NoEvent

IInv ==
    /\ TypeOK
    /\ ClosedOnce
    /\ ContextsAccounted
    /\ PortsServed
    /\ EventIsCurrent
    /\ ClientsKnown
    /\ NothingBeforeInit

-------------------------------------------------------------------------------
(* What the invariant says of contexts, channels and events.               *)

\* The table is good in every state of the invariant.
LEMMA IInvGood == ASSUME IInv PROVE GoodTable(t)
  BY DEF IInv, TypeOK, ClosedOnce, GoodTable

\* No two contexts in use share a channel.
LEMMA OneContext ==
    ASSUME IInv
    PROVE  /\ \A c \in InUse : /\ c \in ChanCtx
                               /\ chan[c] \in Chan
                               /\ chan[c] \in t.active
                               /\ t.cookie[chan[c]] = c
           /\ \A c, d \in InUse : chan[c] = chan[d] => c = d
           /\ \A h \in t.active \cap Chan : \E c \in InUse : chan[c] = h
  BY DEF IInv, TypeOK, ContextsAccounted, InUse

\* The cookie of a current event leads to the port or the context it is of.
LEMMA EventFound ==
    ASSUME IInv, mode = "loop", ev # NoEvent
    PROVE  /\ ev.handle \in t.active
           /\ ev.cookie = t.cookie[ev.handle]
           /\ \/ ev.cookie = SECURE     /\ ev.handle = port_secure
              \/ ev.cookie = NON_SECURE /\ ev.handle = port_non_secure
              \/ ev.handle \in Chan /\ ev.cookie \in InUse /\ chan[ev.cookie] = ev.handle
  <1>1. ev.handle \in t.active /\ ev.cookie = t.cookie[ev.handle]
    BY DEF IInv, EventIsCurrent
  <1>2. ev.handle \in Port \/ ev.handle \in Chan
    BY <1>1 DEF IInv, TypeOK, Table, Handle
  <1>3. CASE ev.handle \in Port
    BY <1>1, <1>3 DEF IInv, PortsServed
  <1>4. CASE ev.handle \in Chan
    BY <1>1, <1>4, OneContext
  <1> QED  BY <1>1, <1>2, <1>3, <1>4

\* An event with a bit set is a real event.
LEMMA EventGiven ==
    ASSUME ev.event # {}
    PROVE  ev # NoEvent
  BY DEF NoEvent

\* No event carries a null cookie.
LEMMA NullNeverDispatched ==
    ASSUME IInv, mode = "loop", ev # NoEvent
    PROVE  ev.cookie # NULL
  <1>1. {SECURE, NON_SECURE} \cup ChanCtx = Cookie
    BY Handlers
  <1>2. InUse \subseteq ChanCtx
    BY DEF IInv, TypeOK, InUse
  <1> QED  BY <1>1, <1>2, EventFound, NullIsNoCookie

\* An event for a context is an event of its channel.
LEMMA ContextFound ==
    ASSUME IInv, NEW c \in ChanCtx, Dispatching(c)
    PROVE  c \in InUse /\ ev.handle = chan[c] /\ ev.handle \in Chan
  <1>1. mode = "loop" /\ ev # NoEvent /\ ev.cookie = c
    BY EventGiven DEF Dispatching
  <1>2. c # SECURE /\ c # NON_SECURE
    BY Handlers
  <1> QED  BY <1>1, <1>2, EventFound

\* An event for a port's handler is an event of that port.
LEMMA PortFound ==
    ASSUME IInv, NEW p \in {SECURE, NON_SECURE}, Dispatching(p)
    PROVE  ev.handle \in Port
  <1>1. mode = "loop" /\ ev # NoEvent /\ ev.cookie = p
    BY EventGiven DEF Dispatching
  <1>2. p \notin InUse
    BY Handlers DEF IInv, TypeOK, InUse
  <1>3. {port_secure, port_non_secure} \subseteq Port
    BY <1>1 DEF IInv, PortsServed
  <1> QED  BY <1>1, <1>2, <1>3, EventFound

-------------------------------------------------------------------------------
(* Three ways for a step of the loop to change contexts and channels: not  *)
(* at all, one more of each, one less of each.                             *)

\* The initial state satisfies the invariant.
LEMMA InitIInv == ASSUME Init PROVE IInv
  <1>1. GoodTable(t)
    BY InitTableType, InitTableCounts DEF Init, GoodTable
  <1>2. t.active = {}
    BY DEF Init, InitTable
  <1>3. TypeOK
    BY <1>1 DEF Init, TypeOK, GoodTable, NoEvent, Peer
  <1>4. ClosedOnce /\ ContextsAccounted /\ PortsServed
    BY <1>1, <1>2 DEF Init, GoodTable, ClosedOnce, ContextsAccounted, PortsServed
  <1>5. EventIsCurrent /\ ClientsKnown /\ NothingBeforeInit
    BY <1>2 DEF Init, EventIsCurrent, ClientsKnown, NothingBeforeInit, InUse
  <1> QED  BY <1>3, <1>4, <1>5 DEF IInv

\* The type of the history of clients.
LEMMA AcceptedType ==
    ASSUME IInv, NEW peer \in Peer \cup {"none"}, Accepted(peer)
    PROVE  /\ client' \in [Chan -> Peer \cup {"none"}]
           /\ \A h \in Chan : (h \in t.active /\ h \in t'.active) => client'[h] = client[h]
           /\ \A h \in Chan : (h \notin t.active /\ h \in t'.active) => client'[h] = peer
  BY DEF IInv, TypeOK, Accepted

\* No handle is opened or closed, no cookie set, no context touched.
LEMMA NothingMoves ==
    ASSUME IInv, UNCHANGED <<ports, ctxVars>>, mode = "loop", mode' = "loop",
           GoodTable(t'), t'.active = t.active, t'.cookie = t.cookie,
           client' \in [Chan -> Peer \cup {"none"}],
           \A h \in Chan : h \in t.active => client'[h] = client[h],
           \/ ev' = NoEvent
           \/ /\ ev' \in [handle : Handle, event : SUBSET Event,
                          cookie : Cookie \cup {NULL}]
              /\ ev'.handle \in t.active
              /\ ev'.cookie = t.cookie[ev'.handle]
    PROVE  IInv'
  <1>1. ev' \in [handle : Handle \cup {INVALID_IPC_HANDLE}, event : SUBSET Event,
                 cookie : Cookie \cup {NULL}]
    BY DEF NoEvent
  <1>2. TypeOK'
    BY <1>1 DEF IInv, TypeOK, GoodTable, ports, ctxVars
  <1>3. ClosedOnce' /\ NothingBeforeInit'
    BY DEF GoodTable, ClosedOnce, NothingBeforeInit
  <1>4. ContextsAccounted' /\ PortsServed'
    BY DEF IInv, ContextsAccounted, PortsServed, ports, ctxVars
  <1>5. EventIsCurrent'
    BY DEF EventIsCurrent, NoEvent
  <1>6. ClientsKnown'
    BY OneContext DEF IInv, ClientsKnown, InUse, ctxVars
  <1> QED  BY <1>2, <1>3, <1>4, <1>5, <1>6 DEF IInv

\* A channel is opened and a context made for it.
LEMMA OneMore ==
    ASSUME IInv, UNCHANGED ports, mode = "loop", mode' = "loop", ev' = NoEvent,
           NEW c \in ChanCtx \ live, NEW h \in Chan, h \notin t.active,
           NEW peer \in Peer, NEW secure \in BOOLEAN,
           keymaster_port_accessible(peer, secure),
           GoodTable(t'), t'.active = t.active \cup {h},
           t'.cookie = [t.cookie EXCEPT ![h] = c],
           keymaster_ctx_open(c, h, peer, secure), abandoned' = abandoned,
           Accepted(peer)
    PROVE  IInv'
  <1>1. /\ InUse' = InUse \cup {c} /\ c \notin InUse
        /\ c \notin abandoned /\ abandoned' \subseteq live'
    BY DEF IInv, TypeOK, InUse, keymaster_ctx_open
  <1>2. /\ chan'[c] = h /\ uuid'[c] = peer
        /\ dispatch'[c] = "secure" => secure
        /\ t'.cookie[h] = c
    BY DEF IInv, TypeOK, Table, Handle, keymaster_ctx_open
  <1>3. \A d \in InUse : /\ chan'[d] = chan[d] /\ uuid'[d] = uuid[d]
                         /\ dispatch'[d] = dispatch[d]
    BY <1>1 DEF IInv, TypeOK, InUse, keymaster_ctx_open
  <1>4. \A k \in Handle : k # h => t'.cookie[k] = t.cookie[k]
    BY DEF IInv, TypeOK, Table
  <1>5. TypeOK'
    BY <1>1, AcceptedType
    DEF IInv, TypeOK, GoodTable, keymaster_ctx_open, ports, NoEvent
  <1>6. ClosedOnce' /\ NothingBeforeInit' /\ EventIsCurrent'
    BY DEF GoodTable, ClosedOnce, NothingBeforeInit, EventIsCurrent, NoEvent
  <1>7. PortsServed'
    <2>1. t'.active \cap Port = t.active \cap Port /\ h \notin Port
      BY HandleFacts
    <2>2. {port_secure, port_non_secure} \subseteq Handle
      BY DEF IInv, PortsServed, Handle
    <2> QED  BY <1>4, <2>1, <2>2 DEF IInv, PortsServed, ports
  <1>8. ContextsAccounted'
    <2>1. t.active \cap Chan = {chan[d] : d \in InUse}
      BY DEF IInv, ContextsAccounted, InUse
    <2>2. t'.active \cap Chan = {chan'[d] : d \in InUse'}
      BY <1>1, <1>2, <1>3, <2>1
    <2>3. \A d \in InUse' : t'.cookie[chan'[d]] = d
      BY <1>1, <1>2, <1>3, <1>4, OneContext DEF Handle
    <2> QED  BY <2>2, <2>3 DEF ContextsAccounted, InUse
  <1>9. ClientsKnown'
    <2>1. client'[h] = peer
      BY AcceptedType
    <2>2. \A d \in InUse : client'[chan[d]] = client[chan[d]]
      BY AcceptedType, OneContext
    <2>3. dispatch'[c] = "secure" => peer = "gatekeeper"
      BY <1>2 DEF keymaster_port_accessible
    <2> QED  BY <1>1, <1>2, <1>3, <2>1, <2>2, <2>3 DEF IInv, ClientsKnown
  <1> QED  BY <1>5, <1>6, <1>7, <1>8, <1>9 DEF IInv

\* The channel of a context is closed, and the context no longer in use.
LEMMA OneLess ==
    ASSUME IInv, UNCHANGED ports, mode = "loop", mode' = "loop", ev' = NoEvent,
           NEW c \in InUse,
           GoodTable(t'), t'.active = t.active \ {chan[c]}, t'.cookie = t.cookie,
           InUse' = InUse \ {c}, live' \subseteq live, abandoned' \subseteq live',
           chan' \in [ChanCtx -> Chan \cup {INVALID_IPC_HANDLE}],
           dispatch' \in [ChanCtx -> {"secure", "non_secure"}],
           uuid' \in [ChanCtx -> Peer],
           \A d \in InUse \ {c} : /\ chan'[d] = chan[d] /\ uuid'[d] = uuid[d]
                                  /\ dispatch'[d] = dispatch[d],
           Accepted("none")
    PROVE  IInv'
  <1>1. TypeOK'
    BY AcceptedType DEF IInv, TypeOK, GoodTable, ports, NoEvent
  <1>2. ClosedOnce' /\ NothingBeforeInit' /\ EventIsCurrent'
    BY DEF GoodTable, ClosedOnce, NothingBeforeInit, EventIsCurrent, NoEvent
  <1>3. PortsServed'
    <2>1. chan[c] \notin Port
      BY OneContext, HandleFacts
    <2>2. t'.active \cap Port = t.active \cap Port
      BY <2>1
    <2> QED  BY <2>2 DEF IInv, PortsServed, ports
  <1>4. ContextsAccounted'
    <2>1. t.active \cap Chan = {chan[d] : d \in InUse}
      BY DEF IInv, ContextsAccounted, InUse
    <2>2. t'.active \cap Chan = {chan'[d] : d \in InUse'}
      BY <2>1, OneContext
    <2>3. \A d \in InUse' : t'.cookie[chan'[d]] = d
      BY OneContext
    <2> QED  BY <2>2, <2>3 DEF ContextsAccounted, InUse
  <1>5. ClientsKnown'
    <2>1. \A d \in InUse' : client'[chan[d]] = client[chan[d]]
      BY AcceptedType, OneContext
    <2> QED  BY <2>1 DEF IInv, ClientsKnown
  <1> QED  BY <1>1, <1>2, <1>3, <1>4, <1>5 DEF IInv

-------------------------------------------------------------------------------
(* keymaster_ipc_init.                                                     *)

\* The two kinds of port that keymaster_ipc_init asks for.
LEMMA PortKinds == IsSecurePort({"TA"}) = FALSE /\ IsSecurePort({"NS"}) = TRUE
  BY DEF IsSecurePort

\* A scan that reports no port has found none.
LEMMA NoPortFree ==
    ASSUME NEW tab, NEW secure,
           INVALID_IPC_HANDLE \in s_first_available_port_handle(tab, secure),
           NEW p \in Port, IS_SECURE_IPC_HANDLE(p) = secure
    PROVE  p \in tab.active
  BY HandleFacts DEF s_first_available_port_handle, First, Handle

\* Where the source's table is not too small, each kind of port exists.
LEMMA PortOfEachKind ==
    ASSUME INVALID_IPC_HANDLE >= 0
    PROVE  /\ \E p \in Port : IS_SECURE_IPC_HANDLE(p) = TRUE
           /\ \E p \in Port : IS_SECURE_IPC_HANDLE(p) = FALSE
  <1>1. PORT_HANDLE_MIN < PORT_HANDLE_MAX
    BY TwoPorts, InvalidIsNoHandle
  <1>2. PORT_HANDLE_MIN \in Port /\ PORT_HANDLE_MIN + 1 \in Port
    BY <1>1, HandleRanges DEF Port
  <1>3. CASE PORT_HANDLE_MIN % 2 = 1
    <2>1. (PORT_HANDLE_MIN + 1) % 2 # 1
      BY <1>3, HandleRanges
    <2> QED  BY <1>2, <1>3, <2>1 DEF IS_SECURE_IPC_HANDLE
  <1>4. CASE PORT_HANDLE_MIN % 2 # 1
    <2>1. (PORT_HANDLE_MIN + 1) % 2 = 1
      BY <1>4, HandleRanges
    <2> QED  BY <1>2, <1>4, <2>1 DEF IS_SECURE_IPC_HANDLE
  <1> QED  BY <1>3, <1>4

\* The kernel's set_cookie succeeds or changes nothing.
LEMMA CookieSetOrNot ==
    ASSUME NEW tab, NEW h, NEW cookie, NEW s \in set_cookie(tab, h, cookie)
    PROVE  \/ s.rc = NO_ERROR /\ s.tab = trusty_set_cookie(tab, h, cookie).tab
           \/ s.rc = ERR_GENERIC /\ s.tab = tab
  BY DEF set_cookie, trusty_set_cookie

\* set_cookie does nothing to a handle that is none.
LEMMA CookieInvalid ==
    ASSUME NEW tab, NEW cookie
    PROVE  trusty_set_cookie(tab, INVALID_IPC_HANDLE, cookie).tab = tab
  BY HandleFacts DEF trusty_set_cookie, sea_ht_set_cookie

\* What CreatePort made of the table, and what can keep it from it.
PortCreated(tab, flags, handler, s) ==
    /\ s.handle \in Port
    /\ s.handle \notin tab.active
    /\ IS_SECURE_IPC_HANDLE(s.handle) = IsSecurePort(flags)
    /\ s.tab.active = tab.active \cup {s.handle}
    /\ s.tab.cookie = [tab.cookie EXCEPT ![s.handle] = handler]

NonePossible(tab, flags) ==
    /\ INVALID_IPC_HANDLE >= 0
    /\ \A p \in Port : IS_SECURE_IPC_HANDLE(p) = IsSecurePort(flags) => p \in tab.active

\* CreatePort fails and leaves the table as it was, or makes a port of the kind
\* asked for, with its handler, unless none is free.
LEMMA CreatePortResult ==
    ASSUME NEW tab, GoodTable(tab), NEW flags, NEW handler \in Cookie,
           NEW s \in CreatePort(tab, flags, handler)
    PROVE  /\ GoodTable(s.tab)
           /\ s.rc # NO_ERROR => s.tab.active = tab.active
           /\ s.rc = NO_ERROR => \/ PortCreated(tab, flags, handler, s)
                                 \/ NonePossible(tab, flags)
  <1>0. KEYMASTER_PATH # NULL /\ KEYMASTER_PATH \in Char
    BY KeymasterConstants
  <1>1. PICK r \in trusty_port_create(tab, KEYMASTER_PATH, flags) :
           s \in IF r.rc < 0 THEN {[rc |-> r.rc, handle |-> r.rc, tab |-> r.tab]}
                 ELSE {[rc     |-> q.rc,
                        handle |-> r.rc,
                        tab    |-> IF q.rc = NO_ERROR THEN q.tab ELSE close(q.tab, r.rc)] :
                          q \in set_cookie(r.tab, r.rc, handler)}
    BY DEF CreatePort
  <1>2. r.rc \in Port \cup {INVALID_IPC_HANDLE}
    BY <1>0, PortCreateHandle
  <1>3. r.rc \in Port => /\ r.rc \notin tab.active
                         /\ IS_SECURE_IPC_HANDLE(r.rc) = IsSecurePort(flags)
                         /\ GoodTable(r.tab)
                         /\ r.tab.active = tab.active \cup {r.rc}
                         /\ r.tab.cookie = tab.cookie
    BY <1>0, PortCreateResult DEF Handle
  <1>4. r.rc = INVALID_IPC_HANDLE =>
           /\ r.tab = tab
           /\ \A p \in Port : IS_SECURE_IPC_HANDLE(p) = IsSecurePort(flags)
                                 => p \in tab.active
    <2>1. PICK h \in s_first_available_port_handle(tab, IsSecurePort(flags)) :
             r = [rc |-> h, tab |-> sea_ht_new_port(tab, h, KEYMASTER_PATH)]
      BY <1>0 DEF trusty_port_create
    <2>2. r.rc = h /\ r.tab = sea_ht_new_port(tab, h, KEYMASTER_PATH)
      BY <2>1
    <2> QED  BY <2>2, NewInvalid, NoPortFree
  <1>5. CASE r.rc < 0
    <2>1. s.rc = r.rc /\ s.tab = r.tab
      BY <1>1, <1>5
    <2>2. r.rc = INVALID_IPC_HANDLE
      <3>1. \A p \in Port : ~ (p < 0)
        BY HandleRanges DEF Port
      <3> QED  BY <3>1, <1>2, <1>5
    <2>3. s.rc # NO_ERROR
      BY <2>1, <1>5, <1>2, InvalidIsNoHandle DEF NO_ERROR
    <2> QED  BY <2>1, <2>2, <2>3, <1>4
  <1>6. CASE ~ (r.rc < 0)
    <2>1. PICK q \in set_cookie(r.tab, r.rc, handler) :
             s = [rc     |-> q.rc,
                  handle |-> r.rc,
                  tab    |-> IF q.rc = NO_ERROR THEN q.tab ELSE close(q.tab, r.rc)]
      BY <1>1, <1>6
    <2>2. /\ s.rc = q.rc /\ s.handle = r.rc
          /\ s.tab = IF q.rc = NO_ERROR THEN q.tab ELSE close(q.tab, r.rc)
      BY <2>1
    <2>3. CASE r.rc = INVALID_IPC_HANDLE
      <3>1. q.tab = tab
        BY <1>4, <2>3, CookieSetOrNot, CookieInvalid
      <3>2. s.tab = tab
        BY <3>1, <2>2, <2>3, CloseInvalid DEF close
      <3>3. INVALID_IPC_HANDLE >= 0
        BY <1>6, <2>3, InvalidIsNoHandle
      <3> QED  BY <3>2, <3>3, <1>4, <2>3 DEF NonePossible
    <2>4. CASE r.rc \in Port
      <3>1. r.rc \in Handle /\ handler \in Cookie \cup {NULL}
        BY <2>4 DEF Handle
      <3>2. CASE q.rc = NO_ERROR
        <4>1. q.tab = trusty_set_cookie(r.tab, r.rc, handler).tab
          BY <3>2, CookieSetOrNot DEF NO_ERROR, ERR_GENERIC
        <4>2. /\ GoodTable(q.tab)
              /\ q.tab.active = r.tab.active
              /\ q.tab.cookie = [r.tab.cookie EXCEPT ![r.rc] = handler]
          BY <4>1, <3>1, <2>4, <1>3, SetCookieResult
        <4>3. s.tab = q.tab /\ s.rc = NO_ERROR
          BY <2>2, <3>2
        <4> QED  BY <4>2, <4>3, <1>3, <2>2, <2>4 DEF PortCreated
      <3>3. CASE q.rc # NO_ERROR
        <4>1. q.tab = r.tab
          BY <3>3, CookieSetOrNot
        <4>2. s.tab = trusty_close(r.tab, r.rc).tab
          BY <4>1, <3>3, <2>2 DEF close
        <4>3. GoodTable(s.tab) /\ s.tab.active = r.tab.active \ {r.rc}
          BY <4>2, <1>3, <2>4, CloseResult
        <4> QED  BY <4>3, <3>3, <2>2, <2>4, <1>3
      <3> QED  BY <3>2, <3>3
    <2> QED  BY <2>3, <2>4, <1>2
  <1> QED  BY <1>5, <1>6

\* keymaster_ipc_init keeps the invariant, wherever it returns.
LEMMA InitStep == ASSUME IInv, keymaster_ipc_init PROVE IInv'
  <1>1. /\ GoodTable(t) /\ t.active = {} /\ live = {}
        /\ mode = "init" /\ ev = NoEvent
    BY IInvGood DEF keymaster_ipc_init, IInv, NothingBeforeInit
  <1>2. UNCHANGED <<ev, ctxVars, client>>
    BY DEF keymaster_ipc_init
  <1>3. SECURE \in Cookie /\ NON_SECURE \in Cookie
    BY Handlers
  <1>4. PICK s \in CreatePort(t, {"TA"}, SECURE) :
          \/ /\ s.rc # NO_ERROR
             /\ t' = s.tab
             /\ mode' = "exited"
             /\ UNCHANGED ports
          \/ /\ s.rc = NO_ERROR
             /\ port_secure' = s.handle
             /\ \E n \in CreatePort(s.tab, {"NS"}, NON_SECURE) :
                   /\ t' = n.tab
                   /\ \/ /\ n.rc # NO_ERROR
                         /\ mode' = "exited"
                         /\ UNCHANGED port_non_secure
                      \/ /\ n.rc = NO_ERROR
                         /\ mode' = "loop"
                         /\ port_non_secure' = n.handle
    BY DEF keymaster_ipc_init
  <1>5. /\ GoodTable(s.tab)
        /\ s.rc # NO_ERROR => s.tab.active = {}
    <2>1. GoodTable(s.tab) /\ (s.rc # NO_ERROR => s.tab.active = t.active)
      BY <1>1, <1>3, CreatePortResult
    <2> QED  BY <2>1, <1>1
  <1>6. s.rc = NO_ERROR =>
           /\ s.handle \in Port
           /\ IS_SECURE_IPC_HANDLE(s.handle) = FALSE
           /\ s.tab.active = {s.handle}
           /\ s.tab.cookie = [t.cookie EXCEPT ![s.handle] = SECURE]
    <2>1. s.rc = NO_ERROR => \/ PortCreated(t, {"TA"}, SECURE, s)
                             \/ NonePossible(t, {"TA"})
      BY <1>1, <1>3, CreatePortResult
    <2>2. ~ NonePossible(t, {"TA"})
      BY <1>1, PortKinds, PortOfEachKind DEF NonePossible
    <2> QED  BY <2>1, <2>2, <1>1, PortKinds DEF PortCreated
  \* Wherever it ends, no channel is open and no context made.
  <1>7. ASSUME GoodTable(t'), t'.active \subseteq Port,
               mode' \in {"loop", "exited"},
               {port_secure', port_non_secure'} \subseteq Port \cup {INVALID_IPC_HANDLE},
               PortsServed'
        PROVE  IInv'
    <2>1. TypeOK'
      BY <1>1, <1>2, <1>7 DEF IInv, TypeOK, GoodTable, ctxVars
    <2>2. ClosedOnce' /\ NothingBeforeInit' /\ EventIsCurrent'
      BY <1>1, <1>2, <1>7
      DEF GoodTable, ClosedOnce, NothingBeforeInit, EventIsCurrent
    <2>3. InUse' = {} /\ t'.active \cap Chan = {}
      BY <1>1, <1>2, <1>7, HandleFacts DEF InUse, ctxVars
    <2>4. ContextsAccounted' /\ ClientsKnown'
      BY <2>3 DEF ContextsAccounted, ClientsKnown, InUse
    <2> QED  BY <2>1, <2>2, <2>4, <1>7 DEF IInv
  <1>8. {port_secure, port_non_secure} \subseteq Port \cup {INVALID_IPC_HANDLE}
    BY DEF IInv, TypeOK
  <1>9. CASE s.rc # NO_ERROR
    <2>1. t' = s.tab /\ mode' = "exited" /\ UNCHANGED ports
      BY <1>4, <1>9
    <2>2. PortsServed'
      BY <2>1 DEF PortsServed
    <2>3. {port_secure', port_non_secure'} \subseteq Port \cup {INVALID_IPC_HANDLE}
      BY <1>8, <2>1 DEF ports
    <2>4. GoodTable(t') /\ t'.active \subseteq Port
      BY <1>5, <1>9, <2>1
    <2> QED  BY <1>7, <2>1, <2>2, <2>3, <2>4
  <1>10. CASE s.rc = NO_ERROR
    <2>1. PICK n \in CreatePort(s.tab, {"NS"}, NON_SECURE) :
             /\ t' = n.tab
             /\ \/ /\ n.rc # NO_ERROR
                   /\ mode' = "exited"
                   /\ UNCHANGED port_non_secure
                \/ /\ n.rc = NO_ERROR
                   /\ mode' = "loop"
                   /\ port_non_secure' = n.handle
      BY <1>4, <1>10
    <2>2. /\ s.handle \in Port
          /\ s.tab.active = {s.handle}
          /\ IS_SECURE_IPC_HANDLE(s.handle) = FALSE
          /\ port_secure' = s.handle
      BY <1>4, <1>6, <1>10
    <2>3. /\ GoodTable(n.tab)
          /\ n.rc # NO_ERROR => n.tab.active = {s.handle}
      <3>1. GoodTable(n.tab) /\ (n.rc # NO_ERROR => n.tab.active = s.tab.active)
        BY <1>3, <1>5, CreatePortResult
      <3> QED  BY <3>1, <2>2
    <2>4. CASE n.rc # NO_ERROR
      <3>1. t' = n.tab /\ mode' = "exited" /\ port_non_secure' = port_non_secure
        BY <2>1, <2>4
      <3>2. PortsServed'
        BY <3>1 DEF PortsServed
      <3> QED  BY <1>7, <1>8, <2>2, <2>3, <2>4, <3>1, <3>2
    <2>5. CASE n.rc = NO_ERROR
      <3>1. t' = n.tab /\ mode' = "loop" /\ port_non_secure' = n.handle
        BY <2>1, <2>5
      <3>2. PortCreated(s.tab, {"NS"}, NON_SECURE, n)
        <4>1. \/ PortCreated(s.tab, {"NS"}, NON_SECURE, n)
              \/ NonePossible(s.tab, {"NS"})
          BY <1>3, <1>5, <2>5, CreatePortResult
        <4>2. ~ NonePossible(s.tab, {"NS"})
          <5>1. ASSUME INVALID_IPC_HANDLE >= 0
                PROVE  \E p \in Port : /\ IS_SECURE_IPC_HANDLE(p) = TRUE
                                       /\ p \notin s.tab.active
            BY <5>1, <2>2, PortOfEachKind
          <5> QED  BY <5>1, PortKinds DEF NonePossible
        <4> QED  BY <4>1, <4>2
      <3>3. /\ n.handle \in Port
            /\ n.handle # s.handle
            /\ n.tab.active = {s.handle, n.handle}
            /\ n.tab.cookie = [s.tab.cookie EXCEPT ![n.handle] = NON_SECURE]
        BY <2>2, <3>2 DEF PortCreated
      <3>4. s.tab.cookie[s.handle] = SECURE
        BY <1>1, <1>6, <1>10 DEF GoodTable, Table, Handle
      <3>5. t'.cookie[s.handle] = SECURE /\ t'.cookie[n.handle] = NON_SECURE
        BY <1>5, <2>2, <3>1, <3>3, <3>4 DEF GoodTable, Table, Handle
      <3>6. PortsServed'
        BY <2>2, <3>1, <3>3, <3>5 DEF PortsServed
      <3> QED  BY <1>7, <2>2, <2>3, <3>1, <3>3, <3>6
    <2> QED  BY <2>4, <2>5
  <1> QED  BY <1>9, <1>10

-------------------------------------------------------------------------------
(* The steps of the loop and of the handlers.                              *)

\* wait_any yields an event that describes its handle.
LEMMA WaitAnyStep == ASSUME IInv, WaitAny PROVE IInv'
  <1>1. PICK h \in sea_ht_choose_active_handle(t), bits \in SUBSET Event,
             id \in MsgId, len \in MsgLen :
           /\ t' = EventOn(t, h, bits, id, len).tab
           /\ ev' = [handle |-> EventOn(t, h, bits, id, len).handle,
                     event  |-> EventOn(t, h, bits, id, len).event,
                     cookie |-> EventOn(t, h, bits, id, len).cookie]
    BY DEF WaitAny
  <1>2. mode = "loop" /\ UNCHANGED <<mode, ports, ctxVars, client>>
    BY DEF WaitAny
  <1>3. h \in t.active /\ h \in Handle /\ id \in Nat /\ len \in Nat
    BY KeymasterConstants DEF IInv, TypeOK, Table, sea_ht_choose_active_handle
  <1> DEFINE e == EventOn(t, h, bits, id, len)
  <1>4. /\ e.handle = h /\ e.cookie = t.cookie[h] /\ e.event = bits
        /\ GoodTable(e.tab) /\ SameHandles(t, e.tab)
    <2>1. GoodTable(t)
      BY IInvGood
    <2>2. e.handle = h /\ e.cookie = t.cookie[h] /\ e.event = bits
      BY <1>3 DEF EventOn, sea_ht_get_cookie
    <2>3. GoodTable(e.tab) /\ SameHandles(t, e.tab)
      BY <2>1, <1>3, EventResult
    <2> QED  BY <2>2, <2>3
  <1>5. t.cookie[h] \in Cookie \cup {NULL}
    BY <1>3 DEF IInv, TypeOK, Table
  <1>6. /\ ev' \in [handle : Handle, event : SUBSET Event, cookie : Cookie \cup {NULL}]
        /\ ev'.handle \in t.active
        /\ ev'.cookie = t.cookie[ev'.handle]
    BY <1>1, <1>3, <1>4, <1>5
  <1>7. GoodTable(t') /\ t'.active = t.active /\ t'.cookie = t.cookie
    BY <1>1, <1>4 DEF SameHandles
  <1>8. client' \in [Chan -> Peer \cup {"none"}]
    BY <1>2 DEF IInv, TypeOK
  <1> QED  BY <1>2, <1>6, <1>7, <1>8, NothingMoves

\* Only an event without bits is left without a handler.
LEMMA NoHandlerOnlyEmpty ==
    ASSUME IInv, DispatchNoHandler
    PROVE  ev.event = {} /\ t' = t
  BY NullNeverDispatched DEF DispatchNoHandler

\* Dropping an event without bits keeps the invariant.
LEMMA DispatchNoHandlerStep == ASSUME IInv, DispatchNoHandler PROVE IInv'
  <1>1. t' = t
    BY NoHandlerOnlyEmpty
  <1>2. /\ mode = "loop" /\ ev' = NoEvent /\ Accepted("none")
        /\ UNCHANGED <<mode, ports, ctxVars>>
    BY DEF DispatchNoHandler
  <1>3. GoodTable(t)
    BY IInvGood
  <1> QED  BY <1>1, <1>2, <1>3, AcceptedType, NothingMoves

\* A client that is refused leaves the table as it was: its channel is closed.
LEMMA RefuseEffect ==
    ASSUME IInv, NEW h, NEW u, ChannelOpened(t, h, u), RefuseClient(u, h)
    PROVE  GoodTable(t') /\ t'.active = t.active /\ t'.cookie = t.cookie
  <1>1. t' = trusty_close(u, h).tab
    BY DEF RefuseClient, close
  <1>2. CASE h = INVALID_IPC_HANDLE /\ u = t
    BY <1>1, <1>2, CloseInvalid, IInvGood
  <1>3. CASE h \in Chan /\ h \notin t.active /\ GoodTable(u)
             /\ u.active = t.active \cup {h} /\ u.cookie = t.cookie
    <2>1. h \in u.active
      BY <1>3
    <2> DEFINE w == trusty_close(u, h).tab
    <2>2. GoodTable(w) /\ w.active = u.active \ {h} /\ w.cookie = u.cookie
      BY <1>3, <2>1, CloseResult
    <2> HIDE DEF w
    <2>3. w.active = t.active /\ w.cookie = t.cookie
      BY <1>3, <2>2
    <2>4. t' = w
      BY <1>1 DEF w
    <2> QED  BY <2>2, <2>3, <2>4
  <1> QED  BY <1>2, <1>3 DEF ChannelOpened

\* The outcome of a port's handler: nothing has changed but that an accepted
\* client may have come and gone; or there is a context without a channel,
\* which no event reaches; or a channel and its context.
LEMMA PortHandlerOutcome ==
    ASSUME IInv, NEW p \in {SECURE, NON_SECURE}, NEW secure \in BOOLEAN,
           keymaster_port_handler(p, secure)
    PROVE  \E peer \in Peer :
           /\ Accepted(peer)
           /\ \/ /\ GoodTable(t') /\ t'.active = t.active /\ t'.cookie = t.cookie
                 /\ UNCHANGED ctxVars
              \/ \E c \in ChanCtx \ live :
                    /\ t' = t
                    /\ keymaster_ctx_open(c, INVALID_IPC_HANDLE, peer, secure)
                    /\ abandoned' = abandoned \cup {c}
              \/ \E c \in ChanCtx \ live : \E h \in Chan \ t.active :
                    /\ keymaster_port_accessible(peer, secure)
                    /\ GoodTable(t') /\ t'.active = t.active \cup {h}
                    /\ t'.cookie = [t.cookie EXCEPT ![h] = c]
                    /\ keymaster_ctx_open(c, h, peer, secure)
                    /\ abandoned' = abandoned
  <1>1. PICK r \in trusty_accept(t, ev.handle), peer \in Peer :
           /\ \/ r.rc < 0 /\ t' = r.tab /\ UNCHANGED ctxVars
              \/ r.rc >= 0 /\ RefuseClient(r.tab, r.rc)
              \/ /\ r.rc >= 0
                 /\ keymaster_port_accessible(peer, secure)
                 /\ \E c \in ChanCtx \ live : \E s \in set_cookie(r.tab, r.rc, c) :
                       \/ s.rc < 0 /\ RefuseClient(s.tab, r.rc)
                       \/ /\ s.rc >= 0
                          /\ t' = s.tab
                          /\ keymaster_ctx_open(c, r.rc, peer, secure)
                          /\ abandoned' = IF r.rc = INVALID_IPC_HANDLE
                                          THEN abandoned \cup {c} ELSE abandoned
           /\ Accepted(peer)
    BY DEF keymaster_port_handler
  <1>2. ChannelOpened(t, r.rc, r.tab)
    BY IInvGood, AcceptResult
  <1>3. CASE r.rc < 0 /\ t' = r.tab /\ UNCHANGED ctxVars
    <2>1. r.rc \notin Chan
      BY <1>3, HandleRanges DEF Chan
    <2>2. t' = t
      BY <1>2, <1>3, <2>1 DEF ChannelOpened
    <2> QED  BY <1>1, <1>3, <2>2, IInvGood
  <1>4. ASSUME RefuseClient(r.tab, r.rc)
        PROVE  /\ GoodTable(t') /\ t'.active = t.active /\ t'.cookie = t.cookie
               /\ UNCHANGED ctxVars
    BY <1>2, <1>4, RefuseEffect DEF RefuseClient
  <1>5. ASSUME NEW c \in ChanCtx \ live, NEW s \in set_cookie(r.tab, r.rc, c),
               s.rc < 0, RefuseClient(s.tab, r.rc)
        PROVE  RefuseClient(r.tab, r.rc)
    BY <1>5, CookieSetOrNot DEF NO_ERROR
  <1>6. ASSUME keymaster_port_accessible(peer, secure),
               NEW c \in ChanCtx \ live, NEW s \in set_cookie(r.tab, r.rc, c),
               s.rc >= 0, t' = s.tab,
               keymaster_ctx_open(c, r.rc, peer, secure),
               abandoned' = IF r.rc = INVALID_IPC_HANDLE
                            THEN abandoned \cup {c} ELSE abandoned
        PROVE  \/ /\ t' = t
                  /\ keymaster_ctx_open(c, INVALID_IPC_HANDLE, peer, secure)
                  /\ abandoned' = abandoned \cup {c}
               \/ \E h \in Chan \ t.active :
                    /\ GoodTable(t') /\ t'.active = t.active \cup {h}
                    /\ t'.cookie = [t.cookie EXCEPT ![h] = c]
                    /\ keymaster_ctx_open(c, h, peer, secure)
                    /\ abandoned' = abandoned
    <2>1. t' = trusty_set_cookie(r.tab, r.rc, c).tab
      BY <1>6, CookieSetOrNot DEF ERR_GENERIC
    <2>2. CASE r.rc = INVALID_IPC_HANDLE /\ r.tab = t
      BY <1>6, <2>1, <2>2, CookieInvalid
    <2>3. CASE /\ r.rc \in Chan /\ r.rc \notin t.active /\ GoodTable(r.tab)
               /\ r.tab.active = t.active \cup {r.rc} /\ r.tab.cookie = t.cookie
      <3>1. r.rc # INVALID_IPC_HANDLE /\ r.rc \in Handle
        BY <2>3, HandleFacts DEF Handle
      <3>2. c \in Cookie \cup {NULL}
        BY Handlers
      <3>3. /\ GoodTable(t') /\ t'.active = t.active \cup {r.rc}
            /\ t'.cookie = [t.cookie EXCEPT ![r.rc] = c]
        BY <2>1, <2>3, <3>1, <3>2, SetCookieResult
      <3> QED  BY <1>6, <2>3, <3>1, <3>3
    <2> QED  BY <1>2, <2>2, <2>3 DEF ChannelOpened
  <1>7. CASE \/ r.rc < 0 /\ t' = r.tab /\ UNCHANGED ctxVars
             \/ RefuseClient(r.tab, r.rc)
    BY <1>1, <1>3, <1>4, <1>7
  <1>8. CASE keymaster_port_accessible(peer, secure)
             /\ \E c \in ChanCtx \ live : \E s \in set_cookie(r.tab, r.rc, c) :
                   \/ s.rc < 0 /\ RefuseClient(s.tab, r.rc)
                   \/ /\ s.rc >= 0
                      /\ t' = s.tab
                      /\ keymaster_ctx_open(c, r.rc, peer, secure)
                      /\ abandoned' = IF r.rc = INVALID_IPC_HANDLE
                                      THEN abandoned \cup {c} ELSE abandoned
    <2>1. PICK c \in ChanCtx \ live : \E s \in set_cookie(r.tab, r.rc, c) :
                   \/ s.rc < 0 /\ RefuseClient(s.tab, r.rc)
                   \/ /\ s.rc >= 0
                      /\ t' = s.tab
                      /\ keymaster_ctx_open(c, r.rc, peer, secure)
                      /\ abandoned' = IF r.rc = INVALID_IPC_HANDLE
                                      THEN abandoned \cup {c} ELSE abandoned
      BY <1>8
    <2>2. PICK s \in set_cookie(r.tab, r.rc, c) :
                   \/ s.rc < 0 /\ RefuseClient(s.tab, r.rc)
                   \/ /\ s.rc >= 0
                      /\ t' = s.tab
                      /\ keymaster_ctx_open(c, r.rc, peer, secure)
                      /\ abandoned' = IF r.rc = INVALID_IPC_HANDLE
                                      THEN abandoned \cup {c} ELSE abandoned
      BY <2>1
    <2>3. CASE s.rc < 0 /\ RefuseClient(s.tab, r.rc)
      BY <1>5, <1>7, <2>3
    <2>4. CASE ~ (s.rc < 0 /\ RefuseClient(s.tab, r.rc))
      BY <1>1, <1>6, <1>8, <2>2, <2>4
    <2> QED  BY <2>3, <2>4
  <1> QED  BY <1>1, <1>7, <1>8

\* Each outcome of a port's handler keeps the invariant.
LEMMA PortHandlerStep ==
    ASSUME IInv, NEW p \in {SECURE, NON_SECURE}, NEW secure \in BOOLEAN,
           keymaster_port_handler(p, secure)
    PROVE  IInv'
  <1>1. /\ mode = "loop" /\ mode' = "loop" /\ UNCHANGED ports /\ ev' = NoEvent
    BY DEF keymaster_port_handler, Dispatching
  <1>2. PICK peer \in Peer :
           /\ Accepted(peer)
           /\ \/ /\ GoodTable(t') /\ t'.active = t.active /\ t'.cookie = t.cookie
                 /\ UNCHANGED ctxVars
              \/ \E c \in ChanCtx \ live :
                    /\ t' = t
                    /\ keymaster_ctx_open(c, INVALID_IPC_HANDLE, peer, secure)
                    /\ abandoned' = abandoned \cup {c}
              \/ \E c \in ChanCtx \ live : \E h \in Chan \ t.active :
                    /\ keymaster_port_accessible(peer, secure)
                    /\ GoodTable(t') /\ t'.active = t.active \cup {h}
                    /\ t'.cookie = [t.cookie EXCEPT ![h] = c]
                    /\ keymaster_ctx_open(c, h, peer, secure)
                    /\ abandoned' = abandoned
    BY PortHandlerOutcome
  <1>3. /\ client' \in [Chan -> Peer \cup {"none"}]
        /\ \A h \in Chan : (h \in t.active /\ h \in t'.active) => client'[h] = client[h]
    BY <1>2, AcceptedType
  <1>4. CASE /\ GoodTable(t') /\ t'.active = t.active /\ t'.cookie = t.cookie
             /\ UNCHANGED ctxVars
    BY <1>1, <1>3, <1>4, NothingMoves
  <1>5. ASSUME NEW c \in ChanCtx \ live, t' = t,
               keymaster_ctx_open(c, INVALID_IPC_HANDLE, peer, secure),
               abandoned' = abandoned \cup {c}
        PROVE  IInv'
    <2>1. InUse' = InUse
      BY <1>5 DEF IInv, TypeOK, InUse, keymaster_ctx_open
    <2>2. \A d \in InUse : /\ chan'[d] = chan[d] /\ uuid'[d] = uuid[d]
                           /\ dispatch'[d] = dispatch[d]
      BY <1>5 DEF IInv, TypeOK, InUse, keymaster_ctx_open
    <2>3. TypeOK'
      BY <1>1, <1>3, <1>5 DEF IInv, TypeOK, keymaster_ctx_open, ports, NoEvent
    <2>4. ClosedOnce' /\ NothingBeforeInit' /\ EventIsCurrent'
      BY <1>1, <1>5 DEF IInv, ClosedOnce, NothingBeforeInit, EventIsCurrent, NoEvent
    <2>5. PortsServed'
      BY <1>1, <1>5 DEF IInv, PortsServed, ports
    <2>6. ContextsAccounted'
      <3>1. t.active \cap Chan = {chan[d] : d \in InUse}
        BY DEF IInv, ContextsAccounted, InUse
      <3>2. t'.active \cap Chan = {chan'[d] : d \in InUse'}
        BY <1>5, <2>1, <2>2, <3>1
      <3>3. \A d \in InUse' : t'.cookie[chan'[d]] = d
        BY <1>5, <2>1, <2>2, OneContext
      <3> QED  BY <3>2, <3>3 DEF ContextsAccounted, InUse
    <2>7. ClientsKnown'
      BY <1>3, <1>5, <2>1, <2>2, OneContext DEF IInv, ClientsKnown
    <2> QED  BY <2>3, <2>4, <2>5, <2>6, <2>7 DEF IInv
  <1>6. ASSUME NEW c \in ChanCtx \ live, NEW h \in Chan \ t.active,
               keymaster_port_accessible(peer, secure),
               GoodTable(t'), t'.active = t.active \cup {h},
               t'.cookie = [t.cookie EXCEPT ![h] = c],
               keymaster_ctx_open(c, h, peer, secure), abandoned' = abandoned
        PROVE  IInv'
    BY <1>1, <1>2, <1>6, OneMore
  <1> QED  BY <1>2, <1>4, <1>5, <1>6

\* A message is answered or not, and retired or not: nothing is closed.
LEMMA MessageEffect ==
    ASSUME NEW tab, GoodTable(tab), NEW h \in Chan, NEW m \in handle_msg(tab, h)
    PROVE  GoodTable(m.tab) /\ SameHandles(tab, m.tab)
  <1> DEFINE Answers(g) ==
        LET r == trusty_read_msg(tab, h, g.id, 0, <<g.len>>)
        IN  {[rc  |-> IF r.rc < 0 THEN r.rc
                      ELSE IF r.rc < HEADER THEN ERR_GENERIC
                      ELSE NO_ERROR,
              tab |-> put.tab] : put \in trusty_put_msg(tab, h)}
  <1>1. PICK g \in trusty_get_msg(tab, h) :
           \/ m = [rc |-> NO_ERROR, tab |-> tab]
           \/ m = [rc |-> g.rc, tab |-> tab]
           \/ m \in Answers(g)
    BY DEF handle_msg
  <1>2. CASE \/ m = [rc |-> NO_ERROR, tab |-> tab]
             \/ m = [rc |-> g.rc, tab |-> tab]
    <2>1. m.tab = tab
      BY <1>2
    <2> QED  BY <2>1 DEF SameHandles
  <1>3. CASE m \in Answers(g)
    <2>1. PICK put \in trusty_put_msg(tab, h) : m.tab = put.tab
      BY <1>3
    <2> QED  BY <2>1, PutResult
  <1> QED  BY <1>1, <1>2, <1>3

\* The channel of an event is closed and its context lost or deleted, or the
\* event was a message that was answered.
LEMMA ChanHandlerOutcome ==
    ASSUME IInv, NEW c \in ChanCtx, keymaster_chan_handler(c)
    PROVE  /\ c \in InUse /\ ev.handle = chan[c]
           /\ GoodTable(t') /\ t'.cookie = t.cookie
           /\ \/ /\ t'.active = t.active /\ UNCHANGED ctxVars
                 /\ ev.event \cap {"ERROR", "READY", "HUP"} = {}
              \/ t'.active = t.active \ {chan[c]} /\ ChannelError(c)
              \/ t'.active = t.active \ {chan[c]} /\ \E u : keymaster_ctx_close(c, u)
  <1>1. c \in InUse /\ ev.handle = chan[c] /\ chan[c] \in Chan /\ chan[c] \in t.active
    BY ContextFound, OneContext DEF keymaster_chan_handler
  <1>2. GoodTable(t)
    BY IInvGood
  <1>3. CASE ev.event \cap {"ERROR", "READY"} # {}
    <2>1. ChannelError(c)
      BY <1>3 DEF keymaster_chan_handler
    <2>2. t' = trusty_close(t, chan[c]).tab
      BY <1>1, <2>1 DEF ChannelError, close
    <2>3. GoodTable(t') /\ t'.cookie = t.cookie /\ t'.active = t.active \ {chan[c]}
      BY <1>1, <1>2, <2>2, CloseResult
    <2> QED  BY <1>1, <2>1, <2>3
  <1>4. CASE ev.event \cap {"ERROR", "READY"} = {}
    <2>1. ChannelMessage(c)
      BY <1>4 DEF keymaster_chan_handler
    <2>2. PICK m \in IF "MSG" \in ev.event THEN handle_msg(t, chan[c])
                     ELSE {[rc |-> NO_ERROR, tab |-> t]} :
             \/ /\ m.rc # NO_ERROR \/ "HUP" \in ev.event
                /\ keymaster_ctx_close(c, m.tab)
             \/ /\ m.rc = NO_ERROR /\ "HUP" \notin ev.event
                /\ t' = m.tab
                /\ UNCHANGED ctxVars
      BY <2>1 DEF ChannelMessage
    <2>3. GoodTable(m.tab) /\ m.tab.active = t.active /\ m.tab.cookie = t.cookie
      <3>1. CASE "MSG" \in ev.event
        BY <1>1, <1>2, <2>2, <3>1, MessageEffect DEF SameHandles
      <3>2. CASE "MSG" \notin ev.event
        BY <1>2, <2>2, <3>2
      <3> QED  BY <3>1, <3>2
    <2>4. CASE keymaster_ctx_close(c, m.tab)
      <3>1. t' = trusty_close(m.tab, chan[c]).tab
        BY <2>4 DEF keymaster_ctx_close, close
      <3>2. chan[c] \in m.tab.active
        BY <1>1, <2>3
      <3>3. /\ GoodTable(t') /\ t'.cookie = m.tab.cookie
            /\ t'.active = m.tab.active \ {chan[c]}
        BY <2>3, <3>1, <3>2, CloseResult
      <3> QED  BY <1>1, <2>3, <2>4, <3>3
    <2>5. CASE "HUP" \notin ev.event /\ t' = m.tab /\ UNCHANGED ctxVars
      BY <1>1, <1>4, <2>3, <2>5
    <2> QED  BY <2>2, <2>4, <2>5
  <1> QED  BY <1>3, <1>4

\* Each outcome of a channel's handler keeps the invariant.
LEMMA ChanHandlerStep ==
    ASSUME IInv, NEW c \in ChanCtx, keymaster_chan_handler(c)
    PROVE  IInv'
  <1>1. /\ mode = "loop" /\ mode' = "loop" /\ UNCHANGED ports /\ ev' = NoEvent
        /\ Accepted("none")
    BY DEF keymaster_chan_handler, Dispatching
  <1>2. c \in InUse /\ GoodTable(t') /\ t'.cookie = t.cookie
    BY ChanHandlerOutcome
  <1>3. CASE t'.active = t.active /\ UNCHANGED ctxVars
    BY <1>1, <1>2, <1>3, AcceptedType, NothingMoves
  <1>4. CASE t'.active = t.active \ {chan[c]} /\ ChannelError(c)
    <2>1. /\ InUse' = InUse \ {c} /\ live' \subseteq live /\ abandoned' \subseteq live'
          /\ chan' = chan /\ dispatch' = dispatch /\ uuid' = uuid
      BY <1>2, <1>4 DEF IInv, TypeOK, InUse, ChannelError
    <2>2. /\ chan' \in [ChanCtx -> Chan \cup {INVALID_IPC_HANDLE}]
          /\ dispatch' \in [ChanCtx -> {"secure", "non_secure"}]
          /\ uuid' \in [ChanCtx -> Peer]
      BY <2>1 DEF IInv, TypeOK
    <2> QED  BY <1>1, <1>2, <1>4, <2>1, <2>2, OneLess
  <1>5. CASE t'.active = t.active \ {chan[c]} /\ \E u : keymaster_ctx_close(c, u)
    <2>1. /\ InUse' = InUse \ {c} /\ live' \subseteq live /\ abandoned' \subseteq live'
          /\ chan' \in [ChanCtx -> Chan \cup {INVALID_IPC_HANDLE}]
          /\ dispatch' \in [ChanCtx -> {"secure", "non_secure"}]
          /\ uuid' \in [ChanCtx -> Peer]
      BY <1>2, <1>5 DEF IInv, TypeOK, InUse, keymaster_ctx_close, Peer
    <2>2. \A d \in InUse \ {c} : /\ chan'[d] = chan[d] /\ uuid'[d] = uuid[d]
                                 /\ dispatch'[d] = dispatch[d]
      BY <1>2, <1>5 DEF IInv, TypeOK, InUse, keymaster_ctx_close
    <2> QED  BY <1>1, <1>2, <1>5, <2>1, <2>2, OneLess
  <1> QED  BY <1>3, <1>4, <1>5, ChanHandlerOutcome

\* The steps that end the loop touch nothing but mode.
LEMMA EndStep ==
    ASSUME IInv, mode' \in {"exited", "aborted"},
           UNCHANGED <<t, ev, ports, ctxVars, client>>
    PROVE  IInv'
  <1>1. TypeOK'
    BY DEF IInv, TypeOK, ports, ctxVars
  <1>2. ClosedOnce' /\ ContextsAccounted'
    BY DEF IInv, ClosedOnce, ContextsAccounted, ctxVars
  <1>3. PortsServed' /\ EventIsCurrent' /\ NothingBeforeInit'
    BY DEF PortsServed, EventIsCurrent, NothingBeforeInit
  <1>4. ClientsKnown'
    BY DEF IInv, ClientsKnown, InUse, ctxVars
  <1> QED  BY <1>1, <1>2, <1>3, <1>4 DEF IInv

\* A step that changes nothing keeps the invariant.
LEMMA StutterStep == ASSUME IInv, UNCHANGED vars PROVE IInv'
  <1>1. TypeOK' /\ ClosedOnce' /\ ContextsAccounted' /\ PortsServed'
    BY DEF vars, ports, ctxVars, IInv, TypeOK, ClosedOnce, ContextsAccounted, PortsServed
  <1>2. EventIsCurrent' /\ ClientsKnown' /\ NothingBeforeInit'
    BY DEF vars, ports, ctxVars, IInv, EventIsCurrent, ClientsKnown, InUse,
           NothingBeforeInit
  <1> QED  BY <1>1, <1>2 DEF IInv

\* Every step keeps the invariant, one case for each disjunct of Next.
LEMMA NextIInv == ASSUME IInv, [Next]_vars PROVE IInv'
  <1>1. CASE keymaster_ipc_init
    BY <1>1, InitStep
  <1>2. CASE WaitAny
    BY <1>2, WaitAnyStep
  <1>3. CASE WaitAnyFails
    BY <1>3, EndStep DEF WaitAnyFails
  <1>4. CASE DispatchNoHandler
    BY <1>4, DispatchNoHandlerStep
  <1>5. CASE handle_port_errors(SECURE) \/ handle_port_errors(NON_SECURE)
    BY <1>5, EndStep DEF handle_port_errors
  <1>6. CASE keymaster_port_handler(SECURE, TRUE)
    BY <1>6, PortHandlerStep
  <1>7. CASE keymaster_port_handler(NON_SECURE, FALSE)
    BY <1>7, PortHandlerStep
  <1>8. ASSUME NEW c \in ChanCtx, keymaster_chan_handler(c)
        PROVE  IInv'
    BY <1>8, ChanHandlerStep
  <1>9. CASE Terminated \/ UNCHANGED vars
    BY <1>9, StutterStep DEF Terminated
  <1> QED
    BY <1>1, <1>2, <1>3, <1>4, <1>5, <1>6, <1>7, <1>8, <1>9 DEF Next

\* The invariant holds in every reachable state.
LEMMA Invariance == Spec => []IInv
  BY InitIInv, NextIInv, PTL DEF Spec

-------------------------------------------------------------------------------
(* The theorems.                                                           *)

\* The state of the server has its type, for every table, set of contexts and
\* message length.
THEOREM KeymasterTypeOK == Spec => []TypeOK
  <1>1. IInv => TypeOK
    BY DEF IInv
  <1> QED  BY <1>1, Invariance, PTL

\* Open channels and contexts in use correspond one to one through the cookies
\* (keymaster_port_handler, keymaster_chan_handler): a context is lost only by
\* an error event or by a failed accept whose handle is not negative.
THEOREM KeymasterContextsAccounted == Spec => []ContextsAccounted
  <1>1. IInv => ContextsAccounted
    BY DEF IInv
  <1> QED  BY <1>1, Invariance, PTL

\* dispatch_event invokes the handler that the event's handle belongs to, with
\* a context in use of that channel, and the handle is open.
THEOREM KeymasterDispatchSound == Spec => []DispatchSound
  <1>1. ASSUME IInv PROVE DispatchSound
    BY <1>1, EventGiven, EventFound DEF DispatchSound, InUse
  <1> QED  BY <1>1, Invariance, PTL

\* No path of the handlers closes a handle twice or leaves it counted: the
\* counters of the table stay those of the handles that are open.
THEOREM KeymasterClosedOnce == Spec => []ClosedOnce
  <1>1. IInv => ClosedOnce
    BY DEF IInv
  <1> QED  BY <1>1, Invariance, PTL

\* Both ports stay open, with their own handlers, for as long as the loop runs.
THEOREM KeymasterPortsServed == Spec => []PortsServed
  <1>1. IInv => PortsServed
    BY DEF IInv
  <1> QED  BY <1>1, Invariance, PTL

\* The context an event finds is that of the client connected there now, and
\* only the gatekeeper's dispatches to keymaster_dispatch_secure.
THEOREM KeymasterSecureIsGatekeeper == Spec => []SecureIsGatekeeper
  <1>1. ASSUME IInv PROVE SecureIsGatekeeper
    <2> SUFFICES ASSUME mode = "loop", ev.event # {}, ev.handle \in Chan
                 PROVE  /\ ev.cookie \in live
                        /\ uuid[ev.cookie] = client[ev.handle]
                        /\ dispatch[ev.cookie] = "secure"
                              => client[ev.handle] = "gatekeeper"
      BY DEF SecureIsGatekeeper
    <2>1. ev # NoEvent
      BY <1>1, EventGiven
    <2>2. ev.handle \notin {port_secure, port_non_secure}
      BY <1>1, HandleFacts DEF IInv, PortsServed
    <2>3. ev.cookie \in InUse /\ chan[ev.cookie] = ev.handle
      BY <1>1, <2>1, <2>2, EventFound
    <2> QED  BY <1>1, <2>3 DEF IInv, ClientsKnown, InUse
  <1> QED  BY <1>1, Invariance, PTL

\* After an error or a hang-up the channel is closed, whatever else the event
\* carries and whatever became of its message (keymaster_chan_handler).
THEOREM KeymasterGoneIsClosed == Spec => GoneIsClosed
  <1>1. ASSUME IInv, [Next]_vars
        PROVE  [ (/\ mode = "loop" /\ ev.handle \in Chan /\ ev' = NoEvent
                  /\ ev.event \cap {"ERROR", "READY", "HUP"} # {})
                 => ev.handle \notin t'.active ]_<<t, ev>>
    <2> SUFFICES ASSUME mode = "loop", ev.handle \in Chan, ev' = NoEvent,
                        ev.event \cap {"ERROR", "READY", "HUP"} # {}
                 PROVE  ev.handle \notin t'.active
      OBVIOUS
    <2>1. ev.event # {} /\ ev # NoEvent /\ ev' # ev
      BY EventGiven
    <2>2. ~ keymaster_ipc_init /\ ~ WaitAny
      BY <2>1 DEF keymaster_ipc_init, WaitAny
    <2>3. /\ ~ WaitAnyFails /\ ~ Terminated /\ ~ UNCHANGED vars
          /\ ~ handle_port_errors(SECURE) /\ ~ handle_port_errors(NON_SECURE)
      BY <2>1 DEF WaitAnyFails, Terminated, vars, handle_port_errors
    <2>4. ~ DispatchNoHandler
      BY <1>1, <2>1, NoHandlerOnlyEmpty
    <2>5. /\ ~ keymaster_port_handler(SECURE, TRUE)
          /\ ~ keymaster_port_handler(NON_SECURE, FALSE)
      <3>1. ev.handle \notin Port
        BY HandleFacts
      <3> QED  BY <1>1, <3>1, PortFound DEF keymaster_port_handler
    <2>6. PICK c \in ChanCtx : keymaster_chan_handler(c)
      BY <1>1, <2>2, <2>3, <2>4, <2>5 DEF Next
    <2>7. ev.handle = chan[c] /\ t'.active = t.active \ {chan[c]}
      BY <1>1, <2>6, ChanHandlerOutcome
    <2> QED  BY <2>7
  <1> QED  BY <1>1, Invariance, PTL DEF Spec, GoneIsClosed

\* A step that handles the event of one handle leaves the contexts, channels
\* and clients of the others as they were.
THEOREM KeymasterIsolation == Spec => Isolation
  <1>1. ASSUME IInv, [Next]_vars
        PROVE  [ (mode = "loop" /\ ev # NoEvent) =>
                   \A c \in live \ abandoned : chan[c] # ev.handle =>
                      /\ c \in live' \ abandoned'
                      /\ chan'[c] = chan[c] /\ chan[c] \in t'.active
                      /\ uuid'[c] = uuid[c] /\ dispatch'[c] = dispatch[c] ]_vars
    <2> SUFFICES ASSUME Next, mode = "loop", ev # NoEvent,
                        NEW c \in InUse, chan[c] # ev.handle
                 PROVE  /\ c \in InUse'
                        /\ chan'[c] = chan[c] /\ chan[c] \in t'.active
                        /\ uuid'[c] = uuid[c] /\ dispatch'[c] = dispatch[c]
      BY <1>1 DEF InUse
    <2>0. chan[c] \in t.active /\ c \in ChanCtx /\ c \in live /\ c \notin abandoned
      BY <1>1, OneContext DEF InUse
    <2>1. ~ keymaster_ipc_init /\ ~ WaitAny /\ ~ WaitAnyFails /\ ~ Terminated
      BY DEF keymaster_ipc_init, WaitAny, WaitAnyFails, Terminated
    <2>2. CASE UNCHANGED <<t, ctxVars>>
      BY <2>0, <2>2 DEF ctxVars, InUse
    <2>3. CASE DispatchNoHandler
      BY <1>1, <2>2, <2>3, NoHandlerOnlyEmpty DEF DispatchNoHandler
    <2>4. CASE handle_port_errors(SECURE) \/ handle_port_errors(NON_SECURE)
      BY <2>2, <2>4 DEF handle_port_errors
    <2>5. ASSUME NEW p \in {SECURE, NON_SECURE}, NEW secure \in BOOLEAN,
                 keymaster_port_handler(p, secure)
          PROVE  /\ c \in InUse'
                 /\ chan'[c] = chan[c] /\ chan[c] \in t'.active
                 /\ uuid'[c] = uuid[c] /\ dispatch'[c] = dispatch[c]
      <3>1. \/ t'.active = t.active /\ UNCHANGED ctxVars
            \/ \E d \in ChanCtx \ live : \E h, peer :
                  /\ t' = t \/ t'.active = t.active \cup {h}
                  /\ keymaster_ctx_open(d, h, peer, secure)
                  /\ abandoned' = abandoned \cup {d} \/ abandoned' = abandoned
        BY <1>1, <2>5, PortHandlerOutcome
      <3>2. CASE t'.active = t.active /\ UNCHANGED ctxVars
        BY <2>0, <3>2 DEF ctxVars, InUse
      <3>3. ASSUME NEW d \in ChanCtx \ live, NEW h, NEW peer,
                   t' = t \/ t'.active = t.active \cup {h},
                   keymaster_ctx_open(d, h, peer, secure),
                   abandoned' = abandoned \cup {d} \/ abandoned' = abandoned
            PROVE  /\ c \in InUse'
                   /\ chan'[c] = chan[c] /\ chan[c] \in t'.active
                   /\ uuid'[c] = uuid[c] /\ dispatch'[c] = dispatch[c]
        <4>1. c # d
          BY <2>0
        <4>2. c \in live' /\ c \notin abandoned' /\ chan[c] \in t'.active
          BY <2>0, <3>3, <4>1 DEF keymaster_ctx_open
        <4>3. chan'[c] = chan[c] /\ uuid'[c] = uuid[c] /\ dispatch'[c] = dispatch[c]
          BY <1>1, <2>0, <3>3, <4>1 DEF keymaster_ctx_open, IInv, TypeOK
        <4> QED  BY <4>2, <4>3 DEF InUse
      <3> QED  BY <3>1, <3>2, <3>3
    <2>6. ASSUME NEW d \in ChanCtx, keymaster_chan_handler(d)
          PROVE  /\ c \in InUse'
                 /\ chan'[c] = chan[c] /\ chan[c] \in t'.active
                 /\ uuid'[c] = uuid[c] /\ dispatch'[c] = dispatch[c]
      <3>1. ev.handle = chan[d] /\ chan[c] # chan[d] /\ c # d
        BY <1>1, <2>6, ChanHandlerOutcome
      <3>2. chan[c] \in t'.active
        BY <1>1, <2>0, <2>6, <3>1, ChanHandlerOutcome
      <3>3. UNCHANGED ctxVars \/ ChannelError(d) \/ \E u : keymaster_ctx_close(d, u)
        BY <1>1, <2>6, ChanHandlerOutcome
      <3>4. /\ c \in live' /\ c \notin abandoned'
            /\ chan'[c] = chan[c] /\ uuid'[c] = uuid[c] /\ dispatch'[c] = dispatch[c]
        BY <1>1, <2>0, <3>1, <3>3
        DEF ctxVars, ChannelError, keymaster_ctx_close, IInv, TypeOK
      <3> QED  BY <3>2, <3>4 DEF InUse
    <2> QED  BY <2>1, <2>3, <2>4, <2>5, <2>6 DEF Next
  <1> QED  BY <1>1, Invariance, PTL DEF Spec, Isolation

===============================================================================
