--------------------------- MODULE StorageIpcProofs ---------------------------
(***************************************************************************)
(* The safety properties of StorageIpc for any number of ports, channels   *)
(* and contexts, all flags, paths, buffer sizes and messages.              *)
(***************************************************************************)
EXTENDS StorageIpc, TrustySyscallsProofs

\* The event that was fetched is that of a context that exists; outside
\* ipc_loop there is none.
EventSound ==
    /\ mode \in {"setup", "teardown", "exited"} => ev = NoEvent
    /\ (mode = "loop" /\ ev # NoEvent) =>
          \/ ev.cookie \in up   /\ portHandle[ev.cookie] = ev.handle
          \/ ev.cookie \in live /\ chanHandle[ev.cookie] = ev.handle

\* ipc_port_destroy has taken its port out of the ports that are up.
DestroyingIsDown ==
    destroying # NULL => mode = "teardown" /\ destroying \notin up

\* A context that is down names no open handle; during the set-up it names none.
DownIsClosed ==
    \A p \in PortCtx : p \notin up =>
        /\ portHandle[p] \notin t.active
        /\ mode = "setup" => portHandle[p] = INVALID_IPC_HANDLE

\* While a port is up the buffer holds a message of the largest size.
BufferIsLarge ==
    /\ up # {} => MSG_BUF_MAX_SIZE <= msg_buf_size
    /\ MsgFitsBuffer

IInv ==
    /\ TypeOK
    /\ ClosedOnce
    /\ PortsMatch
    /\ ChannelsMatch
    /\ ListsHoldLive
    /\ EventSound
    /\ DestroyingIsDown
    /\ DownIsClosed
    /\ BufferIsLarge

LEMMA Distinct ==
    /\ NULL \notin PortCtx /\ NULL \notin ChanCtx
    /\ PortCtx \cap ChanCtx = {}
    /\ PortCtx \subseteq Cookie /\ ChanCtx \subseteq Cookie
    /\ Port \cap Chan = {}
    /\ INVALID_IPC_HANDLE \notin Port /\ INVALID_IPC_HANDLE \notin Chan
  BY Contexts, NullIsNoCookie, HandleFacts DEF Handle

LEMMA IInvGood == ASSUME IInv PROVE GoodTable(t) /\ t.active \subseteq Handle
  BY DEF IInv, TypeOK, ClosedOnce, GoodTable, Table

LEMMA InitIInv == ASSUME Init PROVE IInv
  <1>1. TypeOK
    BY InitTableType DEF Init, TypeOK, NoEvent
  <1>2. ClosedOnce
    BY InitTableCounts DEF Init, ClosedOnce
  <1>3. PortsMatch /\ ChannelsMatch /\ DownIsClosed
    BY DEF Init, PortsMatch, ChannelsMatch, DownIsClosed, InitTable
  <1>4. ListsHoldLive /\ EventSound /\ DestroyingIsDown
    BY DEF Init, ListsHoldLive, EventSound, DestroyingIsDown
  <1>5. BufferIsLarge
    BY DEF Init, BufferIsLarge, MsgFitsBuffer
  <1> QED  BY <1>1, <1>2, <1>3, <1>4, <1>5 DEF IInv

-------------------------------------------------------------------------------
(* The calls of the server.                                                *)

\* u has the open handles of tab, with their cookies.
SameOpen(tab, u) ==
    /\ GoodTable(u)
    /\ u.active = tab.active
    /\ \A h \in tab.active : u.cookie[h] = tab.cookie[h]

\* u has one open handle more than tab, h with the given cookie.
Opened(tab, u, h, cookie) ==
    /\ GoodTable(u)
    /\ h \notin tab.active
    /\ u.active = tab.active \cup {h}
    /\ u.cookie[h] = cookie
    /\ \A k \in tab.active : u.cookie[k] = tab.cookie[k]

\* u has lost the open handle h of tab.
Closed(tab, u, h) ==
    /\ GoodTable(u)
    /\ u.active = tab.active \ {h}
    /\ \A k \in tab.active : u.cookie[k] = tab.cookie[k]

\* set_cookie on a handle that was just opened, and close when it failed or
\* when a later step of the caller did.
LEMMA SetCookieOnNew ==
    ASSUME NEW tab, GoodTable(tab), NEW h \in Handle, h \notin tab.active,
           NEW v, GoodTable(v), v.active = tab.active \cup {h},
           v.cookie = tab.cookie, NEW cookie \in Cookie,
           NEW s \in set_cookie(v, h, cookie)
    PROVE  /\ s.rc >= 0 => Opened(tab, s.tab, h, cookie)
           /\ SameOpen(tab, close(s.tab, h))
  <1>1. v.cookie \in [Handle -> Cookie \cup {NULL}] /\ tab.active \subseteq Handle
    BY DEF GoodTable, Table
  <1>2. /\ GoodTable(s.tab)
        /\ s.tab.active = tab.active \cup {h}
        /\ s.rc >= 0 => s.tab.cookie[h] = cookie
        /\ \A k \in tab.active : s.tab.cookie[k] = tab.cookie[k]
    <2>1. CASE s = trusty_set_cookie(v, h, cookie)
      <3> DEFINE u == trusty_set_cookie(v, h, cookie).tab
      <3>1. /\ GoodTable(u)
            /\ u.active = v.active
            /\ u.cookie = [v.cookie EXCEPT ![h] = cookie]
        BY SetCookieResult
      <3>2. s.tab = u
        BY <2>1
      <3> HIDE DEF u
      <3> QED  BY <1>1, <3>1, <3>2
    <2>2. CASE s = [rc |-> ERR_GENERIC, tab |-> v]
      <3>1. s.tab = v /\ ~(s.rc >= 0)
        BY <2>2 DEF ERR_GENERIC
      <3> QED  BY <3>1
    <2> QED  BY <2>1, <2>2 DEF set_cookie
  <1>3. SameOpen(tab, close(s.tab, h))
    <2> DEFINE u == trusty_close(s.tab, h).tab
    <2>1. h \in s.tab.active
      BY <1>2
    <2>2. /\ GoodTable(u)
          /\ u.active = s.tab.active \ {h}
          /\ u.cookie = s.tab.cookie
      BY <1>2, <2>1, CloseResult
    <2>3. close(s.tab, h) = u
      BY DEF close
    <2> HIDE DEF u
    <2> QED  BY <1>2, <2>2, <2>3 DEF SameOpen
  <1> QED  BY <1>2, <1>3 DEF Opened

LEMMA CloseOpen ==
    ASSUME NEW tab, NEW v, SameOpen(tab, v), NEW h \in v.active
    PROVE  Closed(tab, close(v, h), h)
  <1> DEFINE u == trusty_close(v, h).tab
  <1>1. /\ GoodTable(u)
        /\ u.active = v.active \ {h}
        /\ u.cookie = v.cookie
    BY CloseResult DEF SameOpen
  <1>2. close(v, h) = u
    BY DEF close
  <1> HIDE DEF u
  <1> QED  BY <1>1, <1>2 DEF Closed, SameOpen

-------------------------------------------------------------------------------
(* What the open handles must do for the invariant to survive a step.       *)

\* The conjuncts that speak of the table.
TableInv ==
    /\ t \in Table
    /\ ClosedOnce
    /\ PortsMatch
    /\ ChannelsMatch
    /\ DownIsClosed

LEMMA IInvTable == ASSUME IInv PROVE TableInv
  BY DEF IInv, TypeOK, TableInv

\* The addresses and handles of the contexts.
LEMMA ContextTypes ==
    ASSUME IInv
    PROVE  /\ up \subseteq PortCtx /\ live \subseteq ChanCtx
           /\ portHandle \in [PortCtx -> Port \cup {INVALID_IPC_HANDLE}]
           /\ chanHandle \in [ChanCtx -> Chan \cup {INVALID_IPC_HANDLE}]
           /\ channels \in [PortCtx -> SUBSET ChanCtx]
           /\ readers \subseteq ChanCtx
           /\ \A p \in up : portHandle[p] \in t.active
           /\ \A c \in live : chanHandle[c] \in t.active
  BY DEF IInv, TypeOK, PortsMatch, ChannelsMatch

LEMMA OpenKept ==
    ASSUME IInv, SameOpen(t, t'), UNCHANGED <<up, portHandle, live, chanHandle>>,
           mode' = "setup" => mode = "setup"
    PROVE  TableInv'
  <1>1. t' \in Table /\ ClosedOnce'
    BY DEF SameOpen, GoodTable, ClosedOnce
  <1>2. PortsMatch'
    BY IInvTable, ContextTypes DEF TableInv, PortsMatch, SameOpen
  <1>3. ChannelsMatch'
    BY IInvTable, ContextTypes DEF TableInv, ChannelsMatch, SameOpen
  <1>4. DownIsClosed'
    BY IInvTable DEF TableInv, DownIsClosed, SameOpen
  <1> QED  BY <1>1, <1>2, <1>3, <1>4 DEF TableInv

\* A step that opens and closes nothing.
LEMMA QuietStep ==
    ASSUME IInv, SameOpen(t, t'), UNCHANGED <<ctxVars, bufVars>>,
           mode' \in {"setup", "loop", "teardown", "exited", "aborted"},
           mode' = "setup" => mode = "setup", destroying = NULL \/ mode' = mode,
           ev' \in [handle : Handle \cup {INVALID_IPC_HANDLE}, event : SUBSET Event,
                    cookie : Cookie \cup {NULL}],
           EventSound'
    PROVE  IInv'
  <1>1. TableInv'
    BY OpenKept DEF ctxVars
  <1>2. TypeOK'
    BY <1>1 DEF IInv, TypeOK, TableInv, ctxVars, bufVars
  <1>3. ListsHoldLive'
    BY DEF IInv, ListsHoldLive, ctxVars
  <1>4. DestroyingIsDown'
    BY DEF IInv, DestroyingIsDown, ctxVars
  <1>5. BufferIsLarge'
    BY DEF IInv, BufferIsLarge, MsgFitsBuffer, ctxVars, bufVars
  <1> QED  BY <1>1, <1>2, <1>3, <1>4, <1>5 DEF IInv, TableInv

\* A port that ipc_port_create opened.
LEMMA PortOpened ==
    ASSUME IInv, mode = "setup", NEW p \in PortCtx, p \notin up, NEW h \in Port,
           Opened(t, t', h, p), up' = up \cup {p},
           portHandle' = [portHandle EXCEPT ![p] = h],
           UNCHANGED <<mode, live, chanHandle>>
    PROVE  TableInv'
  <1>1. t' \in Table /\ ClosedOnce'
    BY DEF Opened, GoodTable, ClosedOnce
  <1>2. portHandle'[p] = h /\ \A q \in PortCtx \ {p} : portHandle'[q] = portHandle[q]
    BY ContextTypes
  <1>3. PortsMatch'
    <2>1. \A q \in up : portHandle'[q] = portHandle[q]
      BY <1>2, ContextTypes
    <2>2. {portHandle'[q] : q \in up'} = {portHandle[q] : q \in up} \cup {h}
      BY <1>2, <2>1
    <2>3. \A q \in up' : t'.cookie[portHandle'[q]] = q
      BY <1>2, <2>1, IInvTable, ContextTypes DEF TableInv, PortsMatch, Opened
    <2> QED  BY <2>2, <2>3, IInvTable DEF TableInv, PortsMatch, Opened
  <1>4. ChannelsMatch'
    BY IInvTable, ContextTypes, Distinct DEF TableInv, ChannelsMatch, Opened
  <1>5. DownIsClosed'
    <2>1. ASSUME NEW q \in PortCtx, q \notin up'
          PROVE  portHandle'[q] = INVALID_IPC_HANDLE
      BY <1>2, <2>1, IInvTable DEF TableInv, DownIsClosed
    <2>2. INVALID_IPC_HANDLE \notin t'.active
      BY <1>1, HandleFacts DEF Table
    <2> QED  BY <2>1, <2>2 DEF DownIsClosed
  <1> QED  BY <1>1, <1>3, <1>4, <1>5 DEF TableInv


\* A port that ipc_port_destroy closes.
LEMMA PortClosed ==
    ASSUME IInv, NEW p \in up, Closed(t, t', portHandle[p]), up' = up \ {p},
           mode' # "setup", UNCHANGED <<portHandle, live, chanHandle>>
    PROVE  TableInv'
  <1>1. t' \in Table /\ ClosedOnce'
    BY DEF Closed, GoodTable, ClosedOnce
  <1>2. \A q \in up : q # p => portHandle[q] # portHandle[p]
    BY IInvTable DEF TableInv, PortsMatch
  <1>3. PortsMatch'
    <2>1. {portHandle[q] : q \in up'} = {portHandle[q] : q \in up} \ {portHandle[p]}
      BY <1>2
    <2>2. t'.active \cap Port = (t.active \cap Port) \ {portHandle[p]}
      BY DEF Closed
    <2>3. \A q \in up' : t'.cookie[portHandle[q]] = q
      BY IInvTable, ContextTypes DEF TableInv, PortsMatch, Closed
    <2> QED  BY <2>1, <2>2, <2>3, IInvTable DEF TableInv, PortsMatch
  <1>4. ChannelsMatch'
    <2>1. portHandle[p] \notin Chan
      BY ContextTypes, Distinct
    <2> QED  BY <2>1, IInvTable, ContextTypes DEF TableInv, ChannelsMatch, Closed
  <1>5. DownIsClosed'
    BY IInvTable DEF TableInv, DownIsClosed, Closed
  <1> QED  BY <1>1, <1>3, <1>4, <1>5 DEF TableInv

\* A connection that do_connect opened.
LEMMA ChannelOpen ==
    ASSUME IInv, NEW c \in ChanCtx, c \notin live, NEW h \in Chan,
           Opened(t, t', h, c), live' = live \cup {c},
           chanHandle' = [chanHandle EXCEPT ![c] = h],
           UNCHANGED <<mode, up, portHandle>>
    PROVE  TableInv'
  <1>1. t' \in Table /\ ClosedOnce'
    BY DEF Opened, GoodTable, ClosedOnce
  <1>2. chanHandle'[c] = h /\ \A d \in live : chanHandle'[d] = chanHandle[d]
    BY ContextTypes
  <1>3. ChannelsMatch'
    <2>1. {chanHandle'[d] : d \in live'} = {chanHandle[d] : d \in live} \cup {h}
      BY <1>2
    <2>2. \A d \in live' : t'.cookie[chanHandle'[d]] = d
      BY <1>2, IInvTable, ContextTypes DEF TableInv, ChannelsMatch, Opened
    <2> QED  BY <2>1, <2>2, IInvTable DEF TableInv, ChannelsMatch, Opened
  <1>4. PortsMatch'
    BY IInvTable, ContextTypes, Distinct DEF TableInv, PortsMatch, Opened
  <1>5. DownIsClosed'
    BY IInvTable, ContextTypes, Distinct DEF TableInv, DownIsClosed, Opened
  <1> QED  BY <1>1, <1>3, <1>4, <1>5 DEF TableInv

\* A connection that is closed: by handle_channel or by ipc_port_destroy.
LEMMA ChannelClosed ==
    ASSUME IInv, NEW c \in live, Closed(t, t', chanHandle[c]),
           live' = live \ {c},
           chanHandle' = [chanHandle EXCEPT ![c] = INVALID_IPC_HANDLE],
           UNCHANGED <<mode, up, portHandle>>
    PROVE  TableInv'
  <1>1. t' \in Table /\ ClosedOnce'
    BY DEF Closed, GoodTable, ClosedOnce
  <1>2. \A d \in live' : chanHandle'[d] = chanHandle[d] /\ chanHandle[d] # chanHandle[c]
    BY IInvTable, ContextTypes DEF TableInv, ChannelsMatch
  <1>3. ChannelsMatch'
    <2>1. {chanHandle'[d] : d \in live'} = {chanHandle[d] : d \in live} \ {chanHandle[c]}
      BY <1>2
    <2>2. t'.active \cap Chan = (t.active \cap Chan) \ {chanHandle[c]}
      BY DEF Closed
    <2>3. \A d \in live' : t'.cookie[chanHandle'[d]] = d
      BY <1>2, IInvTable, ContextTypes DEF TableInv, ChannelsMatch, Closed
    <2> QED  BY <2>1, <2>2, <2>3, IInvTable DEF TableInv, ChannelsMatch
  <1>4. PortsMatch'
    <2>1. chanHandle[c] \notin Port
      BY ContextTypes, Distinct
    <2> QED  BY <2>1, IInvTable, ContextTypes DEF TableInv, PortsMatch, Closed
  <1>5. DownIsClosed'
    BY IInvTable DEF TableInv, DownIsClosed, Closed
  <1> QED  BY <1>1, <1>3, <1>4, <1>5 DEF TableInv

\* What FreeContext does to the lists.
LEMMA ListsAfterFree ==
    ASSUME IInv, NEW p \in PortCtx, NEW c \in channels[p], FreeContext(c, p),
           UNCHANGED <<up, destroying>>
    PROVE  /\ c \in live
           /\ ListsHoldLive'
           /\ live' \subseteq ChanCtx
           /\ channels' \in [PortCtx -> SUBSET ChanCtx]
           /\ chanHandle' \in [ChanCtx -> Chan \cup {INVALID_IPC_HANDLE}]
           /\ readers' \subseteq ChanCtx
  <1>1. c \in live /\ c \in ChanCtx
    BY ContextTypes DEF IInv, ListsHoldLive
  <1>2. /\ live' \subseteq ChanCtx
        /\ channels' \in [PortCtx -> SUBSET ChanCtx]
        /\ chanHandle' \in [ChanCtx -> Chan \cup {INVALID_IPC_HANDLE}]
        /\ readers' \subseteq ChanCtx
    BY <1>1, ContextTypes DEF FreeContext
  <1>3. /\ channels'[p] = channels[p] \ {c}
        /\ \A q \in PortCtx : q # p => channels'[q] = channels[q]
    BY ContextTypes DEF FreeContext
  <1>4. \A q \in PortCtx : q # p => c \notin channels[q]
    BY DEF IInv, ListsHoldLive
  <1>5. live' = UNION {channels'[q] : q \in PortCtx}
    <2>1. live' = (UNION {channels[q] : q \in PortCtx}) \ {c}
      BY DEF IInv, ListsHoldLive, FreeContext
    <2>2. \A q \in PortCtx : channels'[q] = channels[q] \ {c}
      BY <1>3, <1>4
    <2> QED  BY <2>1, <2>2
  <1>6. ListsHoldLive'
    BY <1>3, <1>5 DEF IInv, ListsHoldLive
  <1> QED  BY <1>1, <1>2, <1>6


-------------------------------------------------------------------------------
(* What do_handle_msg leads to.                                            *)

LEMMA SameHandlesOpen ==
    ASSUME NEW tab, NEW u, GoodTable(u), SameHandles(tab, u)
    PROVE  SameOpen(tab, u)
  BY DEF SameHandles, SameOpen

LEMMA GoodIsSame == ASSUME NEW tab, GoodTable(tab) PROVE SameOpen(tab, tab)
  BY DEF SameOpen

\* read_msg with one buffer stores no more than the buffer's length.
LEMMA ReadOneBuffer ==
    ASSUME NEW tab \in Table, NEW h \in Chan, NEW id, NEW len \in Nat
    PROVE  /\ trusty_read_msg(tab, h, id, 0, <<len>>).stored[1] \in Nat
           /\ trusty_read_msg(tab, h, id, 0, <<len>>).stored[1] <= len
  <1>1. DOMAIN <<len>> = {1} /\ <<len>>[1] = len
    OBVIOUS
  <1>2. tab.msg_len[h] \in Nat
    BY DEF Table
  <1>3. trusty_read_msg(tab, h, id, 0, <<len>>)
          \in {[rc |-> ERR_GENERIC, stored |-> <<0, 0>>],
               [rc |-> tab.msg_len[h] - 0, stored |-> <<tab.msg_len[h] - 0, 0>>],
               [rc |-> len, stored |-> <<len, 0>>]}
    BY <1>1 DEF trusty_read_msg, sea_ht_get_msg_len
  <1>4. tab.msg_len[h] - 0 >= len =>
          trusty_read_msg(tab, h, id, 0, <<len>>)
            \in {[rc |-> ERR_GENERIC, stored |-> <<0, 0>>],
                 [rc |-> len, stored |-> <<len, 0>>]}
    BY <1>1, <1>2 DEF trusty_read_msg, sea_ht_get_msg_len
  <1> QED  BY <1>2, <1>3, <1>4

\* What a handled message leaves behind: the same handles open, and no more
\* than MSG_BUF_MAX_SIZE bytes in the buffer.
MsgOutcome(tab, m) ==
    /\ GoodTable(m.tab)
    /\ SameHandles(tab, m.tab)
    /\ m.wrote \in Nat
    /\ m.wrote <= MSG_BUF_MAX_SIZE

\* Whatever sync_ipc_send_msg does on a channel, only messages change.
Kept(tab, u) == GoodTable(u) /\ SameHandles(tab, u)

LEMMA KeptTrans ==
    ASSUME NEW tab, NEW u, NEW v, Kept(tab, u), Kept(u, v)
    PROVE  Kept(tab, v)
  BY DEF Kept, SameHandles

LEMMA PutKeeps ==
    ASSUME NEW tab, GoodTable(tab), NEW h \in Chan, NEW put \in trusty_put_msg(tab, h)
    PROVE  Kept(tab, put.tab)
  BY PutResult DEF Kept

LEMMA WaitKeeps ==
    ASSUME NEW tab, GoodTable(tab), NEW h \in Chan, NEW w \in wait(tab, h)
    PROVE  Kept(tab, w.tab)
  <1>1. CASE w.tab = tab
    BY <1>1 DEF Kept, SameHandles
  <1>2. ASSUME NEW bits \in SyncBits, NEW id \in MsgId, NEW len \in MsgLen,
               w.tab = EventOn(tab, h, bits, id, len).tab
        PROVE  Kept(tab, w.tab)
    <2>1. id \in Nat /\ len \in Nat /\ h \in Handle
      BY SyncConstants DEF Handle
    <2> DEFINE e == EventOn(tab, h, bits, id, len)
    <2>2. GoodTable(e.tab) /\ SameHandles(tab, e.tab)
      BY <2>1, EventResult
    <2>3. w.tab = e.tab
      BY <1>2
    <2> HIDE DEF e
    <2> QED  BY <2>2, <2>3 DEF Kept
  <1> QED  BY <1>1, <1>2 DEF wait

LEMMA SendKeeps ==
    ASSUME NEW tab, GoodTable(tab), NEW h \in Chan, NEW tx,
           NEW r \in SendRequest(tab, h, tx)
    PROVE  Kept(tab, r.tab)
  <1>1. r.tab = tab \/ r \in wait_to_send(tab, h, tx)
    BY DEF SendRequest
  <1>2. CASE r.tab = tab
    BY <1>2 DEF Kept, SameHandles
  <1>3. CASE r \in wait_to_send(tab, h, tx)
    <2>1. PICK w \in wait(tab, h) : r.tab = w.tab
      BY <1>3 DEF wait_to_send
    <2> QED  BY <2>1, WaitKeeps
  <1> QED  BY <1>1, <1>2, <1>3

LEMMA AwaitKeeps ==
    ASSUME NEW s, GoodTable(s.tab), NEW h \in Chan, NEW a \in await_response(s, h)
    PROVE  Kept(s.tab, a.tab)
  <1>1. PICK w \in wait(s.tab, h) : a.tab = w.tab
    BY DEF await_response
  <1> QED  BY <1>1, WaitKeeps

LEMMA ReadKeeps ==
    ASSUME NEW a, GoodTable(a.tab), NEW h \in Chan, NEW rx,
           NEW r \in read_response(a, h, rx)
    PROVE  Kept(a.tab, r.tab)
  <1>1. PICK put \in trusty_put_msg(a.tab, h) : r.tab = put.tab
    BY DEF read_response, Retired
  <1> QED  BY <1>1, PutKeeps

LEMMA SyncKeeps ==
    ASSUME NEW tab, GoodTable(tab), NEW h \in Chan, NEW tx, NEW rx,
           NEW r \in sync_ipc_send_msg(tab, h, tx, rx)
    PROVE  Kept(tab, r.tab)
  <1> DEFINE sent == SendRequest(tab, h, tx)
             awaited == UNION {await_response(s, h) : s \in {x \in sent : x.rc >= 0}}
  <1>1. \A s \in sent : Kept(tab, s.tab)
    BY SendKeeps
  <1>2. ASSUME NEW a \in awaited PROVE Kept(tab, a.tab)
    <2>1. PICK s \in sent : a \in await_response(s, h)
      OBVIOUS
    <2> QED  BY <1>1, <2>1, AwaitKeeps, KeptTrans DEF Kept
  <1>3. \/ \E s \in sent : r.tab = s.tab
        \/ \E a \in awaited : r.tab = a.tab
        \/ \E a \in awaited : r \in read_response(a, h, rx)
    <2> DEFINE failed == {[rc |-> a.rc, tab |-> a.tab, arrived |-> a.arrived] :
                            a \in {x \in sent \cup awaited : x.rc < 0}}
    <2>1. CASE rx = <<>>
      <3>1. r \in {[rc |-> IF s.rc < 0 THEN s.rc ELSE NO_ERROR, tab |-> s.tab,
                    arrived |-> s.arrived] : s \in sent}
        BY <2>1 DEF sync_ipc_send_msg
      <3> HIDE DEF sent
      <3> QED  BY <3>1
    <2>2. CASE rx # <<>>
      <3>1. r \in failed \cup UNION {read_response(a, h, rx) :
                                     a \in {x \in awaited : x.rc >= 0}}
        BY <2>2 DEF sync_ipc_send_msg
      <3> HIDE DEF sent, awaited
      <3> QED  BY <3>1
    <2> QED  BY <2>1, <2>2
  <1>4. CASE \E s \in sent : r.tab = s.tab
    BY <1>1, <1>4
  <1>5. CASE \E a \in awaited : r.tab = a.tab
    BY <1>2, <1>5
  <1>6. CASE \E a \in awaited : r \in read_response(a, h, rx)
    <2>1. PICK a \in awaited : r \in read_response(a, h, rx)
      BY <1>6
    <2>2. Kept(tab, a.tab)
      BY <1>2
    <2>3. Kept(a.tab, r.tab)
      BY <2>1, <2>2, ReadKeeps DEF Kept
    <2> QED  BY <2>2, <2>3, KeptTrans
  <1> QED  BY <1>3, <1>4, <1>5, <1>6

\* Neither handler of a message touches handles or the buffer.
LEMMA HandlerKeeps ==
    ASSUME NEW c, NEW tab, GoodTable(tab), NEW h \in Chan, NEW len, NEW wrote, NEW retired,
           NEW m \in on_handle_msg(c, tab, h, len, wrote, retired)
    PROVE  Kept(tab, m.tab) /\ m.wrote = wrote
  <1>1. CASE m \in sea_ipc_msg_handler(tab, len, wrote)
    BY <1>1 DEF sea_ipc_msg_handler, Outcome, Kept, SameHandles
  <1>2. CASE m \in sync_ipc_msg_handler(tab, h, len, wrote, retired)
    <2>1. PICK r \in sync_ipc_send_msg(tab, h, <<len>>, <<len>>) :
             m.tab = r.tab /\ m.wrote = wrote
      BY <1>2 DEF sync_ipc_msg_handler, Outcome
    <2> QED  BY <2>1, SyncKeeps
  <1> QED  BY <1>1, <1>2 DEF on_handle_msg

LEMMA HandledMsg ==
    ASSUME NEW c, NEW tab, GoodTable(tab), NEW h \in Chan,
           NEW m \in do_handle_msg(c, tab, h)
    PROVE  MsgOutcome(tab, m)
  <1>0. PICK g \in trusty_get_msg(tab, h) : m \in AfterGetMsg(c, tab, h, g)
    BY DEF do_handle_msg
  <1>len. g.len \in Nat
    BY DEF trusty_get_msg, sea_ht_get_msg_len, GoodTable, Table
  <1>1. \/ \E e : m = Outcome(e, tab, 0)
        \/ \E put \in trusty_put_msg(tab, h) :
             m = Outcome(ERR_NOT_ENOUGH_BUFFER, put.tab, 0)
        \/ g.len <= MSG_BUF_MAX_SIZE /\ m \in ReadAndHandle(c, tab, h, g)
    <2>1. CASE g.rc = ERR_NO_MSG
      BY <1>0, <2>1 DEF AfterGetMsg
    <2>2. CASE g.rc \notin {NO_ERROR, ERR_NO_MSG}
      BY <1>0, <2>2 DEF AfterGetMsg
    <2>3. CASE g.rc = NO_ERROR /\ g.len > MSG_BUF_MAX_SIZE
      BY <1>0, <2>3 DEF AfterGetMsg, NO_ERROR, ERR_NO_MSG
    <2>4. CASE g.rc = NO_ERROR /\ g.len <= MSG_BUF_MAX_SIZE
      <3>1. ~(g.len > MSG_BUF_MAX_SIZE)
        BY <1>len, <2>4, ServerConstants
      <3> QED  BY <1>0, <2>4, <3>1 DEF AfterGetMsg, NO_ERROR, ERR_NO_MSG
    <2> QED  BY <1>len, <2>1, <2>2, <2>3, <2>4, ServerConstants
  <1>2. MSG_BUF_MAX_SIZE \in Nat
    BY ServerConstants
  <1>3. ASSUME NEW e, m = Outcome(e, tab, 0)
        PROVE  MsgOutcome(tab, m)
    BY <1>2, <1>3 DEF MsgOutcome, SameHandles, Outcome
  <1>4. ASSUME NEW put \in trusty_put_msg(tab, h),
               m = Outcome(ERR_NOT_ENOUGH_BUFFER, put.tab, 0)
        PROVE  MsgOutcome(tab, m)
    <2>1. GoodTable(put.tab) /\ SameHandles(tab, put.tab)
      BY PutResult
    <2>2. m.tab = put.tab /\ m.wrote = 0
      BY <1>4 DEF Outcome
    <2> QED  BY <1>2, <2>1, <2>2 DEF MsgOutcome
  <1>5. ASSUME g.len <= MSG_BUF_MAX_SIZE, m \in ReadAndHandle(c, tab, h, g)
        PROVE  MsgOutcome(tab, m)
    <2> DEFINE r == trusty_read_msg(tab, h, g.id, 0, <<g.len>>)
    <2>2. PICK put \in trusty_put_msg(tab, h) :
             \/ m.tab = put.tab /\ m.wrote = r.stored[1]
             \/ m \in on_handle_msg(c, put.tab, h, g.len, r.stored[1], put.rc = NO_ERROR)
      BY <1>5 DEF ReadAndHandle, Outcome
    <2>3. Kept(tab, m.tab) /\ m.wrote = r.stored[1]
      <3>1. Kept(tab, put.tab)
        BY PutKeeps
      <3>2. CASE m \in on_handle_msg(c, put.tab, h, g.len, r.stored[1], put.rc = NO_ERROR)
        <4>1. Kept(put.tab, m.tab) /\ m.wrote = r.stored[1]
          BY <3>1, <3>2, HandlerKeeps DEF Kept
        <4> QED  BY <3>1, <4>1, KeptTrans
      <3> QED  BY <2>2, <3>1, <3>2
    <2>4. r.stored[1] \in Nat /\ r.stored[1] <= g.len
      BY <1>len, ReadOneBuffer DEF GoodTable
    <2> HIDE DEF r
    <2> QED  BY <1>2, <1>5, <1>len, <2>3, <2>4 DEF MsgOutcome, Kept
  <1> QED  BY <1>1, <1>3, <1>4, <1>5


-------------------------------------------------------------------------------
(* One lemma per action.                                                   *)

LEMMA PortCreateStep ==
    ASSUME IInv, NEW p \in PortCtx, ipc_port_create(p)
    PROVE  IInv'
  <1>1. /\ mode = "setup" /\ p \notin up /\ ev = NoEvent /\ destroying = NULL
        /\ GoodTable(t)
    BY IInvGood DEF ipc_port_create, IInv, EventSound, DestroyingIsDown
  <1>2. PICK r \in trusty_port_create(t, PortPath[p], PortFlags[p]) :
          \/ /\ r.rc = INVALID_IPC_HANDLE
             /\ t' = r.tab
             /\ UNCHANGED <<mode, ev, ctxVars, bufVars>>
          \/ /\ r.rc # INVALID_IPC_HANDLE
             /\ \E s \in set_cookie(r.tab, r.rc, p),
                   g \in maybe_grow_msg_buf(MaxBufSize[p]) :
                   \/ /\ t' = close(s.tab, r.rc)
                      /\ UNCHANGED <<mode, ev, ctxVars, bufVars>>
                   \/ /\ s.rc >= 0 /\ g.rc >= 0
                      /\ t' = s.tab
                      /\ msg_buf_size' = g.size
                      /\ portHandle' = [portHandle EXCEPT ![p] = r.rc]
                      /\ channels' = [channels EXCEPT ![p] = {}]
                      /\ up' = up \cup {p}
                      /\ UNCHANGED <<mode, ev, destroying, live, chanHandle,
                                     readers, msgHigh>>
    BY DEF ipc_port_create
  <1>3. PortPath[p] # NULL /\ PortPath[p] \in Char \cup {NUL, NULL}
    BY ServerConstants
  <1>4. r.rc \in Port \cup {INVALID_IPC_HANDLE}
    BY <1>3, PortCreateHandle
  <1>5. \/ r.rc \notin Handle /\ r.tab = t
        \/ /\ r.rc \in Port
           /\ r.rc \notin t.active
           /\ GoodTable(r.tab)
           /\ r.tab.active = t.active \cup {r.rc}
           /\ r.tab.cookie = t.cookie
    <2> DEFINE path == PortPath[p]
               fl == PortFlags[p]
    <2>1. r \in trusty_port_create(t, path, fl) /\ path \in Char \cup {NUL, NULL}
      BY <1>3
    <2> HIDE DEF path, fl
    <2> QED  BY <1>1, <2>1, PortCreateResult
  <1>6. ASSUME SameOpen(t, t'), UNCHANGED <<mode, ev, ctxVars, bufVars>>
        PROVE  IInv'
    <2>1. EventSound'
      BY <1>6 DEF IInv, EventSound, ctxVars
    <2> QED  BY <1>6, <2>1, <1>1, QuietStep DEF IInv, TypeOK
  <1>7. CASE r.rc = INVALID_IPC_HANDLE
    <2>1. t' = t
      BY <1>2, <1>5, <1>7, HandleFacts DEF Handle
    <2> QED  BY <1>1, <1>2, <1>6, <1>7, <2>1, GoodIsSame
  <1>8. CASE r.rc # INVALID_IPC_HANDLE
    <2>1. PICK s \in set_cookie(r.tab, r.rc, p),
               g \in maybe_grow_msg_buf(MaxBufSize[p]) :
             \/ /\ t' = close(s.tab, r.rc)
                /\ UNCHANGED <<mode, ev, ctxVars, bufVars>>
             \/ /\ s.rc >= 0 /\ g.rc >= 0
                /\ t' = s.tab
                /\ msg_buf_size' = g.size
                /\ portHandle' = [portHandle EXCEPT ![p] = r.rc]
                /\ channels' = [channels EXCEPT ![p] = {}]
                /\ up' = up \cup {p}
                /\ UNCHANGED <<mode, ev, destroying, live, chanHandle,
                               readers, msgHigh>>
      BY <1>2, <1>8
    <2>2. /\ r.rc \in Port /\ r.rc \in Handle /\ r.rc \notin t.active
          /\ GoodTable(r.tab)
          /\ r.tab.active = t.active \cup {r.rc}
          /\ r.tab.cookie = t.cookie
          /\ p \in Cookie
      BY <1>4, <1>5, <1>8, Distinct DEF Handle
    <2>3. /\ s.rc >= 0 => Opened(t, s.tab, r.rc, p)
          /\ SameOpen(t, close(s.tab, r.rc))
      BY <1>1, <2>2, SetCookieOnNew
    <2>4. CASE t' = close(s.tab, r.rc) /\ UNCHANGED <<mode, ev, ctxVars, bufVars>>
      BY <2>3, <2>4, <1>6
    <2>5. CASE /\ s.rc >= 0 /\ g.rc >= 0
               /\ t' = s.tab
               /\ msg_buf_size' = g.size
               /\ portHandle' = [portHandle EXCEPT ![p] = r.rc]
               /\ channels' = [channels EXCEPT ![p] = {}]
               /\ up' = up \cup {p}
               /\ UNCHANGED <<mode, ev, destroying, live, chanHandle,
                              readers, msgHigh>>
      <3>1. TableInv'
        BY <1>1, <2>2, <2>3, <2>5, PortOpened
      <3>2. /\ MaxBufSize[p] \in Nat /\ MSG_BUF_MAX_SIZE \in Nat
            /\ MSG_BUF_MAX_SIZE <= MaxBufSize[p]
            /\ msg_buf_size \in Nat /\ msgHigh \in Nat /\ msgHigh <= msg_buf_size
        BY ServerConstants, BufferHoldsMessages
           DEF IInv, TypeOK, BufferIsLarge, MsgFitsBuffer
      <3>3. /\ msg_buf_size' \in Nat
            /\ MSG_BUF_MAX_SIZE <= msg_buf_size' /\ msgHigh <= msg_buf_size'
        BY <2>5, <3>2 DEF maybe_grow_msg_buf, ERR_NO_MEMORY, NO_ERROR
      <3>4. BufferIsLarge'
        BY <2>5, <3>3 DEF BufferIsLarge, MsgFitsBuffer
      <3>5. channels' = channels
        <4>1. channels[p] = {}
          BY <1>1, Distinct DEF IInv, ListsHoldLive
        <4> QED  BY <2>5, <4>1, ContextTypes
      <3>6. ListsHoldLive'
        BY <2>5, <3>5 DEF IInv, ListsHoldLive
      <3>7. TypeOK'
        BY <2>2, <2>5, <3>1, <3>3, <3>5 DEF IInv, TypeOK, TableInv
      <3>8. EventSound' /\ DestroyingIsDown'
        BY <1>1, <2>5 DEF EventSound, DestroyingIsDown
      <3> QED  BY <3>1, <3>4, <3>6, <3>7, <3>8 DEF IInv, TableInv
    <2> QED  BY <2>1, <2>4, <2>5
  <1> QED  BY <1>7, <1>8


\* The event of an open handle.
LEMMA EventOfOpen ==
    ASSUME NEW tab, GoodTable(tab), NEW h \in Handle, NEW bits, NEW id \in Nat,
           NEW len \in Nat
    PROVE  /\ EventOn(tab, h, bits, id, len).handle = h
           /\ EventOn(tab, h, bits, id, len).cookie = tab.cookie[h]
           /\ EventOn(tab, h, bits, id, len).event = bits
           /\ SameOpen(tab, EventOn(tab, h, bits, id, len).tab)
  <1> DEFINE u == EventOn(tab, h, bits, id, len).tab
  <1>1. GoodTable(u) /\ SameHandles(tab, u)
    BY EventResult
  <1>2. /\ EventOn(tab, h, bits, id, len).handle = h
        /\ EventOn(tab, h, bits, id, len).cookie = tab.cookie[h]
        /\ EventOn(tab, h, bits, id, len).event = bits
    BY DEF EventOn, sea_ht_get_cookie
  <1> QED  BY <1>1, <1>2, SameHandlesOpen

LEMMA WaitAnyStep == ASSUME IInv, WaitAny PROVE IInv'
  <1>1. PICK h \in t.active, bits \in SUBSET Event, id \in MsgId, len \in MsgLen :
           /\ t' = EventOn(t, h, bits, id, len).tab
           /\ ev' = [handle |-> EventOn(t, h, bits, id, len).handle,
                     event  |-> EventOn(t, h, bits, id, len).event,
                     cookie |-> EventOn(t, h, bits, id, len).cookie]
    BY DEF WaitAny, sea_ht_choose_active_handle
  <1>2. mode = "loop" /\ UNCHANGED <<mode, ctxVars, bufVars>>
    BY DEF WaitAny
  <1>3. GoodTable(t) /\ h \in Handle /\ id \in Nat /\ len \in Nat
    BY IInvGood, SyncConstants
  <1>4. /\ EventOn(t, h, bits, id, len).handle = h
        /\ EventOn(t, h, bits, id, len).cookie = t.cookie[h]
        /\ EventOn(t, h, bits, id, len).event = bits
        /\ SameOpen(t, EventOn(t, h, bits, id, len).tab)
    BY <1>3, EventOfOpen
  <1>5. ev' = [handle |-> h, event |-> bits, cookie |-> t.cookie[h]]
    BY <1>1, <1>4
  <1>6. SameOpen(t, t')
    BY <1>1, <1>4
  <1>7. \/ t.cookie[h] \in up   /\ portHandle[t.cookie[h]] = h
        \/ t.cookie[h] \in live /\ chanHandle[t.cookie[h]] = h
    <2>1. CASE h \in Port
      BY <2>1, IInvTable DEF TableInv, PortsMatch
    <2>2. CASE h \in Chan
      BY <2>2, IInvTable DEF TableInv, ChannelsMatch
    <2> QED  BY <1>3, <2>1, <2>2 DEF Handle
  <1>8. EventSound'
    BY <1>2, <1>5, <1>7 DEF EventSound, ctxVars
  <1>9. t.cookie[h] \in Cookie \cup {NULL}
    BY <1>3 DEF GoodTable, Table
  <1>10. ev' \in [handle : Handle \cup {INVALID_IPC_HANDLE}, event : SUBSET Event,
                  cookie : Cookie \cup {NULL}]
    BY <1>3, <1>5, <1>9
  <1> QED  BY <1>2, <1>6, <1>8, <1>10, QuietStep

\* A step that changes only mode and ev, to no event or to an abort.
LEMMA ControlStep ==
    ASSUME IInv, UNCHANGED <<t, ctxVars, bufVars>>,
           mode' \in {"setup", "loop", "teardown", "exited", "aborted"},
           mode' = "setup" => mode = "setup", destroying = NULL \/ mode' = mode,
           ev' = NoEvent \/ (ev' = ev /\ mode' = "aborted")
    PROVE  IInv'
  <1>1. SameOpen(t, t')
    BY IInvGood, GoodIsSame
  <1>2. ev' \in [handle : Handle \cup {INVALID_IPC_HANDLE}, event : SUBSET Event,
                 cookie : Cookie \cup {NULL}]
    BY DEF NoEvent, IInv, TypeOK
  <1>3. EventSound'
    BY DEF EventSound
  <1> QED  BY <1>1, <1>2, <1>3, QuietStep

\* In ipc_loop no port is being destroyed, and outside it there is no event.
LEMMA LoopFacts ==
    ASSUME IInv
    PROVE  /\ mode # "teardown" => destroying = NULL
           /\ mode \in {"setup", "teardown", "exited"} => ev = NoEvent
  BY DEF IInv, DestroyingIsDown, EventSound

LEMMA StartLoopStep == ASSUME IInv, StartLoop PROVE IInv'
  BY LoopFacts, ControlStep DEF StartLoop

LEMMA WaitAnyFailsStep == ASSUME IInv, WaitAnyFails PROVE IInv'
  BY LoopFacts, ControlStep DEF WaitAnyFails

LEMMA DispatchNoneStep == ASSUME IInv, DispatchNone PROVE IInv'
  BY LoopFacts, ControlStep DEF DispatchNone, IInv, TypeOK

LEMMA PortErrorStep ==
    ASSUME IInv, NEW p, handle_port_errors(p)
    PROVE  IInv'
  BY LoopFacts, ControlStep DEF handle_port_errors, Dispatching

LEMMA ChanErrorStep ==
    ASSUME IInv, NEW c, handle_chan_errors(c)
    PROVE  IInv'
  BY LoopFacts, ControlStep DEF handle_chan_errors, Dispatching

LEMMA ExitStep == ASSUME IInv, Exit PROVE IInv'
  BY LoopFacts, ControlStep DEF Exit


\* The context that an event is dispatched to exists and has the event's handle.
LEMMA DispatchedPort ==
    ASSUME IInv, NEW p \in PortCtx, Dispatching(p)
    PROVE  p \in up /\ mode = "loop" /\ destroying = NULL /\ up # {}
  <1>1. mode = "loop" /\ ev # NoEvent /\ ev.cookie = p
    BY DEF Dispatching, NoEvent
  <1> QED  BY <1>1, LoopFacts, ContextTypes, Distinct DEF IInv, EventSound

LEMMA DispatchedChan ==
    ASSUME IInv, NEW c \in ChanCtx, Dispatching(c)
    PROVE  /\ c \in live /\ chanHandle[c] = ev.handle
           /\ mode = "loop" /\ destroying = NULL
  <1>1. mode = "loop" /\ ev # NoEvent /\ ev.cookie = c
    BY DEF Dispatching, NoEvent
  <1> QED  BY <1>1, LoopFacts, ContextTypes, Distinct DEF IInv, EventSound

LEMMA ConnectStep ==
    ASSUME IInv, NEW p \in PortCtx, do_connect(p)
    PROVE  IInv'
  <1>1. /\ p \in up /\ mode = "loop" /\ destroying = NULL /\ ev' = NoEvent
        /\ GoodTable(t)
    BY DispatchedPort, IInvGood DEF do_connect
  <1>2. PICK r \in trusty_accept(t, ev.handle) :
          \/ /\ r.rc = INVALID_IPC_HANDLE
             /\ t' = r.tab
             /\ UNCHANGED <<mode, ctxVars, bufVars>>
          \/ /\ r.rc # INVALID_IPC_HANDLE
             /\ RefuseConnection(r.tab, r.rc)
          \/ /\ r.rc # INVALID_IPC_HANDLE
             /\ \E c \in ChanCtx \ live : \E s \in set_cookie(r.tab, r.rc, c) :
                   RefuseConnection(s.tab, r.rc)
          \/ /\ r.rc # INVALID_IPC_HANDLE
             /\ \E c \in ChanCtx \ live, reader \in BOOLEAN :
                \E s \in set_cookie(r.tab, r.rc, c) :
                   /\ s.rc >= 0
                   /\ t' = s.tab
                   /\ live' = live \cup {c}
                   /\ chanHandle' = [chanHandle EXCEPT ![c] = r.rc]
                   /\ readers' = IF reader THEN readers \cup {c} ELSE readers
                   /\ channels' = [channels EXCEPT ![p] = @ \cup {c}]
             /\ UNCHANGED <<mode, up, portHandle, destroying, bufVars>>
    BY DEF do_connect
  <1>3. ChannelOpened(t, r.rc, r.tab)
    <2> DEFINE h == ev.handle
    <2> HIDE DEF h
    <2> QED  BY <1>1, <1>2, AcceptResult DEF h
  <1>4. ASSUME SameOpen(t, t'), UNCHANGED <<mode, ctxVars, bufVars>>
        PROVE  IInv'
    <2>1. ev' \in [handle : Handle \cup {INVALID_IPC_HANDLE}, event : SUBSET Event,
                   cookie : Cookie \cup {NULL}]
      BY <1>1 DEF NoEvent
    <2>2. EventSound'
      BY <1>1 DEF EventSound
    <2> QED  BY <1>1, <1>4, <2>1, <2>2, QuietStep
  <1>5. CASE r.rc = INVALID_IPC_HANDLE
    <2>1. t' = t
      BY <1>2, <1>3, <1>5, Distinct DEF ChannelOpened
    <2> QED  BY <1>1, <1>2, <1>4, <1>5, <2>1, GoodIsSame
  <1>6. CASE r.rc # INVALID_IPC_HANDLE
    <2> DEFINE h == r.rc
    <2>1. /\ h \in Chan /\ h \in Handle /\ h \notin t.active
          /\ GoodTable(r.tab)
          /\ r.tab.active = t.active \cup {h}
          /\ r.tab.cookie = t.cookie
      BY <1>3, <1>6 DEF ChannelOpened, Handle
    <2>2. ASSUME NEW c \in ChanCtx, NEW s \in set_cookie(r.tab, h, c)
          PROVE  /\ s.rc >= 0 => Opened(t, s.tab, h, c)
                 /\ SameOpen(t, close(s.tab, h))
      BY <1>1, <2>1, Distinct, SetCookieOnNew
    <2>3. CASE RefuseConnection(r.tab, h)
      <3>1. Closed(r.tab, close(r.tab, h), h)
        BY <2>1, GoodIsSame, CloseOpen
      <3>2. SameOpen(t, close(r.tab, h))
        BY <2>1, <3>1 DEF Closed, SameOpen
      <3> QED  BY <1>4, <2>3, <3>2 DEF RefuseConnection
    <2>4. ASSUME NEW c \in ChanCtx \ live, NEW s \in set_cookie(r.tab, h, c),
                 RefuseConnection(s.tab, h)
          PROVE  IInv'
      BY <1>4, <2>2, <2>4 DEF RefuseConnection
    <2>5. ASSUME NEW c \in ChanCtx \ live, NEW reader \in BOOLEAN,
                 NEW s \in set_cookie(r.tab, h, c),
                 s.rc >= 0, t' = s.tab, live' = live \cup {c},
                 chanHandle' = [chanHandle EXCEPT ![c] = h],
                 readers' = IF reader THEN readers \cup {c} ELSE readers,
                 channels' = [channels EXCEPT ![p] = @ \cup {c}],
                 UNCHANGED <<mode, up, portHandle, destroying, bufVars>>
          PROVE  IInv'
      <3>1. TableInv'
        <4>1. Opened(t, t', h, c)
          BY <2>2, <2>5
        <4> QED  BY <2>1, <2>5, <4>1, ChannelOpen
      <3>2. /\ channels'[p] = channels[p] \cup {c}
            /\ \A q \in PortCtx : q # p => channels'[q] = channels[q]
        BY <2>5, ContextTypes
      <3>3. ListsHoldLive'
        <4>1. live' = UNION {channels'[q] : q \in PortCtx}
          BY <2>5, <3>2 DEF IInv, ListsHoldLive
        <4>2. \A q \in PortCtx : c \notin channels[q]
          BY DEF IInv, ListsHoldLive
        <4>3. \A q1, q2 \in PortCtx : q1 # q2 => channels'[q1] \cap channels'[q2] = {}
          BY <3>2, <4>2 DEF IInv, ListsHoldLive
        <4>4. \A q \in PortCtx : channels'[q] # {} => q \in up' \/ q = destroying'
          BY <1>1, <2>5, <3>2 DEF IInv, ListsHoldLive
        <4> QED  BY <4>1, <4>3, <4>4 DEF ListsHoldLive
      <3>4. /\ live' \subseteq ChanCtx
            /\ chanHandle' \in [ChanCtx -> Chan \cup {INVALID_IPC_HANDLE}]
            /\ readers' \subseteq ChanCtx
            /\ channels' \in [PortCtx -> SUBSET ChanCtx]
        BY <2>1, <2>5, ContextTypes
      <3>5. TypeOK'
        BY <1>1, <2>5, <3>1, <3>4 DEF IInv, TypeOK, TableInv, bufVars, NoEvent
      <3>6. EventSound' /\ DestroyingIsDown'
        BY <1>1, <2>5 DEF EventSound, DestroyingIsDown
      <3>7. BufferIsLarge'
        BY <2>5 DEF IInv, BufferIsLarge, MsgFitsBuffer, bufVars
      <3> QED  BY <3>1, <3>3, <3>5, <3>6, <3>7 DEF IInv, TableInv
    <2> QED  BY <1>2, <1>6, <2>3, <2>4, <2>5
  <1> QED  BY <1>5, <1>6


LEMMA HandledByChannel ==
    ASSUME IInv, NEW c \in ChanCtx, Dispatching(c), NEW m \in HandleMsg(c)
    PROVE  MsgOutcome(t, m)
  <1>1. GoodTable(t) /\ ev.handle \in Chan
    BY IInvGood, DispatchedChan, ContextTypes, IInvTable, Distinct
       DEF TableInv, ChannelsMatch
  <1>2. ASSUME NEW e, m = Outcome(e, t, 0)
        PROVE  MsgOutcome(t, m)
    BY <1>1, <1>2, ServerConstants DEF MsgOutcome, SameHandles, Outcome
  <1>3. ASSUME m \in do_handle_msg(c, t, ev.handle)
        PROVE  MsgOutcome(t, m)
    <2> DEFINE h == ev.handle
    <2>1. h \in Chan /\ m \in do_handle_msg(c, t, h)
      BY <1>1, <1>3
    <2> HIDE DEF h
    <2> QED  BY <1>1, <2>1, HandledMsg
  <1> QED  BY <1>2, <1>3 DEF HandleMsg

LEMMA ChannelStep ==
    ASSUME IInv, NEW c \in ChanCtx, handle_channel(c)
    PROVE  IInv'
  <1>1. PICK m \in HandleMsg(c) :
          /\ msgHigh' = Larger(m.wrote, msgHigh)
          /\ \/ do_disconnect(c, m.tab)
             \/ /\ t' = m.tab
                /\ UNCHANGED <<channels, live, chanHandle, readers>>
    BY DEF handle_channel
  <1>2. /\ ev' = NoEvent
        /\ UNCHANGED <<mode, up, portHandle, destroying, msg_buf_size>>
        /\ Dispatching(c)
    BY DEF handle_channel
  <1>3. /\ c \in live /\ chanHandle[c] = ev.handle
        /\ mode = "loop" /\ destroying = NULL
    BY <1>2, DispatchedChan
  <1>4. MsgOutcome(t, m)
    BY <1>2, HandledByChannel
  <1>5. SameOpen(t, m.tab)
    BY <1>4, SameHandlesOpen DEF MsgOutcome
  <1>6. BufferIsLarge' /\ msgHigh' \in Nat
    <2>1. up # {}
      BY <1>3, Distinct DEF IInv, ListsHoldLive
    <2>2. /\ MSG_BUF_MAX_SIZE \in Nat /\ MSG_BUF_MAX_SIZE <= msg_buf_size
          /\ msgHigh \in Nat /\ msg_buf_size \in Nat /\ msgHigh <= msg_buf_size
          /\ m.wrote \in Nat /\ m.wrote <= MSG_BUF_MAX_SIZE
      BY <1>4, <2>1, ServerConstants
         DEF IInv, BufferIsLarge, MsgFitsBuffer, TypeOK, MsgOutcome
    <2>3. msgHigh' \in Nat /\ msgHigh' <= msg_buf_size
      BY <1>1, <2>2 DEF Larger
    <2> QED  BY <1>2, <2>2, <2>3 DEF BufferIsLarge, MsgFitsBuffer
  <1>7. EventSound' /\ DestroyingIsDown'
    BY <1>2, <1>3 DEF EventSound, DestroyingIsDown
  <1>8. CASE do_disconnect(c, m.tab)
    <2>1. PICK p \in PortCtx : c \in channels[p] /\ FreeContext(c, p)
      BY <1>8 DEF do_disconnect
    <2>2. Closed(t, t', chanHandle[c])
      <3>1. chanHandle[c] \in m.tab.active
        BY <1>3, <1>5, ContextTypes DEF SameOpen
      <3> QED  BY <1>3, <1>5, <1>8, <3>1, CloseOpen DEF do_disconnect
    <2>3. TableInv'
      BY <1>2, <1>3, <2>1, <2>2, ChannelClosed DEF FreeContext
    <2>4. /\ ListsHoldLive'
          /\ live' \subseteq ChanCtx
          /\ channels' \in [PortCtx -> SUBSET ChanCtx]
          /\ chanHandle' \in [ChanCtx -> Chan \cup {INVALID_IPC_HANDLE}]
          /\ readers' \subseteq ChanCtx
      BY <1>2, <2>1, ListsAfterFree
    <2>5. TypeOK'
      BY <1>2, <1>3, <1>6, <2>3, <2>4 DEF IInv, TypeOK, TableInv, NoEvent
    <2> QED  BY <1>6, <1>7, <2>3, <2>4, <2>5 DEF IInv, TableInv
  <1>9. CASE t' = m.tab /\ UNCHANGED <<channels, live, chanHandle, readers>>
    <2>1. TableInv'
      BY <1>2, <1>3, <1>5, <1>9, OpenKept
    <2>2. ListsHoldLive'
      BY <1>2, <1>9 DEF IInv, ListsHoldLive
    <2>3. TypeOK'
      BY <1>2, <1>3, <1>6, <1>9, <2>1 DEF IInv, TypeOK, TableInv, NoEvent
    <2> QED  BY <1>6, <1>7, <2>1, <2>2, <2>3 DEF IInv, TableInv
  <1> QED  BY <1>1, <1>8, <1>9

LEMMA PortDestroyStep ==
    ASSUME IInv, NEW p \in PortCtx, ipc_port_destroy(p)
    PROVE  IInv'
  <1>1. /\ p \in up /\ mode' = "teardown" /\ destroying = NULL /\ destroying' = p
        /\ up' = up \ {p} /\ ev' = NoEvent
        /\ t' = close(t, portHandle[p])
        /\ UNCHANGED <<portHandle, channels, live, chanHandle, readers, bufVars>>
    BY LoopFacts DEF ipc_port_destroy
  <1>2. TableInv'
    <2>1. SameOpen(t, t) /\ portHandle[p] \in t.active
      BY <1>1, IInvGood, GoodIsSame, ContextTypes
    <2>2. Closed(t, t', portHandle[p])
      BY <1>1, <2>1, CloseOpen
    <2> QED  BY <1>1, <2>2, PortClosed
  <1>3. TypeOK'
    BY <1>1, <1>2 DEF IInv, TypeOK, TableInv, bufVars, NoEvent
  <1>4. ListsHoldLive'
    BY <1>1, Distinct DEF IInv, ListsHoldLive
  <1>5. EventSound' /\ DestroyingIsDown'
    BY <1>1 DEF EventSound, DestroyingIsDown
  <1>6. BufferIsLarge'
    BY <1>1 DEF IInv, BufferIsLarge, MsgFitsBuffer, bufVars
  <1> QED  BY <1>2, <1>3, <1>4, <1>5, <1>6 DEF IInv, TableInv

LEMMA DestroyChannelStep ==
    ASSUME IInv, NEW p \in PortCtx, DestroyChannel(p)
    PROVE  IInv'
  <1>1. PICK c \in channels[p] : FreeContext(c, p) /\ t' = close(t, chanHandle[c])
    BY DEF DestroyChannel
  <1>2. UNCHANGED <<mode, ev, up, portHandle, destroying, bufVars>>
    BY DEF DestroyChannel
  <1>3. /\ c \in live
        /\ ListsHoldLive'
        /\ live' \subseteq ChanCtx
        /\ channels' \in [PortCtx -> SUBSET ChanCtx]
        /\ chanHandle' \in [ChanCtx -> Chan \cup {INVALID_IPC_HANDLE}]
        /\ readers' \subseteq ChanCtx
    BY <1>1, <1>2, ListsAfterFree
  <1>4. TableInv'
    <2>1. SameOpen(t, t) /\ chanHandle[c] \in t.active
      BY <1>3, IInvGood, GoodIsSame, ContextTypes
    <2>2. Closed(t, t', chanHandle[c])
      BY <1>1, <2>1, CloseOpen
    <2> QED  BY <1>1, <1>2, <1>3, <2>2, ChannelClosed DEF FreeContext
  <1>5. TypeOK'
    BY <1>2, <1>3, <1>4 DEF IInv, TypeOK, TableInv, bufVars
  <1>6. DestroyingIsDown' /\ BufferIsLarge'
    BY <1>2 DEF IInv, DestroyingIsDown, BufferIsLarge, MsgFitsBuffer, bufVars
  <1>7. EventSound'
    <2>1. mode = "teardown"
      BY Distinct DEF DestroyChannel, IInv, DestroyingIsDown
    <2> QED  BY <1>2, <2>1 DEF IInv, EventSound
  <1> QED  BY <1>3, <1>4, <1>5, <1>6, <1>7 DEF IInv, TableInv

LEMMA DestroyReturnsStep ==
    ASSUME IInv, NEW p \in PortCtx, DestroyReturns(p)
    PROVE  IInv'
  <1>1. /\ destroying = p /\ channels[p] = {} /\ destroying' = NULL
        /\ UNCHANGED <<t, mode, ev, up, portHandle, channels, live, chanHandle,
                       readers, bufVars>>
    BY DEF DestroyReturns
  <1>2. TableInv'
    BY <1>1, IInvGood, GoodIsSame, OpenKept
  <1>3. TypeOK'
    BY <1>1, <1>2 DEF IInv, TypeOK, TableInv, bufVars
  <1>4. ListsHoldLive'
    BY <1>1 DEF IInv, ListsHoldLive
  <1>5. EventSound' /\ DestroyingIsDown' /\ BufferIsLarge'
    BY <1>1 DEF IInv, EventSound, DestroyingIsDown, BufferIsLarge, MsgFitsBuffer,
                bufVars
  <1> QED  BY <1>2, <1>3, <1>4, <1>5 DEF IInv, TableInv

LEMMA StutterStep == ASSUME IInv, UNCHANGED vars PROVE IInv'
  <1>1. TableInv'
    BY IInvGood, GoodIsSame, OpenKept DEF vars, ctxVars
  <1>2. TypeOK' /\ ListsHoldLive' /\ EventSound' /\ DestroyingIsDown' /\ BufferIsLarge'
    BY <1>1 DEF IInv, TypeOK, ListsHoldLive, EventSound, DestroyingIsDown,
                BufferIsLarge, MsgFitsBuffer, TableInv, vars, ctxVars, bufVars
  <1> QED  BY <1>1, <1>2 DEF IInv, TableInv

LEMMA NextIInv == ASSUME IInv, [Next]_vars PROVE IInv'
  <1>1. ASSUME NEW p \in PortCtx, PortStep(p) PROVE IInv'
    BY <1>1, PortCreateStep, PortErrorStep, ConnectStep, PortDestroyStep,
       DestroyChannelStep, DestroyReturnsStep DEF PortStep
  <1>2. ASSUME NEW c \in ChanCtx, ChanStep(c) PROVE IInv'
    BY <1>2, ChanErrorStep, ChannelStep DEF ChanStep
  <1>3. CASE UNCHANGED vars
    BY <1>3, StutterStep
  <1> QED
    BY <1>1, <1>2, <1>3, StartLoopStep, WaitAnyFailsStep, WaitAnyStep,
       DispatchNoneStep, ExitStep DEF Next, Terminated

-------------------------------------------------------------------------------
(* The theorems.                                                           *)

\* The inductive invariant.
THEOREM Invariance == Spec => []IInv
  <1>1. Init => IInv
    BY InitIInv
  <1>2. IInv /\ [Next]_vars => IInv'
    BY NextIInv
  <1> QED  BY <1>1, <1>2, PTL DEF Spec

\* The state of the server has its type.
THEOREM StorageTypeOK == Spec => []TypeOK
  <1>1. IInv => TypeOK
    BY DEF IInv
  <1> QED  BY <1>1, Invariance, PTL

\* No error path, disconnection or teardown leaves a handle open without its
\* context, or a context without its open handle, and cookies lead back.
THEOREM StorageHandlesMatchContexts == Spec => []HandlesMatchContexts
  <1>1. IInv => HandlesMatchContexts
    BY DEF IInv, HandlesMatchContexts
  <1> QED  BY <1>1, Invariance, PTL

\* The lists hold exactly the live channel contexts, each of them once.
THEOREM StorageListsHoldLive == Spec => []ListsHoldLive
  <1>1. IInv => ListsHoldLive
    BY DEF IInv
  <1> QED  BY <1>1, Invariance, PTL

\* An event is dispatched to a context that exists and owns its handle.
THEOREM StorageDispatchSound == Spec => []DispatchSound
  <1>1. IInv => DispatchSound
    BY DEF IInv, EventSound, DispatchSound, NoEvent
  <1> QED  BY <1>1, Invariance, PTL

\* read_msg never stores more than msg_buf holds.
THEOREM StorageMsgFitsBuffer == Spec => []MsgFitsBuffer
  <1>1. IInv => MsgFitsBuffer
    BY DEF IInv, BufferIsLarge
  <1> QED  BY <1>1, Invariance, PTL

\* The counters of the table stay exact under the server.
THEOREM StorageClosedOnce == Spec => []ClosedOnce
  <1>1. IInv => ClosedOnce
    BY DEF IInv
  <1> QED  BY <1>1, Invariance, PTL

\* The assertions of port_create_destroy_harness.c.
THEOREM StorageCreateDestroy == Spec => []CreateDestroy
  <1>1. ASSUME IInv PROVE CreateDestroy
    BY <1>1, ContextTypes, IInvTable, Distinct
       DEF TableInv, PortsMatch, DownIsClosed, CreateDestroy, sea_ht_is_active_port
  <1> QED  BY <1>1, Invariance, PTL


-------------------------------------------------------------------------------
(* Isolation, an action property.                                          *)

\* The other connections survive the step.
Undisturbed ==
    \A c \in live : chanHandle[c] # ev.handle =>
        /\ c \in live'
        /\ chanHandle'[c] = chanHandle[c]
        /\ chanHandle[c] \in t'.active
        /\ \A p \in PortCtx : c \in channels[p] => c \in channels'[p]

\* A step that only opens handles and leaves the contexts and lists alone.
LEMMA NothingFreed ==
    ASSUME IInv, t.active \subseteq t'.active, UNCHANGED <<live, chanHandle, channels>>
    PROVE  Undisturbed
  BY ContextTypes DEF Undisturbed

LEMMA ConnectIsolated ==
    ASSUME IInv, NEW p \in PortCtx, do_connect(p)
    PROVE  Undisturbed
  <1>0. IInv'
    BY ConnectStep
  <1>1. \/ UNCHANGED <<live, chanHandle, channels>>
        \/ \E c \in ChanCtx \ live : \E h :
             /\ live' = live \cup {c}
             /\ chanHandle' = [chanHandle EXCEPT ![c] = h]
             /\ channels' = [channels EXCEPT ![p] = @ \cup {c}]
    BY DEF do_connect, RefuseConnection, ctxVars
  <1>2. \A c \in live : c \in live' /\ chanHandle'[c] = chanHandle[c]
    BY <1>1, ContextTypes
  <1>3. \A c \in live' : chanHandle'[c] \in t'.active
    BY <1>0 DEF IInv, ChannelsMatch
  <1>4. \A q \in PortCtx : channels[q] \subseteq channels'[q]
    BY <1>1, ContextTypes
  <1> QED  BY <1>2, <1>3, <1>4 DEF Undisturbed

LEMMA ChannelIsolated ==
    ASSUME IInv, NEW d \in ChanCtx, handle_channel(d)
    PROVE  Undisturbed
  <1>0. IInv'
    BY ChannelStep
  <1>1. d \in live /\ chanHandle[d] = ev.handle
    BY DispatchedChan DEF handle_channel
  <1>2. \/ UNCHANGED <<live, chanHandle, channels>>
        \/ \E p \in PortCtx : FreeContext(d, p)
    BY DEF handle_channel, do_disconnect
  <1>3. \A c \in live : c # d => c \in live' /\ chanHandle'[c] = chanHandle[c]
    BY <1>2, ContextTypes DEF FreeContext
  <1>4. \A c \in live' : chanHandle'[c] \in t'.active
    BY <1>0 DEF IInv, ChannelsMatch
  <1>5. \A q \in PortCtx : channels[q] \ {d} \subseteq channels'[q]
    BY <1>2, ContextTypes DEF FreeContext
  <1> QED  BY <1>1, <1>3, <1>4, <1>5 DEF Undisturbed

LEMMA NextIsolated ==
    ASSUME IInv, Next, mode = "loop", ev # NoEvent
    PROVE  Undisturbed
  <1>0. destroying = NULL
    BY LoopFacts
  <1>1. ASSUME NEW p \in PortCtx, PortStep(p) PROVE Undisturbed
    <2>1. ~ ipc_port_create(p) /\ ~ ipc_port_destroy(p)
      BY DEF ipc_port_create, ipc_port_destroy
    <2>2. ~ DestroyChannel(p) /\ ~ DestroyReturns(p)
      BY <1>0, Distinct DEF DestroyChannel, DestroyReturns
    <2>3. CASE handle_port_errors(p)
      BY <2>3, NothingFreed DEF handle_port_errors, ctxVars
    <2>4. CASE do_connect(p)
      BY <2>4, ConnectIsolated
    <2> QED  BY <1>1, <2>1, <2>2, <2>3, <2>4 DEF PortStep
  <1>2. ASSUME NEW c \in ChanCtx, ChanStep(c) PROVE Undisturbed
    <2>1. CASE handle_chan_errors(c)
      BY <2>1, NothingFreed DEF handle_chan_errors, ctxVars
    <2>2. CASE handle_channel(c)
      BY <2>2, ChannelIsolated
    <2> QED  BY <1>2, <2>1, <2>2 DEF ChanStep
  <1>3. CASE DispatchNone
    BY <1>3, NothingFreed DEF DispatchNone, ctxVars
  <1>4. ~ StartLoop /\ ~ WaitAnyFails /\ ~ WaitAny /\ ~ Exit /\ ~ Terminated
    BY DEF StartLoop, WaitAnyFails, WaitAny, Exit, Terminated
  <1> QED  BY <1>1, <1>2, <1>3, <1>4 DEF Next

\* The event of one handle leaves the other connections open, with their
\* contexts and on their lists.
THEOREM StorageIsolation == Spec => Isolation
  <1>1. IInv /\ [Next]_vars => [(mode = "loop" /\ ev # NoEvent) => Undisturbed]_vars
    BY NextIsolated
  <1>2. [][(mode = "loop" /\ ev # NoEvent) => Undisturbed]_vars => Isolation
    BY PTL DEF Undisturbed, Isolation
  <1> QED  BY <1>1, <1>2, Invariance, PTL DEF Spec

-------------------------------------------------------------------------------
(* The request and the response of sync_ipc_msg_handler.                   *)

\* What send_msg and the wait before a second attempt return is a number.
LEMMA SendRcInt ==
    ASSUME NEW tab, NEW h, NEW len \in Nat, NEW s \in SendRequest(tab, h, <<len>>)
    PROVE  s.rc \in Int
  <1>1. send_msg(<<len>>) \subseteq Int
    <2>1. DOMAIN <<len>> = {1} /\ <<len>>[1] = len
      OBVIOUS
    <2>2. send_msg(<<len>>) = IpcErr \cup {len} \cup {ERR_NOT_ENOUGH_BUFFER}
      BY <2>1 DEF send_msg, trusty_send_msg
    <2> QED  BY <2>2 DEF IpcErr, ERR_GENERIC, ERR_NO_MSG, ERR_NOT_ENOUGH_BUFFER
  <1>2. CASE s \in wait_to_send(tab, h, <<len>>)
    <2>1. PICK w \in wait(tab, h) :
             s.rc \in CASE w.rc < 0                     -> {w.rc}
                       [] "SEND_UNBLOCKED" \in w.event -> send_msg(<<len>>)
                       [] w.event \cap {"SEND_UNBLOCKED", "MSG"} = {"MSG"} -> {ERR_BUSY}
                       [] w.event \cap {"SEND_UNBLOCKED", "MSG", "HUP"} = {"HUP"}
                            -> {ERR_CHANNEL_CLOSED}
                       [] OTHER -> {NO_ERROR}
      BY <1>2 DEF wait_to_send
    <2>2. w.rc \in Int
      BY DEF wait, ERR_GENERIC, NO_ERROR
    <2>3. s.rc \in {w.rc} \cup send_msg(<<len>>)
                     \cup {ERR_BUSY, ERR_CHANNEL_CLOSED, NO_ERROR}
      BY <2>1
    <2> QED  BY <1>1, <2>2, <2>3 DEF ERR_BUSY, ERR_CHANNEL_CLOSED, NO_ERROR
  <1>3. CASE s.rc \in send_msg(<<len>>)
    BY <1>1, <1>3
  <1> QED  BY <1>2, <1>3 DEF SendRequest

\* What the second wait and get_msg return, and the length of the message.
LEMMA AwaitTypes ==
    ASSUME NEW s, GoodTable(s.tab), NEW h \in Chan, NEW a \in await_response(s, h)
    PROVE  a.rc \in Int /\ a.len \in Nat
  <1>0. PICK w \in wait(s.tab, h) : \E g \in trusty_get_msg(w.tab, h) :
           /\ a.rc = IF w.rc # NO_ERROR THEN w.rc ELSE g.rc
           /\ a.len = g.len
    BY DEF await_response
  <1>1. PICK g \in trusty_get_msg(w.tab, h) :
           /\ a.rc = IF w.rc # NO_ERROR THEN w.rc ELSE g.rc
           /\ a.len = g.len
    BY <1>0
  <1>2. GoodTable(w.tab)
    BY WaitKeeps DEF Kept
  <1>3. g.rc \in Int /\ g.len \in Nat
    BY <1>2 DEF trusty_get_msg, sea_ht_get_msg_len, GoodTable, Table, IpcErr,
                ERR_GENERIC, ERR_NO_MSG, NO_ERROR
  <1>4. w.rc \in Int
    BY DEF wait, ERR_GENERIC, NO_ERROR
  <1> QED  BY <1>1, <1>3, <1>4

\* A response that was read fills the one buffer it was read into.
LEMMA ReadFills ==
    ASSUME NEW a, GoodTable(a.tab), a.len \in Nat, NEW h \in Chan, NEW len \in Nat,
           NEW r \in read_response(a, h, <<len>>)
    PROVE  r.rc > 0 => r.rc = len
  <1>1. <<len>>[1] = len /\ Total(<<len>>) = len
    BY DEF Total
  <1> DEFINE rc    == trusty_read_msg(a.tab, h, a.id, 0, <<len>>).rc
             whole == ReadWhole(a, h, <<len>>)
  <1>2. rc \in Int
    <2>1. <<len>> \in [1..1 -> Nat]
      OBVIOUS
    <2> QED  BY <2>1, ReadReturnsInt
  <1>3. r.rc = CASE a.len < len -> ERR_NOT_VALID
                 [] a.len > len -> ERR_BAD_LEN
                 [] OTHER       -> whole
    BY <1>1 DEF read_response, Retired
  <1>4. whole = IF rc >= 0 /\ rc # a.len THEN ERR_IO ELSE rc
    BY DEF ReadWhole
  <1> HIDE DEF rc, whole
  <1> QED  BY <1>2, <1>3, <1>4 DEF ERR_NOT_VALID, ERR_BAD_LEN, ERR_IO

\* The ways sync_ipc_send_msg comes back when a response is expected: it gave
\* up with an error, or it read a response.
LEMMA SyncOutcomes ==
    ASSUME NEW tab, GoodTable(tab), NEW h \in Chan, NEW len \in Nat,
           NEW r \in sync_ipc_send_msg(tab, h, <<len>>, <<len>>)
    PROVE  \/ r.rc \in Int /\ r.rc < 0
           \/ \E s \in SendRequest(tab, h, <<len>>) : \E a \in await_response(s, h) :
                 /\ Kept(tab, s.tab) /\ Kept(s.tab, a.tab)
                 /\ a.rc \in Int /\ a.rc >= 0 /\ a.len \in Nat
                 /\ r \in read_response(a, h, <<len>>)
  <1> DEFINE sent == SendRequest(tab, h, <<len>>)
             awaited == UNION {await_response(s, h) : s \in {x \in sent : x.rc >= 0}}
             failed == {[rc |-> a.rc, tab |-> a.tab, arrived |-> a.arrived] :
                          a \in {x \in sent \cup awaited : x.rc < 0}}
  <1>1. r \in failed \cup UNION {read_response(a, h, <<len>>) :
                                  a \in {x \in awaited : x.rc >= 0}}
    <2>1. <<len>> # <<>>
      OBVIOUS
    <2> QED  BY <2>1 DEF sync_ipc_send_msg
  <1>2. \A s \in sent : s.rc \in Int /\ Kept(tab, s.tab)
    BY SendRcInt, SendKeeps
  <1>3. ASSUME NEW a \in awaited
        PROVE  \E s \in sent : /\ a \in await_response(s, h) /\ Kept(tab, s.tab)
                               /\ Kept(s.tab, a.tab) /\ a.rc \in Int /\ a.len \in Nat
    <2>1. PICK s \in sent : a \in await_response(s, h)
      OBVIOUS
    <2>2. Kept(tab, s.tab) /\ GoodTable(s.tab)
      BY <1>2 DEF Kept
    <2> QED  BY <2>1, <2>2, AwaitKeeps, AwaitTypes
  <1> HIDE DEF sent, awaited
  <1>4. CASE r \in failed
    BY <1>2, <1>3, <1>4
  <1>5. CASE \E a \in awaited : a.rc >= 0 /\ r \in read_response(a, h, <<len>>)
    BY <1>3, <1>5 DEF sent
  <1> QED  BY <1>1, <1>4, <1>5

LEMMA ResponseHasLength ==
    ASSUME NEW tab, GoodTable(tab), NEW h \in Chan, NEW len \in Nat,
           NEW r \in sync_ipc_send_msg(tab, h, <<len>>, <<len>>)
    PROVE  r.rc > 0 => r.rc = len
  BY SyncOutcomes, ReadFills DEF Kept

\* A wait that no message ends leaves the channel without a message.
LEMMA NothingArrives ==
    ASSUME NEW tab, GoodTable(tab), NEW h \in Chan,
           tab.msg_id[h] = INVALID_IPC_MSG_ID,
           NEW w \in wait(tab, h), "MSG" \notin w.event
    PROVE  w.tab.msg_id[h] = INVALID_IPC_MSG_ID
  BY DEF wait, EventOn

LEMMA NothingSent ==
    ASSUME NEW tab, GoodTable(tab), NEW h \in Chan,
           tab.msg_id[h] = INVALID_IPC_MSG_ID, NEW tx,
           NEW s \in SendRequest(tab, h, tx), s.arrived = FALSE
    PROVE  s.tab.msg_id[h] = INVALID_IPC_MSG_ID
  <1>1. CASE s \in wait_to_send(tab, h, tx)
    <2>1. PICK w \in wait(tab, h) : s.tab = w.tab /\ s.arrived = ("MSG" \in w.event)
      BY <1>1 DEF wait_to_send
    <2>2. "MSG" \notin w.event
      BY <2>1
    <2> QED  BY <2>1, <2>2, NothingArrives
  <1>2. CASE s.tab = tab
    BY <1>2
  <1> QED  BY <1>1, <1>2 DEF SendRequest

\* get_msg reports an error on a channel without a message.
LEMMA NothingToTake ==
    ASSUME NEW tab, NEW h \in Chan, tab.msg_id[h] = INVALID_IPC_MSG_ID,
           NEW g \in trusty_get_msg(tab, h)
    PROVE  g.rc \in {ERR_GENERIC, ERR_NO_MSG}
  BY DEF trusty_get_msg, sea_ht_get_msg_id, IpcErr

LEMMA NoResponse ==
    ASSUME NEW s, GoodTable(s.tab), NEW h \in Chan,
           s.arrived \in BOOLEAN,
           s.arrived = FALSE => s.tab.msg_id[h] = INVALID_IPC_MSG_ID,
           NEW a \in await_response(s, h), a.arrived = FALSE
    PROVE  a.rc < 0
  <1>0. PICK w \in wait(s.tab, h) : \E g \in trusty_get_msg(w.tab, h) :
           /\ a.rc = IF w.rc # NO_ERROR THEN w.rc ELSE g.rc
           /\ a.arrived = (s.arrived \/ "MSG" \in w.event)
    BY DEF await_response
  <1>1. PICK g \in trusty_get_msg(w.tab, h) :
           /\ a.rc = IF w.rc # NO_ERROR THEN w.rc ELSE g.rc
           /\ a.arrived = (s.arrived \/ "MSG" \in w.event)
    BY <1>0
  <1>2. s.arrived = FALSE /\ "MSG" \notin w.event
    BY <1>1
  <1>3. w.tab.msg_id[h] = INVALID_IPC_MSG_ID
    BY <1>2, NothingArrives
  <1>4. g.rc \in {ERR_GENERIC, ERR_NO_MSG}
    BY <1>3, NothingToTake
  <1>5. w.rc \in {ERR_GENERIC, NO_ERROR}
    BY DEF wait
  <1>6. a.rc \in {ERR_GENERIC, ERR_NO_MSG}
    BY <1>1, <1>4, <1>5
  <1> QED  BY <1>6 DEF ERR_GENERIC, ERR_NO_MSG

\* Where put_msg had retired the request, a response is read only after a
\* message arrived.
LEMMA ResponseArrived ==
    ASSUME NEW tab, GoodTable(tab), NEW h \in Chan, NEW len \in Nat,
           tab.msg_id[h] = INVALID_IPC_MSG_ID,
           NEW r \in sync_ipc_send_msg(tab, h, <<len>>, <<len>>), r.rc > 0
    PROVE  r.arrived = TRUE
  <1>1. PICK s \in SendRequest(tab, h, <<len>>) : \E a \in await_response(s, h) :
           /\ Kept(tab, s.tab) /\ Kept(s.tab, a.tab)
           /\ a.rc \in Int /\ a.rc >= 0 /\ a.len \in Nat
           /\ r \in read_response(a, h, <<len>>)
    BY SyncOutcomes
  <1>2. PICK a \in await_response(s, h) :
           /\ Kept(tab, s.tab)
           /\ a.rc \in Int /\ a.rc >= 0
           /\ r \in read_response(a, h, <<len>>)
    BY <1>1
  <1>3. s.arrived \in BOOLEAN
    <2>1. CASE s \in wait_to_send(tab, h, <<len>>)
      <3>1. PICK w \in wait(tab, h) : s.arrived = ("MSG" \in w.event)
        BY <2>1 DEF wait_to_send
      <3>2. CASE "MSG" \in w.event
        BY <3>1, <3>2
      <3>3. CASE "MSG" \notin w.event
        BY <3>1, <3>3
      <3> QED  BY <3>2, <3>3
    <2>2. CASE s.arrived = FALSE
      BY <2>2
    <2>3. s.arrived = FALSE \/ s \in wait_to_send(tab, h, <<len>>)
      BY DEF SendRequest
    <2> QED  BY <2>1, <2>2, <2>3
  <1>4. a.arrived \in BOOLEAN
    <2>1. PICK w \in wait(s.tab, h) : a.arrived = (s.arrived \/ "MSG" \in w.event)
      BY DEF await_response
    <2> QED  BY <2>1, Zenon
  <1>5. s.arrived = FALSE => s.tab.msg_id[h] = INVALID_IPC_MSG_ID
    BY NothingSent
  <1>6. a.arrived # FALSE
    <2>1. GoodTable(s.tab) /\ ~ (a.rc < 0)
      BY <1>2 DEF Kept
    <2> QED  BY <1>3, <1>5, <2>1, NoResponse
  <1>7. r.arrived = a.arrived
    BY <1>2 DEF read_response, Retired
  <1> QED  BY <1>4, <1>6, <1>7

\* The two facts the properties state of an outcome m of HandleMsg.
AnsweredRight(m) == m.asserted = TRUE /\ m.stale = FALSE

LEMMA OutcomeRight ==
    ASSUME NEW rc, NEW tab, NEW wrote
    PROVE  AnsweredRight(Outcome(rc, tab, wrote))
  BY DEF AnsweredRight, Outcome

LEMMA SyncRight ==
    ASSUME NEW tab, GoodTable(tab), NEW h \in Chan, NEW len \in Nat, NEW wrote,
           NEW retired \in BOOLEAN,
           retired = TRUE => tab.msg_id[h] = INVALID_IPC_MSG_ID,
           NEW m \in sync_ipc_msg_handler(tab, h, len, wrote, retired)
    PROVE  AnsweredRight(m)
  <1>1. PICK r \in sync_ipc_send_msg(tab, h, <<len>>, <<len>>) :
           m = [Outcome(IF r.rc < 0 THEN r.rc ELSE NO_ERROR, r.tab, wrote)
                  EXCEPT !.asserted = r.rc > 0 => r.rc = len,
                         !.stale    = r.rc > 0 /\ retired /\ ~ r.arrived]
    BY DEF sync_ipc_msg_handler
  <1>2. (r.rc > 0 => r.rc = len) = TRUE
    BY ResponseHasLength
  <1>3. (r.rc > 0 /\ retired /\ ~ r.arrived) = FALSE
    BY ResponseArrived
  <1>4. /\ m.asserted = (r.rc > 0 => r.rc = len)
        /\ m.stale = (r.rc > 0 /\ retired /\ ~ r.arrived)
    BY <1>1, Zenon DEF Outcome
  <1> QED  BY <1>2, <1>3, <1>4, Zenon DEF AnsweredRight

LEMMA ReadAndHandleRight ==
    ASSUME NEW c, NEW tab, GoodTable(tab), NEW h \in Chan, NEW g, g.len \in Nat,
           NEW m \in ReadAndHandle(c, tab, h, g)
    PROVE  AnsweredRight(m)
  <1> DEFINE r == trusty_read_msg(tab, h, g.id, 0, <<g.len>>)
  <1>1. PICK put \in trusty_put_msg(tab, h) :
           \/ \E rc : m = Outcome(rc, put.tab, r.stored[1])
           \/ m \in on_handle_msg(c, put.tab, h, g.len, r.stored[1], put.rc = NO_ERROR)
    BY DEF ReadAndHandle
  <1>2. /\ GoodTable(put.tab)
        /\ put.rc = NO_ERROR => put.tab.msg_id[h] = INVALID_IPC_MSG_ID
    BY PutResult
  <1> HIDE DEF r
  <1>3. CASE m \in sea_ipc_msg_handler(put.tab, g.len, r.stored[1])
    BY <1>3, OutcomeRight DEF sea_ipc_msg_handler
  <1>4. CASE m \in sync_ipc_msg_handler(put.tab, h, g.len, r.stored[1], put.rc = NO_ERROR)
    BY <1>2, <1>4, SyncRight
  <1> QED  BY <1>1, <1>3, <1>4, OutcomeRight DEF on_handle_msg

LEMMA HandledRight ==
    ASSUME IInv, NEW c \in ChanCtx, Dispatching(c), NEW m \in HandleMsg(c)
    PROVE  AnsweredRight(m)
  <1>1. ev.handle \in Chan /\ GoodTable(t)
    BY IInvGood, DispatchedChan, ContextTypes, IInvTable, Distinct
       DEF TableInv, ChannelsMatch
  <1>2. ASSUME m \in do_handle_msg(c, t, ev.handle)
        PROVE  AnsweredRight(m)
    <2>1. PICK g \in trusty_get_msg(t, ev.handle) : m \in AfterGetMsg(c, t, ev.handle, g)
      BY <1>2 DEF do_handle_msg
    <2>2. g.len \in Nat
      BY <1>1 DEF trusty_get_msg, sea_ht_get_msg_len, GoodTable, Table
    <2>3. \/ \E rc, tab : m = Outcome(rc, tab, 0)
          \/ m \in ReadAndHandle(c, t, ev.handle, g)
      BY <2>1 DEF AfterGetMsg
    <2> QED  BY <1>1, <2>2, <2>3, OutcomeRight, ReadAndHandleRight
  <1> QED  BY <1>2, OutcomeRight DEF HandleMsg

\* A response has the length of the request: the assertion of
\* sync_ipc_msg_handler, for every message and every way its calls may go.
THEOREM StorageSyncAssertion == Spec => []SyncAssertion
  <1>1. ASSUME IInv PROVE SyncAssertion
    BY <1>1, HandledRight DEF SyncAssertion, AnsweredRight
  <1> QED  BY <1>1, Invariance, PTL

\* sync_ipc_msg_handler does not take a retired request for its response.
THEOREM StorageResponseIsNew == Spec => []ResponseIsNew
  <1>1. ASSUME IInv PROVE ResponseIsNew
    BY <1>1, HandledRight DEF ResponseIsNew, AnsweredRight
  <1> QED  BY <1>1, Invariance, PTL

-------------------------------------------------------------------------------
(* The end of the program.                                                 *)

\* No port is up or being destroyed after main returned.
ExitedIsDown == mode = "exited" => up = {} /\ destroying = NULL

LEMMA ExitedInvariance == Spec => []ExitedIsDown
  <1>1. Init => ExitedIsDown
    BY DEF Init, ExitedIsDown
  <1>2. ASSUME TypeOK, ExitedIsDown, [Next]_vars
        PROVE  ExitedIsDown'
    <2>1. CASE UNCHANGED vars
      BY <1>2, <2>1 DEF ExitedIsDown, vars, ctxVars
    <2>2. CASE mode = "exited" /\ Next
      <3>1. \A p \in PortCtx : ~ PortStep(p)
        <4> SUFFICES ASSUME NEW p \in PortCtx, PortStep(p) PROVE FALSE
          OBVIOUS
        <4>1. destroying # p
          BY <1>2, <2>2, Distinct DEF ExitedIsDown
        <4>2. ~ Dispatching(p)
          BY <2>2 DEF Dispatching
        <4> QED  BY <2>2, <4>1, <4>2 DEF PortStep, ipc_port_create, handle_port_errors,
                    do_connect, ipc_port_destroy, DestroyChannel, DestroyReturns
      <3>2. \A c \in ChanCtx : ~ ChanStep(c)
        BY <2>2 DEF ChanStep, handle_chan_errors, handle_channel, Dispatching
      <3> QED  BY <1>2, <2>2, <3>1, <3>2 DEF Next, StartLoop, WaitAnyFails, WaitAny,
                  DispatchNone, Exit, Terminated, ExitedIsDown, vars, ctxVars
    <2>3. CASE mode # "exited" /\ Next
      <3>1. ASSUME NEW p \in PortCtx, PortStep(p) PROVE mode' # "exited"
        <4>1. CASE ipc_port_create(p)
          BY <2>3, <4>1 DEF ipc_port_create
        <4>2. CASE handle_port_errors(p)
          BY <4>2 DEF handle_port_errors
        <4>3. CASE do_connect(p)
          BY <2>3, <4>3 DEF do_connect, RefuseConnection
        <4>4. CASE ipc_port_destroy(p)
          BY <4>4 DEF ipc_port_destroy
        <4>5. CASE DestroyChannel(p) \/ DestroyReturns(p)
          BY <2>3, <4>5 DEF DestroyChannel, DestroyReturns
        <4> QED  BY <3>1, <4>1, <4>2, <4>3, <4>4, <4>5 DEF PortStep
      <3>2. ASSUME NEW c \in ChanCtx, ChanStep(c) PROVE mode' # "exited"
        BY <2>3, <3>2 DEF ChanStep, handle_chan_errors, handle_channel, Dispatching
      <3> QED  BY <2>3, <3>1, <3>2 DEF Next, StartLoop, WaitAnyFails, WaitAny,
                  DispatchNone, Exit, Terminated, ExitedIsDown, vars, ctxVars
    <2> QED  BY <1>2, <2>1, <2>2, <2>3
  <1>3. IInv => TypeOK
    BY DEF IInv
  <1> QED  BY <1>1, <1>2, <1>3, Invariance, PTL DEF Spec

\* What TeardownCompletes promises of the end: when main has returned, whatever
\* was open before, every handle is closed and every context freed.
NothingLeft == mode = "exited" => t.active = {} /\ up = {} /\ live = {}

\* main returns with no open handle, no port up and no live context.
THEOREM StorageNothingLeft == Spec => []NothingLeft
  <1>1. ASSUME IInv, ExitedIsDown
        PROVE  NothingLeft
    <2>1. SUFFICES ASSUME mode = "exited"
                   PROVE  t.active = {} /\ up = {} /\ live = {}
      BY DEF NothingLeft
    <2>2. up = {} /\ destroying = NULL
      BY <1>1, <2>1 DEF ExitedIsDown
    <2>3. live = {}
      BY <1>1, <2>2, Distinct DEF IInv, ListsHoldLive
    <2>4. t.active \cap Port = {} /\ t.active \cap Chan = {}
      BY <1>1, <2>2, <2>3 DEF IInv, PortsMatch, ChannelsMatch
    <2>5. t.active \subseteq Port \cup Chan
      BY <1>1, IInvGood DEF Handle
    <2> QED  BY <2>2, <2>3, <2>4, <2>5
  <1> QED  BY <1>1, Invariance, ExitedInvariance, PTL

\* How many steps a teardown has left: two for each port, to close it and to
\* return, and one for each channel.
Remaining ==
    2 * Cardinality(t.active \cap Port) + Cardinality(t.active \cap Chan)
      + IF destroying = NULL THEN 0 ELSE 1

LEMMA HandleCounts ==
    ASSUME IInv
    PROVE  /\ IsFiniteSet(t.active \cap Port) /\ IsFiniteSet(t.active \cap Chan)
           /\ Cardinality(t.active \cap Port) \in Nat
           /\ Cardinality(t.active \cap Chan) \in Nat
           /\ Remaining \in Nat
  <1>1. IsFiniteSet(t.active \cap Port) /\ IsFiniteSet(t.active \cap Chan)
    BY IInvGood, TableFitsWord DEF Handle
  <1> QED  BY <1>1, FS_CardinalityType DEF Remaining

LEMMA OneFewer ==
    ASSUME NEW S, NEW h \in S, IsFiniteSet(S)
    PROVE  Cardinality(S \ {h}) = Cardinality(S) - 1
  BY FS_RemoveElement

LEMMA PortDestroyShrinks ==
    ASSUME IInv, NEW p \in PortCtx, ipc_port_destroy(p)
    PROVE  Remaining' = Remaining - 1
  <1> DEFINE h == portHandle[p]
             ports == Cardinality(t.active \cap Port)
             chans == Cardinality(t.active \cap Chan)
  <1>1. /\ p \in up /\ destroying = NULL /\ destroying' = p
        /\ t' = close(t, h)
    BY DEF ipc_port_destroy
  <1>2. h \in t.active /\ h \in Port /\ h \notin Chan
    BY <1>1, IInvGood, ContextTypes, Distinct DEF Handle
  <1>3. t'.active = t.active \ {h}
    <2>1. SameOpen(t, t)
      BY IInvGood, GoodIsSame
    <2>2. Closed(t, t', h)
      BY <1>1, <1>2, <2>1, CloseOpen
    <2> QED  BY <2>2 DEF Closed
  <1>4. /\ t'.active \cap Port = (t.active \cap Port) \ {h}
        /\ t'.active \cap Chan = t.active \cap Chan
    BY <1>2, <1>3
  <1>5. Cardinality((t.active \cap Port) \ {h}) = ports - 1
    BY <1>2, HandleCounts, OneFewer
  <1>6. Remaining = 2 * ports + chans + 0
    BY <1>1 DEF Remaining
  <1>7. Remaining' = 2 * (ports - 1) + chans + 1
    <2>1. destroying' # NULL
      BY <1>1, Distinct
    <2> QED  BY <1>4, <1>5, <2>1 DEF Remaining
  <1>8. ports \in Nat /\ chans \in Nat
    BY HandleCounts
  <1> HIDE DEF ports, chans
  <1> QED  BY <1>6, <1>7, <1>8

LEMMA DestroyChannelShrinks ==
    ASSUME IInv, NEW p \in PortCtx, DestroyChannel(p)
    PROVE  Remaining' = Remaining - 1
  <1>1. PICK c \in channels[p] : FreeContext(c, p) /\ t' = close(t, chanHandle[c])
    BY DEF DestroyChannel
  <1> DEFINE h == chanHandle[c]
             ports == Cardinality(t.active \cap Port)
             chans == Cardinality(t.active \cap Chan)
             open == IF destroying = NULL THEN 0 ELSE 1
  <1>2. destroying' = destroying
    BY DEF DestroyChannel
  <1>3. h \in t.active /\ h \in Chan /\ h \notin Port
    <2>1. c \in live
      BY <1>1, ContextTypes DEF IInv, ListsHoldLive
    <2> QED  BY <2>1, IInvGood, ContextTypes, Distinct DEF Handle
  <1>4. t'.active = t.active \ {h}
    <2>1. SameOpen(t, t)
      BY IInvGood, GoodIsSame
    <2>2. Closed(t, t', h)
      BY <1>1, <1>3, <2>1, CloseOpen
    <2> QED  BY <2>2 DEF Closed
  <1>5. /\ t'.active \cap Chan = (t.active \cap Chan) \ {h}
        /\ t'.active \cap Port = t.active \cap Port
    BY <1>3, <1>4
  <1>6. Cardinality((t.active \cap Chan) \ {h}) = chans - 1
    BY <1>3, HandleCounts, OneFewer
  <1>7. Remaining = 2 * ports + chans + open
    BY DEF Remaining
  <1>8. Remaining' = 2 * ports + (chans - 1) + open
    BY <1>2, <1>5, <1>6 DEF Remaining
  <1>9. ports \in Nat /\ chans \in Nat /\ open \in {0, 1}
    BY HandleCounts
  <1> HIDE DEF ports, chans, open
  <1> QED  BY <1>7, <1>8, <1>9

\* A teardown ends after as many steps as Remaining says: each step takes it
\* down by one, nothing is opened meanwhile, and main returns at 0.
TeardownEnds ==
    [][mode = "teardown" =>
          \/ mode' = "teardown" /\ Remaining' = Remaining - 1
          \/ mode' = "exited" /\ Remaining = 0]_vars

LEMMA TeardownStep ==
    ASSUME IInv, Next, mode = "teardown"
    PROVE  \/ mode' = "teardown" /\ Remaining' = Remaining - 1
           \/ mode' = "exited" /\ Remaining = 0
  <1>1. CASE \E p \in PortCtx : PortStep(p)
    <2>1. PICK p \in PortCtx : ipc_port_destroy(p) \/ DestroyChannel(p) \/ DestroyReturns(p)
      BY <1>1 DEF PortStep, ipc_port_create, handle_port_errors, do_connect, Dispatching
    <2>2. mode' = "teardown"
      BY <2>1 DEF ipc_port_destroy, DestroyChannel, DestroyReturns
    <2>3. CASE DestroyReturns(p)
      <3>1. destroying # NULL /\ destroying' = NULL /\ t' = t
        BY <2>3, Distinct DEF DestroyReturns
      <3> QED  BY <2>2, <3>1, HandleCounts DEF Remaining
    <2> QED  BY <2>1, <2>2, <2>3, PortDestroyShrinks, DestroyChannelShrinks
  <1>2. CASE Exit
    <2>1. up = {} /\ destroying = NULL /\ mode' = "exited"
      BY <1>2 DEF Exit
    <2>2. t.active \cap Port = {} /\ t.active \cap Chan = {}
      BY <2>1, Distinct DEF IInv, PortsMatch, ChannelsMatch, ListsHoldLive
    <2> QED  BY <2>1, <2>2, FS_EmptySet DEF Remaining
  <1> QED
    BY <1>1, <1>2 DEF Next, StartLoop, WaitAnyFails, WaitAny, DispatchNone, ChanStep,
       handle_chan_errors, handle_channel, Dispatching, Terminated

\* Every step of a teardown is one that remains, and main returns when none does:
\* the loops of ipc_port_destroy (ipc.c) never wait, and never run for ever.
THEOREM StorageTeardownEnds == Spec => TeardownEnds
  <1>1. ASSUME IInv, [Next]_vars
        PROVE  [mode = "teardown" =>
                  \/ mode' = "teardown" /\ Remaining' = Remaining - 1
                  \/ mode' = "exited" /\ Remaining = 0]_vars
    BY <1>1, TeardownStep
  <1> QED  BY <1>1, Invariance, PTL DEF Spec, TeardownEnds

===============================================================================
