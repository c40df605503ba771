------------------------------ MODULE StorageIpc ------------------------------
(***************************************************************************)
(* The IPC server of the storage application (storage/ipc.c), linked with  *)
(* the callbacks of sea_ipc_helper.c, over the handle table and the system *)
(* calls.  Its caller is a program like the harnesses of storage/jobs/ipc: *)
(* it creates ports, runs ipc_loop and destroys the ports.                 *)
(*                                                                         *)
(* The server is sequential.  The environment chooses what the system      *)
(* calls return, which handle has an event and which bits it carries, and  *)
(* whether an allocation fails.  A handler that runs between two calls of  *)
(* wait_any is one step, which a handler whose inner wait never ends does  *)
(* not take; ipc_port_destroy is one step per closed handle.               *)
(***************************************************************************)
EXTENDS SyncIpc

CONSTANTS
    PortCtx,            \* addresses of struct ipc_port_context
    ChanCtx,            \* addresses malloc has for struct ipc_channel_context
    PortPath,           \* the path each port is created with
    PortFlags,          \* the flags each port is created with
    MaxBufSize,         \* the max_buffer_size each port is created with
    MSG_BUF_MAX_SIZE,
    SyncPort            \* ports whose on_connect is sea_sync_channel_connect

ASSUME Contexts ==
    /\ PortCtx \cap ChanCtx = {}
    /\ Cookie = PortCtx \cup ChanCtx

ASSUME ServerConstants ==
    /\ PortPath \in [PortCtx -> Char]
    /\ NULL \notin Char
    /\ PortFlags \in [PortCtx -> SUBSET PortFlag]
    /\ MaxBufSize \in [PortCtx -> Nat]
    /\ MSG_BUF_MAX_SIZE \in Nat
    /\ SyncPort \subseteq PortCtx

\* What do_handle_msg takes for granted: it compares the length of a message
\* with MSG_BUF_MAX_SIZE and not with the size of the buffer, so every port
\* must be created with a maximal message at least that large.  The harnesses
\* pass STORAGE_MAX_BUFFER_SIZE.
ASSUME BufferHoldsMessages == \A p \in PortCtx : MSG_BUF_MAX_SIZE <= MaxBufSize[p]

ERR_NO_MEMORY == -6

VARIABLES
    t,            \* the handle table
    mode,         \* where the program is
    ev,           \* the event ipc_loop is about to dispatch, or NoEvent
    up,           \* port contexts created and not destroyed
    portHandle,   \* ctx->common.handle of a port context
    channels,     \* ctx->channels, the list of a port context, as a set
    destroying,   \* the port context ipc_port_destroy is at work on, or NULL
    live,         \* channel contexts allocated and not freed
    chanHandle,   \* ctx->common.handle of a channel context
    readers,      \* channel contexts whose ops.on_handle_msg is not NULL
    msg_buf_size,
    msgHigh       \* history: the most bytes read_msg ever stored in msg_buf

ctxVars == <<up, portHandle, channels, destroying, live, chanHandle, readers>>
bufVars == <<msg_buf_size, msgHigh>>
vars == <<t, mode, ev, ctxVars, bufVars>>

NoEvent == [handle |-> INVALID_IPC_HANDLE, event |-> {}, cookie |-> NULL]

Init ==
    /\ t = InitTable
    /\ mode = "setup"
    /\ ev = NoEvent
    /\ up = {}
    /\ portHandle = [p \in PortCtx |-> INVALID_IPC_HANDLE]
    /\ channels = [p \in PortCtx |-> {}]
    /\ destroying = NULL
    /\ live = {}
    /\ chanHandle = [c \in ChanCtx |-> INVALID_IPC_HANDLE]
    /\ readers = {}
    /\ msg_buf_size = 0
    /\ msgHigh = 0

\* The buffer only grows; realloc may fail.
maybe_grow_msg_buf(new_max_size) ==
    IF new_max_size > msg_buf_size
    THEN {[rc |-> ERR_NO_MEMORY, size |-> msg_buf_size],
          [rc |-> NO_ERROR, size |-> new_max_size]}
    ELSE {[rc |-> NO_ERROR, size |-> msg_buf_size]}

-------------------------------------------------------------------------------
(* ipc_port_create and the start of ipc_loop.                              *)

ipc_port_create(p) ==
    /\ mode = "setup"
    /\ p \notin up
    /\ \E r \in trusty_port_create(t, PortPath[p], PortFlags[p]) :
          \/ /\ r.rc = INVALID_IPC_HANDLE
             /\ t' = r.tab
             /\ UNCHANGED <<mode, ev, ctxVars, bufVars>>
          \/ /\ r.rc # INVALID_IPC_HANDLE
             /\ \E s \in set_cookie(r.tab, r.rc, p),
                   g \in maybe_grow_msg_buf(MaxBufSize[p]) :
                   \/ /\ s.rc < 0 \/ g.rc < 0       \* err_set_cookie, err_grow_msg
                      /\ t' = close(s.tab, r.rc)
                      /\ UNCHANGED <<mode, ev, ctxVars, bufVars>>
                   \/ /\ s.rc >= 0 /\ g.rc >= 0
                      /\ t' = s.tab
                      /\ msg_buf_size' = g.size
                      /\ portHandle' = [portHandle EXCEPT ![p] = r.rc]
                      /\ channels' = [channels EXCEPT ![p] = {}]
                      /\ up' = up \cup {p}
                      /\ UNCHANGED <<mode, ev, destroying, live, chanHandle,
                                     readers, msgHigh>>

StartLoop ==
    /\ mode = "setup"
    /\ up # {}
    /\ mode' = "loop"
    /\ UNCHANGED <<t, ev, ctxVars, bufVars>>

-------------------------------------------------------------------------------
(* ipc_loop: wait_any, then dispatch_event.                                *)

WaitAnyFails ==
    /\ mode = "loop"
    /\ ev = NoEvent
    /\ mode' = "teardown"
    /\ UNCHANGED <<t, ev, ctxVars, bufVars>>

WaitAny ==
    /\ mode = "loop"
    /\ ev = NoEvent
    /\ \E h \in sea_ht_choose_active_handle(t), bits \in SUBSET Event,
          id \in MsgId, len \in MsgLen :
          LET e == EventOn(t, h, bits, id, len)
          IN  /\ t' = e.tab
              /\ ev' = [handle |-> e.handle, event |-> e.event,
                        cookie |-> e.cookie]
    /\ UNCHANGED <<mode, ctxVars, bufVars>>

\* dispatch_event returns at once when no bit is set.
DispatchNone ==
    /\ mode = "loop"
    /\ ev # NoEvent
    /\ ev.event = {}
    /\ ev' = NoEvent
    /\ UNCHANGED <<t, mode, ctxVars, bufVars>>

Dispatching(ctx) == mode = "loop" /\ ev.event # {} /\ ev.cookie = ctx

-------------------------------------------------------------------------------
(* handle_port: the event handler of a port context.                       *)

handle_port_errors(p) ==
    /\ Dispatching(p)
    /\ ev.event \cap {"ERROR", "HUP", "MSG", "SEND_UNBLOCKED"} # {}
    /\ mode' = "aborted"
    /\ UNCHANGED <<t, ev, ctxVars, bufVars>>

\* Mutant: an error path of do_connect that forgets close(chan_handle).
RefuseConnection_NoClose(tab, h) ==
    /\ t' = tab
    /\ UNCHANGED <<mode, ctxVars, bufVars>>

\* The connection is dropped: the channel is closed again and a context that
\* was allocated for it is freed (on_disconnect).
RefuseConnection(tab, h) ==
    /\ t' = close(tab, h)
    /\ UNCHANGED <<mode, ctxVars, bufVars>>

do_connect(p) ==
    /\ Dispatching(p)
    /\ ev.event = {"READY"}
    /\ ev' = NoEvent
    /\ \E r \in trusty_accept(t, ev.handle) :
          \/ /\ r.rc = INVALID_IPC_HANDLE
             /\ t' = r.tab
             /\ UNCHANGED <<mode, ctxVars, bufVars>>
          \/ /\ r.rc # INVALID_IPC_HANDLE                      \* err_on_connect
             /\ RefuseConnection(r.tab, r.rc)
          \/ /\ r.rc # INVALID_IPC_HANDLE
             /\ \E c \in ChanCtx \ live : \E s \in set_cookie(r.tab, r.rc, c) :
                   /\ s.rc < 0                                 \* err_set_cookie
                   /\ RefuseConnection(s.tab, r.rc)
          \/ /\ r.rc # INVALID_IPC_HANDLE
             /\ \E c \in ChanCtx \ live, reader \in BOOLEAN :
                \E s \in set_cookie(r.tab, r.rc, c) :
                   /\ s.rc >= 0
                   /\ t' = s.tab
                   /\ live' = live \cup {c}
                   /\ chanHandle' = [chanHandle EXCEPT ![c] = r.rc]
                   /\ readers' = IF reader THEN readers \cup {c} ELSE readers
                   /\ channels' = [channels EXCEPT ![p] = @ \cup {c}]
             /\ UNCHANGED <<mode, up, portHandle, destroying, bufVars>>

-------------------------------------------------------------------------------
(* handle_channel: the event handler of a channel context.                 *)

handle_chan_errors(c) ==
    /\ Dispatching(c)
    /\ ev.event \cap {"ERROR", "READY"} # {}
    /\ mode' = "aborted"
    /\ UNCHANGED <<t, ev, ctxVars, bufVars>>

\* What handling a message leads to: the value returned, the table, the bytes put
\* in msg_buf, whether the assertion of sync_ipc_msg_handler holds, and whether
\* that handler took the request, which do_handle_msg had retired, for its
\* response.
Outcome(rc, tab, wrote) ==
    [rc |-> rc, tab |-> tab, wrote |-> wrote, asserted |-> TRUE, stale |-> FALSE]

\* sea_ipc_msg_handler echoes the message.
sea_ipc_msg_handler(tab, len, wrote) ==
    {Outcome(IF sent < 0 THEN sent ELSE NO_ERROR, tab, wrote) :
        sent \in trusty_send_msg(<<len>>)}

\* sync_ipc_msg_handler sends a message of the same length and waits for a
\* response of that length.
sync_ipc_msg_handler(tab, h, len, wrote, retired) ==
    {[Outcome(IF r.rc < 0 THEN r.rc ELSE NO_ERROR, r.tab, wrote)
        EXCEPT !.asserted = r.rc > 0 => r.rc = len,
               !.stale    = r.rc > 0 /\ retired /\ ~ r.arrived] :
        r \in sync_ipc_send_msg(tab, h, <<len>>, <<len>>)}

\* ctx->ops.on_handle_msg, which on_connect of the context's port has set.
on_handle_msg(c, tab, h, len, wrote, retired) ==
    IF \E p \in SyncPort : c \in channels[p]
    THEN sync_ipc_msg_handler(tab, h, len, wrote, retired)
    ELSE sea_ipc_msg_handler(tab, len, wrote)

\* What reading and retiring message g (a result of get_msg) on h may lead to.
\* The result of put_msg is not looked at.
ReadAndHandle(c, tab, h, g) ==
    LET r == trusty_read_msg(tab, h, g.id, 0, <<g.len>>)
    IN  UNION {IF r.rc < g.len
               THEN {Outcome(IF r.rc < 0 THEN r.rc ELSE ERR_NOT_VALID, put.tab, r.stored[1])}
               ELSE on_handle_msg(c, put.tab, h, g.len, r.stored[1], put.rc = NO_ERROR) :
                 put \in trusty_put_msg(tab, h)}

\* Mutant: the length check is off by one.
AfterGetMsg_OffByOne(c, tab, h, g) ==
    IF g.rc # NO_ERROR
    THEN {Outcome(IF g.rc = ERR_NO_MSG THEN NO_ERROR ELSE g.rc, tab, 0)}
    ELSE IF g.len > MSG_BUF_MAX_SIZE + 1
    THEN {Outcome(ERR_NOT_ENOUGH_BUFFER, put.tab, 0) :
             put \in trusty_put_msg(tab, h)}
    ELSE ReadAndHandle(c, tab, h, g)

\* What do_handle_msg does with a result of get_msg.
AfterGetMsg(c, tab, h, g) ==
    CASE g.rc = ERR_NO_MSG
           -> {Outcome(NO_ERROR, tab, 0)}
      [] g.rc \notin {NO_ERROR, ERR_NO_MSG}
           -> {Outcome(g.rc, tab, 0)}
      [] g.rc = NO_ERROR /\ g.len > MSG_BUF_MAX_SIZE
           -> {Outcome(ERR_NOT_ENOUGH_BUFFER, put.tab, 0) :
                  put \in trusty_put_msg(tab, h)}
      [] OTHER
           -> ReadAndHandle(c, tab, h, g)

do_handle_msg(c, tab, h) ==
    UNION {AfterGetMsg(c, tab, h, g) : g \in trusty_get_msg(tab, h)}

\* The outcomes of the POLL_MSG part of handle_channel.
HandleMsg(c) ==
    IF "MSG" \notin ev.event THEN {Outcome(NO_ERROR, t, 0)}
    ELSE IF c \notin readers THEN {Outcome(ERR_GENERIC, t, 0)}
    ELSE do_handle_msg(c, t, ev.handle)

\* Mutants: list_delete forgotten; the whole list dropped instead of a node.
FreeContext_NoDelete(c, p) ==
    /\ live' = live \ {c}
    /\ chanHandle' = [chanHandle EXCEPT ![c] = INVALID_IPC_HANDLE]
    /\ readers' = readers \ {c}
    /\ UNCHANGED channels

FreeContext_DropList(c, p) ==
    /\ channels' = [channels EXCEPT ![p] = {}]
    /\ live' = live \ {c}
    /\ chanHandle' = [chanHandle EXCEPT ![c] = INVALID_IPC_HANDLE]
    /\ readers' = readers \ {c}

\* list_delete and on_disconnect, which frees the context.
FreeContext(c, p) ==
    /\ channels' = [channels EXCEPT ![p] = @ \ {c}]
    /\ live' = live \ {c}
    /\ chanHandle' = [chanHandle EXCEPT ![c] = INVALID_IPC_HANDLE]
    /\ readers' = readers \ {c}

\* Mutant: the handle is closed by on_disconnect as well.
do_disconnect_Twice(c, tab) ==
    /\ t' = close(close(tab, ev.handle), ev.handle)
    /\ \E p \in PortCtx : c \in channels[p] /\ FreeContext(c, p)

\* The peer is gone: its context is freed and the handle of the event closed.
do_disconnect(c, tab) ==
    /\ t' = close(tab, ev.handle)
    /\ \E p \in PortCtx : c \in channels[p] /\ FreeContext(c, p)

handle_channel(c) ==
    /\ Dispatching(c)
    /\ ev.event \cap {"ERROR", "READY"} = {}
    /\ ev' = NoEvent
    /\ \E m \in HandleMsg(c) :
          /\ msgHigh' = Larger(m.wrote, msgHigh)
          /\ \/ /\ m.rc < 0 \/ "HUP" \in ev.event
                /\ do_disconnect(c, m.tab)
             \/ /\ m.rc >= 0 /\ "HUP" \notin ev.event
                /\ t' = m.tab
                /\ UNCHANGED <<channels, live, chanHandle, readers>>
    /\ UNCHANGED <<mode, up, portHandle, destroying, msg_buf_size>>

-------------------------------------------------------------------------------
(* ipc_port_destroy, and the end of the program.                           *)

\* Mutant: the port's own handle is not closed.
ipc_port_destroy_PortOpen(p) ==
    /\ mode \in {"setup", "teardown"}
    /\ destroying = NULL
    /\ p \in up
    /\ mode' = "teardown"
    /\ destroying' = p
    /\ up' = up \ {p}
    /\ UNCHANGED <<t, ev, portHandle, channels, live, chanHandle, readers, bufVars>>

ipc_port_destroy(p) ==
    /\ mode \in {"setup", "teardown"}
    /\ destroying = NULL
    /\ p \in up
    /\ mode' = "teardown"
    /\ destroying' = p
    /\ up' = up \ {p}
    /\ t' = close(t, portHandle[p])
    /\ UNCHANGED <<ev, portHandle, channels, live, chanHandle, readers, bufVars>>

\* One iteration of the while loop of ipc_port_destroy.
DestroyChannel(p) ==
    /\ destroying = p
    /\ \E c \in channels[p] :
          /\ FreeContext(c, p)
          /\ t' = close(t, chanHandle[c])
    /\ UNCHANGED <<mode, ev, up, portHandle, destroying, bufVars>>

DestroyReturns(p) ==
    /\ destroying = p
    /\ channels[p] = {}
    /\ destroying' = NULL
    /\ UNCHANGED <<t, mode, ev, up, portHandle, channels, live, chanHandle,
                   readers, bufVars>>

\* main returns, at once when ipc_port_create failed.
Exit ==
    /\ mode \in {"setup", "teardown"}
    /\ up = {} /\ destroying = NULL
    /\ mode' = "exited"
    /\ UNCHANGED <<t, ev, ctxVars, bufVars>>

Terminated ==
    /\ mode \in {"exited", "aborted"}
    /\ UNCHANGED vars

PortStep(p) ==
    \/ ipc_port_create(p)
    \/ handle_port_errors(p) \/ do_connect(p)
    \/ ipc_port_destroy(p) \/ DestroyChannel(p) \/ DestroyReturns(p)

ChanStep(c) == handle_chan_errors(c) \/ handle_channel(c)

Next ==
    \/ StartLoop \/ WaitAnyFails \/ WaitAny \/ DispatchNone
    \/ \E p \in PortCtx : PortStep(p)
    \/ \E c \in ChanCtx : ChanStep(c)
    \/ Exit
    \/ Terminated

Spec == Init /\ [][Next]_vars

\* A teardown that was begun goes on: close and on_disconnect return, and main
\* destroys every port.  Nothing is assumed of the loop and its handlers: wait_any
\* may block for ever, and so may wait within sync_ipc_send_msg.
Fairness ==
    /\ \A p \in PortCtx :
          WF_vars(DestroyChannel(p) \/ DestroyReturns(p)
                    \/ (mode = "teardown" /\ ipc_port_destroy(p)))
    /\ WF_vars(mode = "teardown" /\ Exit)

FairSpec == Spec /\ Fairness

-------------------------------------------------------------------------------
(* Properties.                                                             *)

\* The state has its type.
TypeOK ==
    /\ t \in Table
    /\ mode \in {"setup", "loop", "teardown", "exited", "aborted"}
    /\ ev \in [handle : Handle \cup {INVALID_IPC_HANDLE}, event : SUBSET Event,
               cookie : Cookie \cup {NULL}]
    /\ up \subseteq PortCtx
    /\ portHandle \in [PortCtx -> Port \cup {INVALID_IPC_HANDLE}]
    /\ channels \in [PortCtx -> SUBSET ChanCtx]
    /\ destroying \in PortCtx \cup {NULL}
    /\ live \subseteq ChanCtx
    /\ chanHandle \in [ChanCtx -> Chan \cup {INVALID_IPC_HANDLE}]
    /\ readers \subseteq ChanCtx
    /\ msg_buf_size \in Nat
    /\ msgHigh \in Nat

\* Every active handle is that of one live context, which is its cookie, and
\* every live context has an active handle.  No error path of do_connect or of
\* ipc_port_create, no disconnection and no partial teardown leaves a handle
\* open without its context, or a context whose handle was closed (and may be
\* handed to another connection).
PortsMatch ==
    /\ t.active \cap Port = {portHandle[p] : p \in up}
    /\ \A p \in up : t.cookie[portHandle[p]] = p

ChannelsMatch ==
    /\ t.active \cap Chan = {chanHandle[c] : c \in live}
    /\ \A c \in live : t.cookie[chanHandle[c]] = c

HandlesMatchContexts == PortsMatch /\ ChannelsMatch

\* A live channel context is on the list of exactly one port, one that is up
\* or being destroyed, and nothing else is on a list: ipc_port_destroy reaches
\* every channel of its port, and only memory that was not freed.
ListsHoldLive ==
    /\ live = UNION {channels[p] : p \in PortCtx}
    /\ \A p, q \in PortCtx : p # q => channels[p] \cap channels[q] = {}
    /\ \A p \in PortCtx : channels[p] # {} => p \in up \/ p = destroying

\* The assertions of dispatch_event: the cookie of an event is the address of
\* a context that exists, and the context's handle is the event's.
DispatchSound ==
    (mode = "loop" /\ ev.event # {}) =>
        \/ ev.cookie \in up   /\ portHandle[ev.cookie] = ev.handle
        \/ ev.cookie \in live /\ chanHandle[ev.cookie] = ev.handle

\* read_msg never stores more than msg_buf holds, whatever length the message
\* has and in whatever order ports of several buffer sizes were created.
MsgFitsBuffer == msgHigh <= msg_buf_size

\* The server closes each handle once: the counters of the table never drift
\* from the number of active handles.
ClosedOnce == CountersAgree(t)

\* port_create_destroy_harness.c:37,45: the handle of a context is an active
\* port while the context is up, and not after its ipc_port_destroy.
CreateDestroy ==
    \A p \in PortCtx :
        /\ p \in up => sea_ht_is_active_port(t, portHandle[p])
        /\ (mode \in {"teardown", "exited"} /\ p \notin up)
              => ~ sea_ht_is_active_port(t, portHandle[p])

\* The assertion of sync_ipc_msg_handler (sea_ipc_helper.c:65), for every way
\* send_msg, the two waits, get_msg, read_msg and put_msg may go: a response has
\* the length of the request.
SyncAssertion ==
    \A c \in ChanCtx : Dispatching(c) => \A m \in HandleMsg(c) : m.asserted

\* What sync_ipc_msg_handler takes for the response arrived while it waited; it is
\* the request itself only where put_msg had failed to retire it.  await_response
\* takes any event for the response, and calls get_msg.
ResponseIsNew ==
    \A c \in ChanCtx : Dispatching(c) => \A m \in HandleMsg(c) : ~ m.stale

\* The event of one handle does not disturb the other connections: their
\* contexts stay live, on the same list, and their handles stay open.
Isolation ==
    [][ (mode = "loop" /\ ev # NoEvent) =>
          \A c \in live : chanHandle[c] # ev.handle =>
             /\ c \in live'
             /\ chanHandle'[c] = chanHandle[c]
             /\ chanHandle[c] \in t'.active
             /\ \A p \in PortCtx : c \in channels[p] => c \in channels'[p]
      ]_vars

\* Once ipc_loop was left, every port is destroyed, every connection closed
\* and every context freed, however many clients were still connected.
TeardownCompletes ==
    mode = "teardown" ~> (mode = "exited" /\ t.active = {} /\ live = {})

===============================================================================
