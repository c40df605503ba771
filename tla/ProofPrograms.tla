----------------------------- MODULE ProofPrograms -----------------------------
(***************************************************************************)
(* The programs under libc-trusty/proof and libc-trusty-ptr/proof, which   *)
(* SeaHorn verifies: their assertions over every result of every call.     *)
(*                                                                         *)
(* A program is the sequence of its calls, assumptions and assertions,     *)
(* written over the state of the program that runs.  An if whose branch is *)
(* the rest of the program is an assumption.  The two builds run the same  *)
(* programs, up to what they assert of handles.                            *)
(***************************************************************************)
EXTENDS TrustySyscalls, Sequences

CONSTANTS
    PtrHandle,      \* the addresses malloc has for a HandleState
    MsgId, MsgLen,
    WaitBits        \* the events a wait may report, as sets of bits

\* The integer programs are written for the handles of the source.
ASSUME SourceHandles ==
    /\ PORT_HANDLE_MIN = 1  /\ PORT_HANDLE_MAX = 2
    /\ CHAN_HANDLE_MIN = 16 /\ CHAN_HANDLE_MAX = 17

ASSUME ProgramData ==
    /\ MsgId \subseteq Nat \ {INVALID_IPC_MSG_ID} /\ MsgLen \subseteq Nat
    /\ WaitBits \subseteq SUBSET Event
    /\ \E a, b \in Char : a # b
    /\ Cookie # {}
    /\ NULL \notin PtrHandle \cup Char

\* The programs of each build.
IntProgram == {
    "int_port_create", "int_port_close", "int_port_accept", "int_port_connect",
    "int_port_wait", "int_port_wait_any", "int_port_set_cookie", "int_port_get_msg",
    "int_port_put_msg", "int_port_read_msg", "int_port_send_msg" }

PtrProgram == {
    "ptr_port_create", "ptr_port_close", "ptr_port_accept", "ptr_port_connect",
    "ptr_port_wait", "ptr_port_wait_any", "ptr_port_set_cookie", "ptr_port_get_msg",
    "ptr_port_put_msg", "ptr_port_read_msg", "ptr_port_send_msg" }

VARIABLES
    prog,   \* the program
    pc,     \* the index of its next instruction
    t,      \* the table of its build
    e       \* its variables

vars == <<prog, pc, t, e>>

\* The library that the programs are linked with is built with
\* CAN_RETURN_INVALID_IPC_HANDLE = 0.
Ptr == INSTANCE PtrSyscalls WITH
    Handle <- PtrHandle, Path <- Char, CAN_RETURN_INVALID_IPC_HANDLE <- FALSE

NoHandle == IF prog \in IntProgram THEN INVALID_IPC_HANDLE ELSE Ptr!INVALID_HANDLE
NoEvent  == [handle |-> NoHandle, cookie |-> NULL, event |-> {}]

Init ==
    /\ prog \in IntProgram \cup PtrProgram
    /\ pc = 1
    /\ t = IF prog \in IntProgram THEN InitTable ELSE Ptr!InitTable
    /\ e = [port |-> NoHandle, h2 |-> NoHandle, h3 |-> NoHandle, h4 |-> NoHandle,
            chan |-> NoHandle, rc |-> 0, ev |-> NoEvent, id |-> 0, peer |-> "none"]

-------------------------------------------------------------------------------
(* Instructions.                                                           *)

Do(op, h, arg, dest) ==
    [op |-> op, h |-> h, arg |-> arg, dest |-> dest, holds |-> TRUE]

sassert(p) == [op |-> "sassert", h |-> NULL, arg |-> 0, dest |-> "rc", holds |-> p]
assume(p)  == [op |-> "assume", h |-> NULL, arg |-> 0, dest |-> "rc", holds |-> p]

port_create(dest, path, flags) ==
    Do("port_create", NULL, [path |-> path, flags |-> flags], dest)
connect(path, dest) == Do("connect", NULL, path, dest)
accept(port)        == Do("accept", port, 0, "chan")
closes(h)           == Do("close", h, 0, "rc")
wait(h)             == Do("wait", h, 0, "rc")
wait_any            == Do("wait_any", NULL, 0, "rc")
get_msg             == Do("get_msg", e.chan, 0, "rc")
read_msg(size)      == Do("read_msg", e.chan, size, "rc")
put_msg             == Do("put_msg", e.chan, 0, "rc")
send_msg(h, size)   == Do("send_msg", h, size, "rc")

-------------------------------------------------------------------------------
(* The programs, up to two assertions: np, that the port is non-secure, and *)
(* nc, that the channel is one.                                             *)

TA   == {"TA"}
NS   == {"NS"}
BOTH == {"TA", "NS"}
PATH == CHOOSE c \in Char : TRUE

EventIsPort == e.ev.handle = e.port /\ e.ev.cookie = NULL

\* From get_msg to put_msg, with a buffer of this size.
Echo(size) == <<
    get_msg, assume(e.rc = NO_ERROR), sassert(e.id # 0),
    read_msg(size), assume(e.rc >= NO_ERROR), sassert(e.rc <= size),
    put_msg, assume(e.rc = NO_ERROR) >>

\* From the first wait to the message on the accepted channel.
Serve(nc) == <<
    wait(e.port), sassert(e.rc <= NO_ERROR), assume(e.rc = NO_ERROR),
    sassert(EventIsPort), assume("READY" \in e.ev.event),
    accept(e.port), assume(e.chan # NoHandle), nc,
    wait(e.chan), sassert(e.rc <= NO_ERROR), assume(e.rc = NO_ERROR),
    assume("MSG" \in e.ev.event) >>

Waits(np, nc, first, second, named) ==
    << port_create("port", PATH, TA), np >> \o named \o
    << first, sassert(e.rc <= NO_ERROR), sassert(e.rc = NO_ERROR => EventIsPort),
       accept(e.port), assume(e.chan # NoHandle), nc,
       second, sassert(e.rc <= NO_ERROR), assume(e.rc = NO_ERROR),
       assume("MSG" \in e.ev.event) >>
    \o Echo(4096) \o << read_msg(4096), sassert(e.rc < NO_ERROR) >>

Cookies(np) == <<
    port_create("port", PATH, TA), np,
    Do("set_cookie", e.port, 0, "rc"), sassert(e.rc = 0),
    wait(e.port), sassert(e.rc <= NO_ERROR),
    sassert(e.rc = NO_ERROR => e.ev.handle = e.port /\ e.ev.cookie # NULL) >>

Gets(np, nc) ==
    << port_create("port", PATH, TA), np >> \o Serve(nc) \o
    << get_msg, sassert(e.rc = NO_ERROR => e.id # 0),
       closes(e.chan), sassert(e.rc = NO_ERROR) >>

Puts(np, nc) ==
    << port_create("port", PATH, TA), np >> \o Serve(nc) \o Echo(64) \o
    << read_msg(64), sassert(e.rc < NO_ERROR) >>

Reads(np, nc) ==
    << port_create("port", PATH, TA), np >> \o Serve(nc) \o Echo(64) \o
    << closes(e.chan), sassert(e.rc = NO_ERROR) >>

\* named is the call that names the port to the pointer build; the client's
\* channel is in h2.
Sends(np, named, client, nc) ==
    << port_create("port", PATH, TA), np >> \o named \o
    << connect(PATH, "h2"), client, send_msg(e.h2, 32), assume(e.rc >= 0) >>
    \o Serve(nc) \o Echo(64) \o << closes(e.chan), sassert(e.rc = NO_ERROR) >>

-------------------------------------------------------------------------------
(* The programs of the integer build.                                      *)

int_port_create == <<
    port_create("port", PATH, BOTH), sassert(e.port = 2),
    port_create("h2", PATH, BOTH), sassert(e.h2 = INVALID_IPC_HANDLE),
    port_create("h2", PATH, NS), sassert(e.h2 = 1),
    port_create("h3", PATH, NS), sassert(e.h3 = INVALID_IPC_HANDLE),
    closes(e.port), port_create("port", PATH, BOTH), sassert(e.port = 2) >>

int_port_close == <<
    port_create("port", PATH, BOTH), sassert(e.port = 2),
    port_create("h2", PATH, BOTH), sassert(e.h2 = INVALID_IPC_HANDLE),
    port_create("h3", PATH, NS), sassert(e.h3 = 1),
    port_create("h4", PATH, NS), sassert(e.h4 = INVALID_IPC_HANDLE),
    closes(e.port), sassert(e.rc = 0), closes(e.h2), sassert(e.rc = 0),
    closes(e.h3), sassert(e.rc = 0), closes(e.h4), sassert(e.rc = 0),
    port_create("port", PATH, BOTH), sassert(e.port = 2) >>

int_port_accept == <<
    port_create("port", PATH, BOTH), sassert(e.port = 2),
    accept(e.port), assume(e.chan # INVALID_IPC_HANDLE),
    sassert(e.chan = 16), sassert(e.peer = "zeros"),
    closes(e.port), sassert(e.rc = 0),
    port_create("port", PATH, NS), sassert(e.port = 1),
    accept(e.port), assume(e.chan # INVALID_IPC_HANDLE), sassert(e.chan = 17) >>

int_port_connect ==
    LET b == CHOOSE c \in Char : c # PATH
    IN  << port_create("port", PATH, TA), sassert(e.port = 2),
           port_create("h2", b, NS), sassert(e.h2 = 1),
           connect(PATH, "chan"), sassert(e.chan > 0),
           connect(b, "chan"), sassert(e.chan > 0) >>

Port2  == sassert(e.port = 2)
Chan16 == sassert(e.chan = 16)

int_port_wait       == Waits(Port2, Chan16, wait(e.port), wait(e.chan), <<>>)
int_port_wait_any   == Waits(Port2, Chan16, wait_any, wait_any, <<>>)
int_port_set_cookie == Cookies(Port2)
int_port_get_msg    == Gets(Port2, Chan16)
int_port_put_msg    == Puts(Port2, Chan16)
int_port_read_msg   == Reads(Port2, Chan16)
int_port_send_msg   ==
    Sends(Port2, <<>>, sassert(e.h2 = 16), sassert(e.chan = 17))

-------------------------------------------------------------------------------
(* The programs of the pointer build.                                      *)

Is(secure, h) == sassert(h # NULL /\ t.secure[h] = secure)
IsChannel(h)  == sassert(h # NULL /\ t.type[h] = "channel")
NonSecurePort == Is(FALSE, e.port)
IsChan        == IsChannel(e.chan)
Named(op, h)  == << Do(op, h, 0, "rc") >>

ptr_port_create == <<
    port_create("port", PATH, BOTH), NonSecurePort,
    port_create("h2", PATH, BOTH), Is(FALSE, e.h2),
    port_create("h2", PATH, NS), Is(TRUE, e.h2),
    port_create("h3", PATH, NS), Is(TRUE, e.h3),
    closes(e.port), port_create("port", PATH, BOTH), NonSecurePort >>

ptr_port_close == <<
    port_create("port", PATH, BOTH), NonSecurePort,
    closes(e.port), sassert(e.rc = 0), sassert(e.port \notin t.active),
    port_create("port", PATH, BOTH), NonSecurePort >>

ptr_port_accept == <<
    port_create("port", PATH, BOTH), NonSecurePort,
    accept(e.port), assume(e.chan # NULL), sassert(e.peer = "zeros"),
    closes(e.port), sassert(e.rc = 0),
    port_create("port", PATH, NS), Is(TRUE, e.port),
    accept(e.port), assume(e.chan # NULL) >>

ptr_port_connect ==
    << port_create("port", PATH, TA), NonSecurePort,
       port_create("h2", PATH, NS), Is(TRUE, e.h2) >>
    \o Named("on_connect_return", e.h2) \o
    << connect(PATH, "chan"), sassert(e.chan # NULL),
       connect(PATH, "chan"), sassert(e.chan # NULL) >>

ptr_port_wait       == Waits(NonSecurePort, IsChan, wait(e.port), wait(e.chan), <<>>)
ptr_port_wait_any   == Waits(NonSecurePort, IsChan, wait_any, wait_any,
                             Named("on_waitany_return", e.port))
ptr_port_set_cookie == Cookies(NonSecurePort)
ptr_port_get_msg    == Gets(NonSecurePort, IsChan)
ptr_port_put_msg    == Puts(NonSecurePort, IsChan)
ptr_port_read_msg   == Reads(NonSecurePort, IsChan)
ptr_port_send_msg   ==
    Sends(NonSecurePort, Named("on_connect_return", e.port), IsChannel(e.h2), IsChan)

Code ==
    CASE prog = "int_port_create"     -> int_port_create
      [] prog = "int_port_close"      -> int_port_close
      [] prog = "int_port_accept"     -> int_port_accept
      [] prog = "int_port_connect"    -> int_port_connect
      [] prog = "int_port_wait"       -> int_port_wait
      [] prog = "int_port_wait_any"   -> int_port_wait_any
      [] prog = "int_port_set_cookie" -> int_port_set_cookie
      [] prog = "int_port_get_msg"    -> int_port_get_msg
      [] prog = "int_port_put_msg"    -> int_port_put_msg
      [] prog = "int_port_read_msg"   -> int_port_read_msg
      [] prog = "int_port_send_msg"   -> int_port_send_msg
      [] prog = "ptr_port_create"     -> ptr_port_create
      [] prog = "ptr_port_close"      -> ptr_port_close
      [] prog = "ptr_port_accept"     -> ptr_port_accept
      [] prog = "ptr_port_connect"    -> ptr_port_connect
      [] prog = "ptr_port_wait"       -> ptr_port_wait
      [] prog = "ptr_port_wait_any"   -> ptr_port_wait_any
      [] prog = "ptr_port_set_cookie" -> ptr_port_set_cookie
      [] prog = "ptr_port_get_msg"    -> ptr_port_get_msg
      [] prog = "ptr_port_put_msg"    -> ptr_port_put_msg
      [] prog = "ptr_port_read_msg"   -> ptr_port_read_msg
      [] prog = "ptr_port_send_msg"   -> ptr_port_send_msg

-------------------------------------------------------------------------------
(* The calls, as the sets of their results.                                *)

ACookie == CHOOSE c \in Cookie : TRUE
Fails   == {[rc |-> ERR_GENERIC]}

IntResults(i) ==
    CASE i.op = "port_create" -> trusty_port_create(t, i.arg.path, i.arg.flags)
      [] i.op = "connect"     -> trusty_connect(t, i.arg)
      [] i.op = "accept"      -> trusty_accept(t, i.h)
      [] i.op = "close"       -> {trusty_close(t, i.h)}
      [] i.op = "set_cookie"  -> {trusty_set_cookie(t, i.h, ACookie)}
      [] i.op \in {"wait", "wait_any"} ->
            Fails \cup {EventOn(t, h, bits, id, len) :
                h \in IF i.op = "wait" THEN {i.h} ELSE sea_ht_choose_active_handle(t),
                bits \in WaitBits, id \in MsgId, len \in MsgLen}
      [] i.op = "get_msg"     -> trusty_get_msg(t, i.h)
      [] i.op = "read_msg"    -> {trusty_read_msg(t, i.h, e.id, 0, <<i.arg>>)}
      [] i.op = "put_msg"     -> trusty_put_msg(t, i.h)
      [] i.op = "send_msg"    -> {[rc |-> n] : n \in trusty_send_msg(<<i.arg>>)}

PtrResults(i) ==
    CASE i.op = "port_create" -> Ptr!trusty_port_create(t, i.arg.path, i.arg.flags)
      [] i.op = "connect"     -> Ptr!trusty_connect(t, i.arg)
      [] i.op = "accept"      -> Ptr!trusty_accept(t, i.h)
      [] i.op = "close"       -> {Ptr!trusty_close(t, i.h)}
      [] i.op = "set_cookie"  -> {Ptr!trusty_set_cookie(t, i.h, ACookie)}
      [] i.op = "on_waitany_return" -> {[rc |-> e.rc, tab |-> Ptr!on_waitany_return(t, i.h)]}
      [] i.op = "on_connect_return" -> {[rc |-> e.rc, tab |-> Ptr!on_connect_return(t, i.h)]}
      [] i.op \in {"wait", "wait_any"} ->
            Fails \cup UNION {Ptr!EventOn(t, h, bits) :
                h \in {IF i.op = "wait" THEN i.h ELSE Ptr!sea_ht_choose_active_handle(t)},
                bits \in WaitBits}
      [] i.op = "get_msg"     -> Ptr!trusty_get_msg(t, i.h)
      [] i.op = "read_msg"    -> {[rc |-> Ptr!trusty_read_msg(t, i.h, e.id, 0, <<i.arg>>)]}
      [] i.op = "put_msg"     -> Ptr!trusty_put_msg(t, i.h)
      [] i.op = "send_msg"    -> {[rc |-> n] : n \in Ptr!trusty_send_msg(<<i.arg>>)}

\* What the call leaves in a place it does not always write to.
Out(r, field, old) == IF field \in DOMAIN r THEN r[field] ELSE old

Call(i) ==
    /\ i.op \notin {"sassert", "assume"}
    /\ \E r \in IF prog \in IntProgram THEN IntResults(i) ELSE PtrResults(i) :
          /\ t' = Out(r, "tab", t)
          /\ e' = [e EXCEPT ![i.dest] = r.rc,
                            !.peer = Out(r, "peer", @),
                            !.id   = Out(r, "id", @),
                            !.ev   = IF "event" \in DOMAIN r
                                     THEN [handle |-> r.handle, cookie |-> r.cookie,
                                           event |-> r.event] ELSE @]

\* A failed assertion or assumption is the end of the execution.
Passes(i) ==
    /\ i.op \in {"sassert", "assume"} /\ i.holds
    /\ UNCHANGED <<t, e>>

Next ==
    /\ pc \in DOMAIN Code
    /\ Call(Code[pc]) \/ Passes(Code[pc])
    /\ pc' = pc + 1
    /\ UNCHANGED prog

Spec == Init /\ [][Next]_vars

-------------------------------------------------------------------------------

\* No program fails an assertion, its own or one of the table's, whatever its
\* calls return: every port gets the handle that its kind leaves, the handles of
\* closed ports are given out again, a message is not read after it was retired,
\* and no more bytes are read than the buffer has.
AssertionsHold ==
    pc \in DOMAIN Code =>
        LET i == Code[pc] IN
        /\ i.op = "sassert" => i.holds
        /\ prog \in PtrProgram =>
              /\ i.op = "connect"  => Ptr!math_port_asserts(t, i.arg)
              /\ i.op = "wait_any" => Ptr!choose_active_asserts(t)

===============================================================================
