------------------------------ MODULE TrustyIpc -------------------------------
(***************************************************************************)
(* What the IPC system calls promise a program that keeps their            *)
(* discipline, whichever table of handles is behind them: the integer      *)
(* table (TrustyClient) and the pointer table (PtrClient) implement this   *)
(* specification.                                                          *)
(*                                                                         *)
(* A call that opens a handle may fail and then changes nothing.  A fresh  *)
(* handle has any cookie and may have a message: the tables differ there.  *)
(***************************************************************************)
CONSTANTS
    Handle,     \* all handles there can be
    NoHandle,   \* what a call that opens a handle returns when it fails
    Cookie,     \* what callers attach to handles
    NoCookie    \* the value of cookie for a handle that is not open

VARIABLES
    ports, chans,   \* the open handles of each kind
    cookie,         \* the cookie of each open handle
    hasMsg,         \* open handles with a message that was not retired
    last            \* what the program saw of its last call

vars == <<ports, chans, cookie, hasMsg, last>>

open == ports \cup chans

Result(op, h, new, ok, c) ==
    [op |-> op, handle |-> h, new |-> new, ok |-> ok, cookie |-> c]

NoResult == Result("none", NoHandle, NoHandle, TRUE, NoCookie)

Init ==
    /\ ports = {} /\ chans = {}
    /\ cookie = [h \in Handle |-> NoCookie]
    /\ hasMsg = {}
    /\ last = NoResult

-------------------------------------------------------------------------------

OpenFails(op, from) ==
    /\ last' = Result(op, from, NoHandle, FALSE, NoCookie)
    /\ UNCHANGED <<ports, chans, cookie, hasMsg>>

Opened(op, from, h) ==
    /\ last' = Result(op, from, h, TRUE, NoCookie)
    /\ h \notin open
    /\ \E c \in Cookie : cookie' = [cookie EXCEPT ![h] = c]
    /\ hasMsg' \in {hasMsg, hasMsg \cup {h}}

PortCreate ==
    \/ OpenFails("port_create", NoHandle)
    \/ \E h \in Handle :
          /\ Opened("port_create", NoHandle, h)
          /\ ports' = ports \cup {h}
          /\ UNCHANGED chans

OpenChannel(op, from) ==
    \/ OpenFails(op, from)
    \/ \E h \in Handle :
          /\ Opened(op, from, h)
          /\ chans' = chans \cup {h}
          /\ UNCHANGED ports

Connect   == OpenChannel("connect", NoHandle)
Accept(p) == OpenChannel("accept", p)

Close(h) ==
    /\ last' = Result("close", h, NoHandle, TRUE, NoCookie)
    /\ ports' = ports \ {h}
    /\ chans' = chans \ {h}
    /\ hasMsg' = hasMsg \ {h}
    /\ cookie' = [k \in Handle |-> IF k = h THEN NoCookie ELSE cookie[k]]

SetCookie(h, c) ==
    /\ last' = Result("set_cookie", h, NoHandle, TRUE, c)
    /\ cookie' = [cookie EXCEPT ![h] = c]
    /\ UNCHANGED <<ports, chans, hasMsg>>

\* An event of an open handle, with the handle's cookie; it may bring a message.
Wait(op, h) ==
    /\ last' = Result(op, h, NoHandle, TRUE, cookie[h])
    /\ hasMsg' \in {hasMsg, hasMsg \cup {h}}
    /\ UNCHANGED <<ports, chans, cookie>>

\* get_msg and read_msg succeed only while there is a message.
Inspect(op, h) ==
    /\ \E ok \in BOOLEAN :
          /\ last' = Result(op, h, NoHandle, ok, NoCookie)
          /\ ok => h \in hasMsg
    /\ UNCHANGED <<ports, chans, cookie, hasMsg>>

\* The message is gone exactly when put_msg says so.
PutMsg(h) ==
    /\ \E ok \in BOOLEAN :
          /\ last' = Result("put_msg", h, NoHandle, ok, NoCookie)
          /\ hasMsg' = IF ok THEN hasMsg \ {h} ELSE hasMsg
    /\ UNCHANGED <<ports, chans, cookie>>

Next ==
    \/ PortCreate
    \/ Connect
    \/ \E p \in ports : Accept(p)
    \/ \E h \in open \cup {NoHandle} : Close(h)
    \/ \E h \in open, c \in Cookie : SetCookie(h, c)
    \/ \E h \in open, op \in {"wait", "wait_any"} : Wait(op, h)
    \/ \E h \in chans, op \in {"get_msg", "read_msg"} : Inspect(op, h)
    \/ \E h \in chans : PutMsg(h)

Spec == Init /\ [][Next]_vars

===============================================================================
