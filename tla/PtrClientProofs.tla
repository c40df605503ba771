---------------------------- MODULE PtrClientProofs ----------------------------
(***************************************************************************)
(* The pointer build: the type of its table, and that the program that     *)
(* calls it implements TrustyIpc, for any number of addresses, paths,      *)
(* cookies, messages and buffers, whether malloc may fail or not.          *)
(***************************************************************************)
EXTENDS PtrClient, TLAPS

\* The program owns exactly the handles whose flag active is set: what
\* sea_ht_new_port and sea_ht_new_channel gave it and it has not closed.
OwnsActive == owned = t.active

IInv ==
    /\ TypeOK
    /\ OwnsActive

LEMMA Facts ==
    ASSUME IInv
    PROVE  /\ t \in Table
           /\ owned = t.active /\ owned \subseteq Handle /\ owned \subseteq t.allocated
           /\ NULL \notin Handle
           /\ OwnedPorts = {h \in t.active : t.type[h] = "port"}
           /\ OwnedChans = {h \in t.active : t.type[h] = "channel"}
  BY PtrConstants DEF IInv, TypeOK, OwnsActive, Table, OwnedPorts, OwnedChans

-------------------------------------------------------------------------------
(* The functions of the table.                                             *)

\* u differs from tab in the messages of h at most.
OnlyMessageOf(tab, u, h) ==
    /\ u \in Table
    /\ u.allocated = tab.allocated
    /\ u.active = tab.active
    /\ u.type = tab.type
    /\ u.cookie = tab.cookie
    /\ \A k \in Handle : k # h => u.msg_id[k] = tab.msg_id[k]

LEMMA SetMsgIdResult ==
    ASSUME NEW tab \in Table, NEW h \in Handle, NEW id \in Nat
    PROVE  /\ OnlyMessageOf(tab, sea_ht_set_msg_id(tab, h, id), h)
           /\ sea_ht_set_msg_id(tab, h, id).msg_id[h] = id
  <1> DEFINE u == sea_ht_set_msg_id(tab, h, id)
  <1>1. u \in Table
    BY DEF sea_ht_set_msg_id, Table
  <1>2. /\ u.allocated = tab.allocated /\ u.active = tab.active
        /\ u.type = tab.type /\ u.cookie = tab.cookie
        /\ u.msg_id = [tab.msg_id EXCEPT ![h] = id]
        /\ tab.msg_id \in [Handle -> Nat]
    BY DEF sea_ht_set_msg_id, Table
  <1> HIDE DEF u
  <1>3. u.msg_id[h] = id /\ OnlyMessageOf(tab, u, h)
    BY <1>1, <1>2 DEF OnlyMessageOf
  <1> QED  BY <1>3 DEF u

LEMMA SetMsgLenResult ==
    ASSUME NEW tab \in Table, NEW h \in Handle, NEW len \in Nat
    PROVE  OnlyMessageOf(tab, sea_ht_set_msg_len(tab, h, len), h)
  <1> DEFINE u == sea_ht_set_msg_len(tab, h, len)
  <1>1. u \in Table
    BY DEF sea_ht_set_msg_len, Table
  <1>2. /\ u.allocated = tab.allocated /\ u.active = tab.active
        /\ u.type = tab.type /\ u.cookie = tab.cookie
        /\ u.msg_id = tab.msg_id
    BY DEF sea_ht_set_msg_len, Table
  <1> HIDE DEF u
  <1>3. OnlyMessageOf(tab, u, h)
    BY <1>1, <1>2 DEF OnlyMessageOf
  <1> QED  BY <1>3 DEF u

LEMMA NewMessage ==
    ASSUME NEW tab \in Table, NEW h \in Handle, NEW u \in sea_ht_new_nd_msg(tab, h)
    PROVE  OnlyMessageOf(tab, u, h) /\ u.msg_id[h] > INVALID_IPC_MSG_ID
  <1>1. PICK id \in MsgId, len \in MsgLen :
           u = sea_ht_set_msg_id(sea_ht_set_msg_len(tab, h, len), h, id)
    BY DEF sea_ht_new_nd_msg
  <1>2. id \in Nat /\ id # 0 /\ len \in Nat
    BY PtrConstants
  <1> DEFINE v == sea_ht_set_msg_len(tab, h, len)
  <1>3. OnlyMessageOf(tab, v, h) /\ v \in Table
    BY <1>2, SetMsgLenResult DEF OnlyMessageOf
  <1>4. u = sea_ht_set_msg_id(v, h, id)
    BY <1>1
  <1> HIDE DEF v
  <1>5. OnlyMessageOf(v, u, h) /\ u.msg_id[h] = id
    BY <1>2, <1>3, <1>4, SetMsgIdResult
  <1> QED  BY <1>2, <1>3, <1>5 DEF OnlyMessageOf, INVALID_IPC_MSG_ID

\* u is tab with the fresh handle h, which has no cookie and may have a message.
Added(tab, u, h, type) ==
    /\ u \in Table
    /\ u.allocated = tab.allocated \cup {h}
    /\ u.active = tab.active \cup {h}
    /\ u.type = [tab.type EXCEPT ![h] = type]
    /\ u.cookie = [tab.cookie EXCEPT ![h] = NULL]
    /\ \A k \in Handle : k # h => u.msg_id[k] = tab.msg_id[k]

\* A call that opens a handle: malloc failed, or gave an unused address.
Allocated(tab, r, type) ==
    \/ r.rc = NULL /\ r.tab = tab
    \/ /\ r.rc \in Handle \ tab.allocated
       /\ Added(tab, r.tab, r.rc, type)

LEMMA NewHandleResult ==
    ASSUME NEW tab \in Table, NEW h \in Handle, NEW secure \in BOOLEAN,
           NEW type \in {"port", "channel"}, NEW path \in Path \cup {NULL},
           NEW r \in NewHandle(tab, h, secure, type, path)
    PROVE  r.rc = h /\ Added(tab, r.tab, h, type)
  <1> DEFINE u == [tab EXCEPT !.allocated = @ \cup {h}, !.active = @ \cup {h},
                              !.secure[h] = secure, !.type[h] = type,
                              !.cookie[h] = NULL, !.path[h] = path]
  <1>1. r \in {[rc |-> h, tab |-> n] : n \in sea_ht_new_nd_msg(u, h)}
    BY DEF NewHandle
  <1>2. /\ u \in Table
        /\ u.allocated = tab.allocated \cup {h}
        /\ u.active = tab.active \cup {h}
        /\ u.type = [tab.type EXCEPT ![h] = type]
        /\ u.cookie = [tab.cookie EXCEPT ![h] = NULL]
        /\ u.msg_id = tab.msg_id
    BY DEF Table
  <1> HIDE DEF u
  <1>3. PICK n \in sea_ht_new_nd_msg(u, h) : r = [rc |-> h, tab |-> n]
    BY <1>1
  <1>4. r.rc = h /\ r.tab = n
    BY <1>3
  <1>5. OnlyMessageOf(u, n, h)
    BY <1>2, NewMessage
  <1> QED  BY <1>2, <1>4, <1>5 DEF Added, OnlyMessageOf

LEMMA NewPortResult ==
    ASSUME NEW tab \in Table, NEW secure \in BOOLEAN, NEW path \in Path \cup {NULL},
           NEW r \in sea_ht_new_port(tab, secure, path)
    PROVE  Allocated(tab, r, "port")
  <1>1. PICK h \in malloc(tab) :
           r \in IF h = NULL THEN {AllocationFails(tab)}
                 ELSE NewHandle(tab, h, secure, "port", path)
    BY DEF sea_ht_new_port
  <1>2. CASE h = NULL
    BY <1>1, <1>2 DEF AllocationFails, INVALID_HANDLE, Allocated
  <1>3. CASE h # NULL
    <2>1. h \in Handle \ tab.allocated
      BY <1>3 DEF malloc
    <2>2. r \in NewHandle(tab, h, secure, "port", path)
      BY <1>1, <1>3
    <2> QED  BY <2>1, <2>2, NewHandleResult DEF Allocated
  <1> QED  BY <1>2, <1>3

LEMMA NewChannelResult ==
    ASSUME NEW tab \in Table, NEW parent, NEW r \in sea_ht_new_channel(tab, parent)
    PROVE  Allocated(tab, r, "channel")
  <1>1. PICK h \in malloc(tab) :
           r \in IF h = NULL THEN {AllocationFails(tab)}
                 ELSE UNION {NewHandle(tab, h, secure, "channel", NULL) : secure \in BOOLEAN}
    BY DEF sea_ht_new_channel
  <1>2. CASE h = NULL
    BY <1>1, <1>2 DEF AllocationFails, INVALID_HANDLE, Allocated
  <1>3. CASE h # NULL
    <2>1. h \in Handle \ tab.allocated
      BY <1>3 DEF malloc
    <2>2. PICK secure \in BOOLEAN : r \in NewHandle(tab, h, secure, "channel", NULL)
      BY <1>1, <1>3
    <2> QED  BY <2>1, <2>2, NewHandleResult DEF Allocated
  <1> QED  BY <1>2, <1>3

LEMMA PortCreateResult ==
    ASSUME NEW tab \in Table, NEW path \in Path \cup {NULL}, NEW fl,
           NEW r \in trusty_port_create(tab, path, fl)
    PROVE  Allocated(tab, r, "port")
  <1>1. IsSecurePort(fl) \in BOOLEAN
    BY DEF IsSecurePort
  <1>2. CASE r = AllocationFails(tab)
    BY <1>2 DEF AllocationFails, INVALID_HANDLE, Allocated
  <1>3. CASE r \in sea_ht_new_port(tab, IsSecurePort(fl), path)
    BY <1>1, <1>3, NewPortResult
  <1> QED  BY <1>2, <1>3 DEF trusty_port_create

LEMMA ConnectResult ==
    ASSUME NEW tab \in Table, NEW path, NEW r \in trusty_connect(tab, path)
    PROVE  Allocated(tab, r, "channel")
  <1>1. CASE r = AllocationFails(tab)
    BY <1>1 DEF AllocationFails, INVALID_HANDLE, Allocated
  <1>2. CASE r \in sea_ht_new_channel(tab, sea_ht_math_port(tab, path))
    BY <1>2, NewChannelResult
  <1> QED  BY <1>1, <1>2 DEF trusty_connect

LEMMA AcceptResult ==
    ASSUME NEW tab \in Table, NEW p, NEW r \in trusty_accept(tab, p)
    PROVE  Allocated(tab, r, "channel")
  <1>1. PICK q \in sea_ht_new_channel(tab, p) : r.rc = q.rc /\ r.tab = q.tab
    BY DEF trusty_accept
  <1> QED  BY <1>1, NewChannelResult DEF Allocated

LEMMA EventResult ==
    ASSUME NEW tab \in Table, NEW h \in Handle, NEW bits, NEW r \in EventOn(tab, h, bits)
    PROVE  /\ r.handle = h
           /\ r.cookie = tab.cookie[h]
           /\ OnlyMessageOf(tab, r.tab, h)
           /\ r.tab.msg_id[h] = tab.msg_id[h] \/ r.tab.msg_id[h] > INVALID_IPC_MSG_ID
  <1>1. /\ r.handle = h
        /\ r.cookie = tab.cookie[h]
        /\ r.tab \in IF "MSG" \in bits THEN sea_ht_new_nd_msg(tab, h) ELSE {tab}
    BY DEF EventOn, sea_ht_get_cookie
  <1>2. CASE r.tab = tab
    BY <1>1, <1>2 DEF OnlyMessageOf
  <1>3. CASE r.tab \in sea_ht_new_nd_msg(tab, h)
    BY <1>1, <1>3, NewMessage
  <1> QED  BY <1>1, <1>2, <1>3

LEMMA PutResult ==
    ASSUME NEW tab \in Table, NEW h \in Handle, NEW r \in trusty_put_msg(tab, h)
    PROVE  /\ OnlyMessageOf(tab, r.tab, h)
           /\ \/ r.rc = NO_ERROR /\ r.tab.msg_id[h] = INVALID_IPC_MSG_ID
              \/ r.rc # NO_ERROR /\ r.tab = tab
  <1>1. CASE \E e \in IpcErr : r = [rc |-> e, tab |-> tab]
    <2>1. r.tab = tab /\ r.rc # NO_ERROR
      BY <1>1 DEF IpcErr, ERR_GENERIC, ERR_NO_MSG, NO_ERROR
    <2> QED  BY <2>1 DEF OnlyMessageOf
  <1>2. CASE r = [rc |-> NO_ERROR, tab |-> sea_ht_set_msg_id(tab, h, INVALID_IPC_MSG_ID)]
    <2>1. r.rc = NO_ERROR /\ r.tab = sea_ht_set_msg_id(tab, h, INVALID_IPC_MSG_ID)
      BY <1>2
    <2>2. INVALID_IPC_MSG_ID \in Nat
      BY DEF INVALID_IPC_MSG_ID
    <2> QED  BY <2>1, <2>2, SetMsgIdResult
  <1> QED  BY <1>1, <1>2 DEF trusty_put_msg

-------------------------------------------------------------------------------
(* The invariant.                                                          *)

LEMMA InitIInv == ASSUME Init PROVE IInv
  <1>1. InitTable \in Table
    BY DEF InitTable, Table, INVALID_IPC_MSG_ID
  <1>2. InitTable.active = {}
    BY DEF InitTable
  <1> QED  BY <1>1, <1>2 DEF Init, IInv, TypeOK, OwnsActive

\* A call that opens a handle.
LEMMA OpensStep ==
    ASSUME IInv, NEW op, NEW from, NEW results, Opens(op, from, results),
           NEW type, \A r \in results : Allocated(t, r, type)
    PROVE  IInv'
  <1>1. PICK r \in results :
           /\ t' = r.tab
           /\ owned' = owned \cup ({r.rc} \ {NULL})
    BY DEF Opens, INVALID_HANDLE
  <1>2. CASE r.rc = NULL /\ r.tab = t
    BY <1>1, <1>2 DEF IInv, TypeOK, OwnsActive
  <1>3. CASE r.rc \in Handle \ t.allocated /\ Added(t, r.tab, r.rc, type)
    BY <1>1, <1>3, Facts DEF IInv, TypeOK, OwnsActive, Added
  <1> QED  BY <1>2, <1>3 DEF Allocated

LEMMA PortCreateStep ==
    ASSUME IInv, NEW path \in Path \cup {NULL}, NEW fl, PortCreate(path, fl)
    PROVE  IInv'
  BY Facts, PortCreateResult, OpensStep DEF PortCreate

LEMMA ConnectStep == ASSUME IInv, NEW path, Connect(path) PROVE IInv'
  BY Facts, ConnectResult, OpensStep DEF Connect

LEMMA AcceptStep == ASSUME IInv, NEW p, Accept(p) PROVE IInv'
  BY Facts, AcceptResult, OpensStep DEF Accept

\* A step that changes messages only.
LEMMA MessageStep ==
    ASSUME IInv, NEW h \in Handle, OnlyMessageOf(t, t', h), UNCHANGED owned
    PROVE  IInv'
  BY DEF IInv, TypeOK, OwnsActive, OnlyMessageOf

LEMMA CloseStep == ASSUME IInv, NEW h \in owned, Close(h) PROVE IInv'
  <1>1. t' = sea_ht_free(t, h) /\ owned' = owned \ {h}
    BY DEF Close, trusty_close
  <1>2. t' \in Table /\ t'.active = t.active \ {h} /\ t'.allocated = t.allocated
    BY <1>1, Facts DEF sea_ht_free, Table
  <1> QED  BY <1>1, <1>2 DEF IInv, TypeOK, OwnsActive

LEMMA SetCookieStep ==
    ASSUME IInv, NEW h \in owned, NEW cookie \in Cookie \cup {NULL},
           SetCookie(h, cookie)
    PROVE  IInv'
  <1>1. t' = sea_ht_set_cookie(t, h, cookie) /\ owned' = owned
    BY DEF SetCookie, trusty_set_cookie
  <1>2. t' \in Table /\ t'.active = t.active /\ t'.allocated = t.allocated
    BY <1>1, Facts DEF sea_ht_set_cookie, Table
  <1> QED  BY <1>1, <1>2 DEF IInv, TypeOK, OwnsActive

LEMMA NameStep ==
    ASSUME IInv, NEW h \in Handle \cup {NULL}, OnWaitAnyReturn(h) \/ OnConnectReturn(h)
    PROVE  IInv'
  <1>1. t' \in {on_waitany_return(t, h), on_connect_return(t, h)} /\ owned' = owned
    BY DEF OnWaitAnyReturn, OnConnectReturn
  <1>2. t' \in Table /\ t'.active = t.active /\ t'.allocated = t.allocated
    BY <1>1, Facts DEF on_waitany_return, on_connect_return, Table
  <1> QED  BY <1>1, <1>2 DEF IInv, TypeOK, OwnsActive

LEMMA WaitsStep ==
    ASSUME IInv, NEW op, NEW h \in owned, NEW bits, Waits(op, h, bits)
    PROVE  IInv'
  <1>1. PICK r \in EventOn(t, h, bits) : t' = r.tab /\ owned' = owned
    BY DEF Waits
  <1>2. OnlyMessageOf(t, r.tab, h)
    BY Facts, EventResult
  <1> QED  BY <1>1, <1>2, Facts, MessageStep

LEMMA PutMsgStep == ASSUME IInv, NEW c \in OwnedChans, PutMsg(c) PROVE IInv'
  <1>1. PICK r \in trusty_put_msg(t, c) : t' = r.tab /\ owned' = owned
    BY DEF PutMsg
  <1>2. c \in Handle
    BY Facts
  <1>3. OnlyMessageOf(t, r.tab, c)
    BY <1>2, Facts, PutResult
  <1> QED  BY <1>1, <1>2, <1>3, MessageStep

LEMMA NextIInv == ASSUME IInv, [Next]_vars PROVE IInv'
  <1>1. CASE t' = t /\ owned' = owned
    BY <1>1 DEF IInv, TypeOK, OwnsActive
  <1>2. CASE \E path \in Path \cup {NULL}, fl \in FlagSets : PortCreate(path, fl)
    BY <1>2, PortCreateStep
  <1>3. CASE \/ \E path \in Path : Connect(path)
             \/ \E p \in OwnedPorts : Accept(p)
    BY <1>3, ConnectStep, AcceptStep
  <1>4. CASE \/ \E h \in owned : Close(h)
             \/ \E h \in owned, cookie \in Cookie \cup {NULL} : SetCookie(h, cookie)
    BY <1>4, CloseStep, SetCookieStep
  <1>5. CASE \/ \E h \in owned \cup {NULL} : OnWaitAnyReturn(h)
             \/ \E p \in OwnedPorts \cup {NULL} : OnConnectReturn(p)
    BY <1>5, Facts, NameStep
  <1>6. CASE \/ \E h \in owned, bits \in WaitBits : Wait(h, bits)
             \/ \E bits \in WaitBits : WaitAny(bits)
    BY <1>6, WaitsStep DEF Wait, WaitAny
  <1>7. CASE \E c \in OwnedChans : PutMsg(c)
    BY <1>7, PutMsgStep
  <1> QED
    BY <1>1, <1>2, <1>3, <1>4, <1>5, <1>6, <1>7 DEF Next, vars, GetMsg, ReadMsg

\* The inductive invariant.
LEMMA Invariance == Spec => []IInv
  <1>1. Init => IInv
    BY InitIInv
  <1>2. IInv /\ [Next]_vars => IInv'
    BY NextIInv
  <1> QED  BY <1>1, <1>2, PTL DEF Spec

\* The table keeps its type, and every handle the program owns was allocated,
\* whether malloc may fail or not.
THEOREM PtrTypeOK == Spec => []TypeOK
  <1>1. IInv => TypeOK
    BY DEF IInv
  <1> QED  BY <1>1, Invariance, PTL

\* The handles the program owns are the active ones: no call makes a handle
\* inactive that the program did not close.
THEOREM PtrOwnsActive == Spec => []OwnsActive
  <1>1. IInv => OwnsActive
    BY DEF IInv
  <1> QED  BY <1>1, Invariance, PTL

-------------------------------------------------------------------------------
(* The refinement of TrustyIpc, one lemma per action of it.  The mapped     *)
(* variables have names here, to hide them where they are only compared.   *)

MappedPorts  == {h \in t.active : t.type[h] = "port"}
MappedChans  == {h \in t.active : t.type[h] = "channel"}
MappedCookie == [h \in Handle |-> IF h \in t.active THEN t.cookie[h] ELSE NULL]
MappedHasMsg == {h \in t.active : sea_ht_has_msg(t, h)}

\* Every active handle is mapped to a port or to a channel.
LEMMA MappedOpen ==
    ASSUME IInv
    PROVE  MappedPorts \cup MappedChans = t.active
  BY Facts DEF MappedPorts, MappedChans, Table

LEMMA InitMapped == ASSUME Init PROVE Ipc!Init
  <1>1. t.active = {}
    BY DEF Init, InitTable
  <1>2. /\ MappedPorts = {} /\ MappedChans = {} /\ MappedHasMsg = {}
        /\ MappedCookie = [h \in Handle |-> NULL]
    BY <1>1 DEF MappedPorts, MappedChans, MappedHasMsg, MappedCookie
  <1>3. last = Ipc!NoResult
    BY DEF Init
  <1> QED
    BY <1>2, <1>3 DEF Ipc!Init, MappedPorts, MappedChans, MappedCookie, MappedHasMsg

\* What the mapping makes of a fresh handle.
LEMMA AddedMapped ==
    ASSUME IInv, NEW h \in Handle \ t.allocated, NEW type \in {"port", "channel"},
           Added(t, t', h, type)
    PROVE  /\ h \notin MappedPorts \cup MappedChans
           /\ MappedPorts' = IF type = "port" THEN MappedPorts \cup {h} ELSE MappedPorts
           /\ MappedChans' = IF type = "port" THEN MappedChans ELSE MappedChans \cup {h}
           /\ \E c \in Cookie \cup {NULL} : MappedCookie' = [MappedCookie EXCEPT ![h] = c]
           /\ MappedHasMsg' \in {MappedHasMsg, MappedHasMsg \cup {h}}
  <1>1. /\ h \notin t.active
        /\ t.active \subseteq Handle
        /\ t'.active = t.active \cup {h}
    BY Facts DEF Added
  <1>2. t'.type[h] = type /\ \A k \in t.active : t'.type[k] = t.type[k]
    BY <1>1, Facts DEF Added, Table
  <1>3. /\ MappedPorts' = IF type = "port" THEN MappedPorts \cup {h} ELSE MappedPorts
        /\ MappedChans' = IF type = "port" THEN MappedChans ELSE MappedChans \cup {h}
    <2>1. CASE type = "port"
      BY <1>1, <1>2, <2>1 DEF MappedPorts, MappedChans
    <2>2. CASE type = "channel"
      BY <1>1, <1>2, <2>2 DEF MappedPorts, MappedChans
    <2> QED  BY <2>1, <2>2
  <1>4. MappedCookie' = [MappedCookie EXCEPT ![h] = NULL]
    <2>1. t'.cookie[h] = NULL /\ \A k \in t.active : t'.cookie[k] = t.cookie[k]
      BY <1>1, Facts DEF Added, Table
    <2> QED  BY <1>1, <2>1 DEF MappedCookie
  <1>5. \A k \in t.active : sea_ht_has_msg(t', k) <=> sea_ht_has_msg(t, k)
    BY <1>1 DEF sea_ht_has_msg, Added
  <1>6. MappedHasMsg' \in {MappedHasMsg, MappedHasMsg \cup {h}}
    <2>1. CASE sea_ht_has_msg(t', h)
      BY <1>1, <1>5, <2>1 DEF MappedHasMsg
    <2>2. CASE ~ sea_ht_has_msg(t', h)
      BY <1>1, <1>5, <2>2 DEF MappedHasMsg
    <2> QED  BY <2>1, <2>2
  <1> QED  BY <1>1, <1>3, <1>4, <1>6 DEF MappedPorts, MappedChans

\* A call that opens a handle fails, or gives a fresh one.
LEMMA OpensMapped ==
    ASSUME IInv, NEW op, NEW from, NEW results, Opens(op, from, results),
           NEW type \in {"port", "channel"},
           \A r \in results : Allocated(t, r, type)
    PROVE  \/ Ipc!OpenFails(op, from)
           \/ \E h \in Handle :
                /\ Ipc!Opened(op, from, h)
                /\ MappedPorts' = IF type = "port" THEN MappedPorts \cup {h} ELSE MappedPorts
                /\ MappedChans' = IF type = "port" THEN MappedChans ELSE MappedChans \cup {h}
  <1>1. PICK r \in results :
           /\ t' = r.tab
           /\ last' = Ipc!Result(op, from, r.rc, r.rc # INVALID_HANDLE, NULL)
    BY DEF Opens
  <1>2. CASE r.rc = NULL /\ r.tab = t
    <2>1. (r.rc # INVALID_HANDLE) = FALSE
      BY <1>2 DEF INVALID_HANDLE
    <2>2. last' = Ipc!Result(op, from, INVALID_HANDLE, FALSE, NULL)
      BY <1>1, <1>2, <2>1, Zenon DEF INVALID_HANDLE
    <2>3. t' = t
      BY <1>1, <1>2
    <2>4. Ipc!OpenFails(op, from)
      BY <2>2, <2>3 DEF Ipc!OpenFails, sea_ht_has_msg
    <2> QED  BY <2>4
  <1>3. CASE r.rc \in Handle \ t.allocated /\ Added(t, r.tab, r.rc, type)
    <2> DEFINE h == r.rc
    <2>1. h \in Handle \ t.allocated /\ Added(t, t', h, type)
      BY <1>1, <1>3
    <2>2. (r.rc # INVALID_HANDLE) = TRUE
      BY <1>3, Facts DEF INVALID_HANDLE
    <2>3. last' = Ipc!Result(op, from, h, TRUE, NULL)
      BY <1>1, <2>2, Zenon
    <2> HIDE DEF h
    <2>4. /\ h \notin MappedPorts \cup MappedChans
          /\ MappedPorts' = IF type = "port" THEN MappedPorts \cup {h} ELSE MappedPorts
          /\ MappedChans' = IF type = "port" THEN MappedChans ELSE MappedChans \cup {h}
          /\ \E c \in Cookie \cup {NULL} : MappedCookie' = [MappedCookie EXCEPT ![h] = c]
          /\ MappedHasMsg' \in {MappedHasMsg, MappedHasMsg \cup {h}}
      BY <2>1, AddedMapped
    <2>5. Ipc!Opened(op, from, h)
      BY <2>3, <2>4 DEF Ipc!Opened, Ipc!open, MappedPorts, MappedChans, MappedCookie,
                        MappedHasMsg
    <2> QED  BY <2>1, <2>4, <2>5
  <1> QED  BY <1>1, <1>2, <1>3 DEF Allocated

LEMMA PortCreateMapped ==
    ASSUME IInv, NEW path \in Path \cup {NULL}, NEW fl, PortCreate(path, fl)
    PROVE  Ipc!PortCreate
  <1>1. \A r \in trusty_port_create(t, path, fl) : Allocated(t, r, "port")
    BY Facts, PortCreateResult
  <1>2. Opens("port_create", INVALID_HANDLE, trusty_port_create(t, path, fl))
    BY DEF PortCreate
  <1>3. \/ Ipc!OpenFails("port_create", INVALID_HANDLE)
        \/ \E h \in Handle :
             /\ Ipc!Opened("port_create", INVALID_HANDLE, h)
             /\ MappedPorts' = MappedPorts \cup {h}
             /\ MappedChans' = MappedChans
    BY <1>1, <1>2, OpensMapped
  <1> QED  BY <1>3 DEF Ipc!PortCreate, MappedPorts, MappedChans

LEMMA OpenChannelMapped ==
    ASSUME IInv, NEW op, NEW from, NEW results, Opens(op, from, results),
           \A r \in results : Allocated(t, r, "channel")
    PROVE  Ipc!OpenChannel(op, from)
  <1>1. \/ Ipc!OpenFails(op, from)
        \/ \E h \in Handle :
             /\ Ipc!Opened(op, from, h)
             /\ MappedPorts' = MappedPorts
             /\ MappedChans' = MappedChans \cup {h}
    BY OpensMapped
  <1> QED  BY <1>1 DEF Ipc!OpenChannel, MappedPorts, MappedChans

LEMMA CloseMapped == ASSUME IInv, NEW h \in owned, Close(h) PROVE Ipc!Close(h)
  <1>1. t' = sea_ht_free(t, h)
    BY DEF Close, trusty_close
  <1>2. /\ t'.active = t.active \ {h}
        /\ t'.type = t.type /\ t'.cookie = t.cookie /\ t'.msg_id = t.msg_id
    BY <1>1, Facts DEF sea_ht_free, Table
  <1>3. last' = Ipc!Result("close", h, INVALID_HANDLE, TRUE, NULL)
    BY DEF Close
  <1>4. /\ MappedPorts' = MappedPorts \ {h}
        /\ MappedChans' = MappedChans \ {h}
    BY <1>2 DEF MappedPorts, MappedChans
  <1>5. MappedHasMsg' = MappedHasMsg \ {h}
    BY <1>2 DEF MappedHasMsg, sea_ht_has_msg
  <1>6. MappedCookie' = [k \in Handle |-> IF k = h THEN NULL ELSE MappedCookie[k]]
    BY <1>2 DEF MappedCookie
  <1> QED
    BY <1>3, <1>4, <1>5, <1>6
       DEF Ipc!Close, MappedPorts, MappedChans, MappedCookie, MappedHasMsg

LEMMA SetCookieMapped ==
    ASSUME IInv, NEW h \in owned, NEW cookie \in Cookie \cup {NULL},
           SetCookie(h, cookie)
    PROVE  Ipc!SetCookie(h, cookie)
  <1>1. t' = sea_ht_set_cookie(t, h, cookie)
    BY DEF SetCookie, trusty_set_cookie
  <1>2. /\ t'.active = t.active /\ t'.type = t.type /\ t'.msg_id = t.msg_id
        /\ t'.cookie = [t.cookie EXCEPT ![h] = cookie]
        /\ t.cookie \in [Handle -> Cookie \cup {NULL}]
    BY <1>1, Facts DEF sea_ht_set_cookie, Table
  <1>3. last' = Ipc!Result("set_cookie", h, INVALID_HANDLE, TRUE, cookie)
    BY DEF SetCookie
  <1>4. MappedPorts' = MappedPorts /\ MappedChans' = MappedChans
    BY <1>2 DEF MappedPorts, MappedChans
  <1>5. MappedHasMsg' = MappedHasMsg
    BY <1>2 DEF MappedHasMsg, sea_ht_has_msg
  <1>6. MappedCookie' = [MappedCookie EXCEPT ![h] = cookie]
    <2>1. h \in t.active /\ h \in Handle
      BY Facts
    <2>2. /\ t'.cookie[h] = cookie
          /\ \A k \in Handle : k # h => t'.cookie[k] = t.cookie[k]
      BY <1>2, <2>1
    <2> QED  BY <1>2, <2>1, <2>2 DEF MappedCookie
  <1> QED
    BY <1>3, <1>4, <1>5, <1>6
       DEF Ipc!SetCookie, MappedPorts, MappedChans, MappedCookie, MappedHasMsg

\* What a step that changes the messages of h only is mapped to.
LEMMA MessageMapped ==
    ASSUME IInv, NEW h \in t.active, OnlyMessageOf(t, t', h)
    PROVE  /\ MappedPorts' = MappedPorts /\ MappedChans' = MappedChans
           /\ MappedCookie' = MappedCookie
           /\ MappedHasMsg' = IF sea_ht_has_msg(t', h) THEN MappedHasMsg \cup {h}
                              ELSE MappedHasMsg \ {h}
  <1>1. t.active \subseteq Handle
    BY Facts
  <1>2. /\ MappedPorts' = MappedPorts /\ MappedChans' = MappedChans
        /\ MappedCookie' = MappedCookie
    BY DEF OnlyMessageOf, MappedPorts, MappedChans, MappedCookie
  <1>3. \A k \in t.active : k # h => (sea_ht_has_msg(t', k) <=> sea_ht_has_msg(t, k))
    BY <1>1 DEF sea_ht_has_msg, OnlyMessageOf
  <1>4. t'.active = t.active
    BY DEF OnlyMessageOf
  <1> QED  BY <1>2, <1>3, <1>4 DEF MappedHasMsg

\* wait and wait_any: a message may arrive, none is lost.
LEMMA WaitMapped ==
    ASSUME IInv, NEW op, NEW h \in owned, NEW bits, Waits(op, h, bits)
    PROVE  Ipc!Wait(op, h)
  <1>1. PICK r \in EventOn(t, h, bits) :
           /\ t' = r.tab
           /\ last' = Ipc!Result(op, r.handle, INVALID_HANDLE, TRUE, r.cookie)
    BY DEF Waits
  <1>2. /\ r.handle = h /\ r.cookie = t.cookie[h]
        /\ OnlyMessageOf(t, r.tab, h)
        /\ r.tab.msg_id[h] = t.msg_id[h] \/ r.tab.msg_id[h] > INVALID_IPC_MSG_ID
    BY Facts, EventResult
  <1>3. h \in t.active /\ h \in Handle
    BY Facts
  <1>4. sea_ht_has_msg(t, h) => sea_ht_has_msg(t', h)
    BY <1>1, <1>2 DEF sea_ht_has_msg
  <1>5. /\ MappedPorts' = MappedPorts /\ MappedChans' = MappedChans
        /\ MappedCookie' = MappedCookie
        /\ MappedHasMsg' = IF sea_ht_has_msg(t', h) THEN MappedHasMsg \cup {h}
                           ELSE MappedHasMsg \ {h}
    BY <1>1, <1>2, <1>3, MessageMapped
  <1>6. MappedHasMsg' \in {MappedHasMsg, MappedHasMsg \cup {h}}
    <2>1. ~ sea_ht_has_msg(t', h) => h \notin MappedHasMsg
      BY <1>4 DEF MappedHasMsg
    <2> QED  BY <1>5, <2>1
  <1>7. last' = Ipc!Result(op, h, INVALID_HANDLE, TRUE, MappedCookie[h])
    <2>1. MappedCookie[h] = t.cookie[h]
      BY <1>3 DEF MappedCookie
    <2> QED  BY <1>1, <1>2, <2>1, Zenon
  <1> QED
    BY <1>5, <1>6, <1>7
       DEF Ipc!Wait, MappedPorts, MappedChans, MappedCookie, MappedHasMsg

\* get_msg and read_msg change nothing, and succeed only if there is a message.
LEMMA InspectMapped ==
    ASSUME IInv, NEW op, NEW h, NEW ok \in BOOLEAN, t' = t,
           last' = Ipc!Result(op, h, INVALID_HANDLE, ok, NULL),
           ok = TRUE => h \in MappedHasMsg
    PROVE  Ipc!Inspect(op, h)
  <1>1. \E b \in BOOLEAN :
           /\ last' = Ipc!Result(op, h, INVALID_HANDLE, b, NULL)
           /\ b => h \in MappedHasMsg
    OBVIOUS
  <1> QED  BY <1>1 DEF Ipc!Inspect, MappedHasMsg, sea_ht_has_msg

LEMMA GetMsgMapped ==
    ASSUME IInv, NEW c \in OwnedChans, GetMsg(c)
    PROVE  Ipc!Inspect("get_msg", c)
  <1>1. PICK r \in trusty_get_msg(t, c) :
           t' = t /\ last' = Ipc!Result("get_msg", c, INVALID_HANDLE, r.rc = NO_ERROR, NULL)
    BY DEF GetMsg
  <1>2. c \in t.active /\ c \in Handle /\ t.msg_id[c] \in Nat
    BY Facts DEF Table
  <1>3. r.rc = NO_ERROR => t.msg_id[c] # INVALID_IPC_MSG_ID
    <2>1. \/ r.rc \in IpcErr
          \/ r.rc = IF t.msg_id[c] # INVALID_IPC_MSG_ID THEN NO_ERROR ELSE ERR_GENERIC
      BY DEF trusty_get_msg, sea_ht_get_msg_id
    <2> QED  BY <2>1 DEF IpcErr, ERR_GENERIC, ERR_NO_MSG, NO_ERROR
  <1>4. r.rc = NO_ERROR => c \in MappedHasMsg
    BY <1>2, <1>3 DEF MappedHasMsg, sea_ht_has_msg, INVALID_IPC_MSG_ID
  <1>5. CASE r.rc = NO_ERROR
    <2>1. (r.rc = NO_ERROR) = TRUE
      BY <1>5
    <2>2. last' = Ipc!Result("get_msg", c, INVALID_HANDLE, TRUE, NULL)
      BY <1>1, <2>1, Zenon
    <2> QED  BY <1>1, <1>4, <1>5, <2>2, InspectMapped
  <1>6. CASE r.rc # NO_ERROR
    <2>1. (r.rc = NO_ERROR) = FALSE
      BY <1>6
    <2>2. last' = Ipc!Result("get_msg", c, INVALID_HANDLE, FALSE, NULL)
      BY <1>1, <2>1, Zenon
    <2> QED  BY <1>1, <2>2, InspectMapped
  <1> QED  BY <1>5, <1>6

\* What read_msg returns is a number, for one buffer and for two, and an error
\* if the identifier is not that of the message.
LEMMA ReadResult ==
    ASSUME NEW h \in Handle, NEW id \in Nat, NEW iov \in Iov, t \in Table
    PROVE  /\ trusty_read_msg(t, h, id, 0, iov) \in Int
           /\ t.msg_id[h] # id => trusty_read_msg(t, h, id, 0, iov) < NO_ERROR
  <1> DEFINE len == sea_ht_get_msg_len(t, h) - 0
             rc  == trusty_read_msg(t, h, id, 0, iov)
  <1>1. len \in Int
    BY DEF sea_ht_get_msg_len, Table
  <1>2. iov[1] \in Int /\ (DOMAIN iov # {1} => iov[2] \in Int)
    <2>1. CASE iov \in [1..1 -> Nat]
      <3>1. DOMAIN iov = {1} /\ 1 \in 1..1
        BY <2>1
      <3> QED  BY <2>1, <3>1
    <2>2. CASE iov \in [1..2 -> Nat]
      BY <2>2
    <2> QED  BY <2>1, <2>2, PtrClientConstants
  <1>3. \/ rc = ERR_GENERIC
        \/ rc = Smaller(len, iov[1])
        \/ DOMAIN iov # {1} /\ rc = iov[1] + Smaller(len - iov[1], iov[2])
    BY DEF trusty_read_msg
  <1>4. ERR_GENERIC \in Int /\ ERR_GENERIC < NO_ERROR
    BY DEF ERR_GENERIC, NO_ERROR
  <1>5. t.msg_id[h] # id => rc = ERR_GENERIC
    BY DEF trusty_read_msg, sea_ht_get_msg_id
  <1> HIDE DEF rc, len
  <1>6. rc \in Int
    BY <1>1, <1>2, <1>3, <1>4 DEF Smaller
  <1> QED  BY <1>4, <1>5, <1>6 DEF rc

LEMMA ReadMsgMapped ==
    ASSUME IInv, NEW c \in OwnedChans, NEW id \in MsgId, NEW iov \in Iov,
           ReadMsg(c, id, iov)
    PROVE  Ipc!Inspect("read_msg", c)
  <1> DEFINE rc == trusty_read_msg(t, c, id, 0, iov)
  <1>1. t' = t /\ last' = Ipc!Result("read_msg", c, INVALID_HANDLE, rc >= NO_ERROR, NULL)
    BY DEF ReadMsg
  <1>2. c \in t.active /\ c \in Handle /\ t \in Table
    BY Facts
  <1>3. id \in Nat /\ id # 0
    BY PtrConstants
  <1>4. rc \in Int /\ (t.msg_id[c] # id => rc < NO_ERROR)
    BY <1>2, <1>3, ReadResult
  <1> HIDE DEF rc
  <1>5. CASE rc >= NO_ERROR
    <2>1. t.msg_id[c] = id
      BY <1>4, <1>5 DEF NO_ERROR
    <2>2. c \in MappedHasMsg
      BY <1>2, <1>3, <2>1 DEF MappedHasMsg, sea_ht_has_msg, INVALID_IPC_MSG_ID
    <2>3. (rc >= NO_ERROR) = TRUE
      BY <1>5
    <2>4. last' = Ipc!Result("read_msg", c, INVALID_HANDLE, TRUE, NULL)
      BY <1>1, <2>3, Zenon
    <2> QED  BY <1>1, <2>2, <2>4, InspectMapped
  <1>6. CASE ~ (rc >= NO_ERROR)
    <2>1. (rc >= NO_ERROR) = FALSE
      BY <1>6
    <2>2. last' = Ipc!Result("read_msg", c, INVALID_HANDLE, FALSE, NULL)
      BY <1>1, <2>1, Zenon
    <2> QED  BY <1>1, <2>2, InspectMapped
  <1> QED  BY <1>5, <1>6

\* put_msg retires the message exactly when it reports success.
LEMMA PutMsgMapped == ASSUME IInv, NEW c \in OwnedChans, PutMsg(c) PROVE Ipc!PutMsg(c)
  <1>1. PICK r \in trusty_put_msg(t, c) :
           t' = r.tab /\ last' = Ipc!Result("put_msg", c, INVALID_HANDLE, r.rc = NO_ERROR, NULL)
    BY DEF PutMsg
  <1>2. c \in t.active /\ c \in Handle /\ t \in Table
    BY Facts
  <1>3. /\ OnlyMessageOf(t, r.tab, c)
        /\ \/ r.rc = NO_ERROR /\ r.tab.msg_id[c] = INVALID_IPC_MSG_ID
           \/ r.rc # NO_ERROR /\ r.tab = t
    BY <1>2, PutResult
  <1>4. /\ MappedPorts' = MappedPorts /\ MappedChans' = MappedChans
        /\ MappedCookie' = MappedCookie
        /\ MappedHasMsg' = IF sea_ht_has_msg(t', c) THEN MappedHasMsg \cup {c}
                           ELSE MappedHasMsg \ {c}
    BY <1>1, <1>2, <1>3, MessageMapped
  <1>5. \E ok \in BOOLEAN :
           /\ last' = Ipc!Result("put_msg", c, INVALID_HANDLE, ok, NULL)
           /\ MappedHasMsg' = IF ok THEN MappedHasMsg \ {c} ELSE MappedHasMsg
    <2>1. CASE r.rc = NO_ERROR
      <3>1. (r.rc = NO_ERROR) = TRUE
        BY <2>1
      <3>2. last' = Ipc!Result("put_msg", c, INVALID_HANDLE, TRUE, NULL)
        BY <1>1, <3>1, Zenon
      <3>3. ~ sea_ht_has_msg(t', c)
        BY <1>1, <1>3, <2>1 DEF sea_ht_has_msg, INVALID_IPC_MSG_ID
      <3>4. MappedHasMsg' = MappedHasMsg \ {c}
        BY <1>4, <3>3
      <3> QED  BY <3>2, <3>4
    <2>2. CASE r.rc # NO_ERROR
      <3>1. (r.rc = NO_ERROR) = FALSE
        BY <2>2
      <3>2. last' = Ipc!Result("put_msg", c, INVALID_HANDLE, FALSE, NULL)
        BY <1>1, <3>1, Zenon
      <3>3. t' = t
        BY <1>1, <1>3, <2>2
      <3>4. MappedHasMsg' = MappedHasMsg
        BY <3>3 DEF MappedHasMsg, sea_ht_has_msg
      <3> QED  BY <3>2, <3>4
    <2> QED  BY <2>1, <2>2
  <1> QED
    BY <1>4, <1>5 DEF Ipc!PutMsg, MappedPorts, MappedChans, MappedCookie, MappedHasMsg

\* The program's naming of a handle for connect or wait_any changes nothing that
\* TrustyIpc speaks of.
LEMMA NameMapped ==
    ASSUME IInv, NEW h, OnWaitAnyReturn(h) \/ OnConnectReturn(h)
    PROVE  UNCHANGED Ipc!vars
  <1>1. last' = last /\ t' \in {on_waitany_return(t, h), on_connect_return(t, h)}
    BY DEF OnWaitAnyReturn, OnConnectReturn
  <1>2. /\ t'.active = t.active /\ t'.type = t.type
        /\ t'.cookie = t.cookie /\ t'.msg_id = t.msg_id
    BY <1>1, Facts DEF on_waitany_return, on_connect_return, Table
  <1> QED  BY <1>1, <1>2 DEF Ipc!vars, sea_ht_has_msg

\* Every step of the program is a step of TrustyIpc or a stutter, one case for
\* each call.
LEMMA NextMapped == ASSUME IInv, Next PROVE Ipc!Next \/ UNCHANGED Ipc!vars
  <1>0. /\ owned = MappedPorts \cup MappedChans
        /\ OwnedPorts = MappedPorts /\ OwnedChans = MappedChans
    BY Facts, MappedOpen DEF MappedPorts, MappedChans
  <1>1. ASSUME NEW path \in Path \cup {NULL}, NEW fl \in FlagSets, PortCreate(path, fl)
        PROVE  Ipc!Next
    BY <1>1, PortCreateMapped DEF Ipc!Next
  <1>2. ASSUME NEW path \in Path, Connect(path) PROVE Ipc!Next
    <2>1. Ipc!OpenChannel("connect", INVALID_HANDLE)
      BY <1>2, Facts, ConnectResult, OpenChannelMapped DEF Connect
    <2> QED  BY <2>1 DEF Ipc!Next, Ipc!Connect
  <1>3. ASSUME NEW p \in OwnedPorts, Accept(p) PROVE Ipc!Next
    <2>1. Ipc!OpenChannel("accept", p)
      BY <1>3, Facts, AcceptResult, OpenChannelMapped DEF Accept
    <2> QED  BY <1>0, <2>1 DEF Ipc!Next, Ipc!Accept, MappedPorts
  <1>4. ASSUME NEW h \in owned, Close(h) PROVE Ipc!Next
    BY <1>0, <1>4, CloseMapped DEF Ipc!Next, Ipc!open, MappedPorts, MappedChans
  <1>5. ASSUME NEW h \in owned, NEW cookie \in Cookie \cup {NULL}, SetCookie(h, cookie)
        PROVE  Ipc!Next
    BY <1>0, <1>5, SetCookieMapped DEF Ipc!Next, Ipc!open, MappedPorts, MappedChans
  <1>6. ASSUME NEW h, OnWaitAnyReturn(h) \/ OnConnectReturn(h)
        PROVE  UNCHANGED Ipc!vars
    BY <1>6, NameMapped
  <1>7. ASSUME NEW h \in owned, NEW bits, Wait(h, bits) PROVE Ipc!Next
    <2>1. Ipc!Wait("wait", h)
      BY <1>7, WaitMapped DEF Wait
    <2> QED  BY <1>0, <2>1 DEF Ipc!Next, Ipc!open, MappedPorts, MappedChans
  <1>8. ASSUME NEW bits, WaitAny(bits) PROVE Ipc!Next
    <2> DEFINE h == sea_ht_choose_active_handle(t)
    <2>1. h \in owned /\ Ipc!Wait("wait_any", h)
      BY <1>8, WaitMapped DEF WaitAny
    <2> HIDE DEF h
    <2> QED  BY <1>0, <2>1 DEF Ipc!Next, Ipc!open, MappedPorts, MappedChans
  <1>9. ASSUME NEW c \in OwnedChans,
               \/ GetMsg(c)
               \/ \E id \in MsgId, iov \in Iov : ReadMsg(c, id, iov)
               \/ PutMsg(c)
        PROVE  Ipc!Next
    <2>1. \/ Ipc!Inspect("get_msg", c) \/ Ipc!Inspect("read_msg", c)
          \/ Ipc!PutMsg(c)
      BY <1>9, GetMsgMapped, ReadMsgMapped, PutMsgMapped
    <2> QED  BY <1>0, <2>1 DEF Ipc!Next, MappedChans
  <1> QED
    BY <1>1, <1>2, <1>3, <1>4, <1>5, <1>6, <1>7, <1>8, <1>9 DEF Next

\* The pointer build keeps the promises of TrustyIpc to every program that keeps
\* its discipline, whether malloc may fail or not.
THEOREM PtrImplementsTrustyIpc == Spec => ImplementsTrustyIpc
  <1>1. Init => Ipc!Init
    BY InitMapped
  <1>2. IInv /\ [Next]_vars => [Ipc!Next]_(Ipc!vars)
    <2> SUFFICES ASSUME IInv, [Next]_vars PROVE [Ipc!Next]_(Ipc!vars)
      OBVIOUS
    <2>1. CASE Next
      BY <2>1, NextMapped
    <2>2. CASE UNCHANGED vars
      BY <2>2 DEF vars, Ipc!vars, sea_ht_has_msg
    <2> QED  BY <2>1, <2>2
  <1> QED  BY <1>1, <1>2, Invariance, PTL DEF Spec, ImplementsTrustyIpc, Ipc!Spec

===============================================================================
