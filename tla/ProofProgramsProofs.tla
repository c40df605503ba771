-------------------------- MODULE ProofProgramsProofs --------------------------
(***************************************************************************)
(* That no program fails an assertion, for messages of any identifier and  *)
(* length, any events, cookies and paths, and any number of addresses.     *)
(***************************************************************************)
EXTENDS ProofPrograms, TrustySyscallsProofs

IsInt == prog \in IntProgram

Fields == {"port", "h2", "h3", "h4", "chan", "rc", "ev", "id", "peer"}

\* A table of the program's build.
IsTable(u) == IF IsInt THEN u \in Table ELSE u \in Ptr!Table

Typed ==
    /\ prog \in IntProgram \cup PtrProgram
    /\ IsTable(t)
    /\ ~ IsInt => t.active \subseteq t.allocated
    /\ DOMAIN e = Fields

\* Every handle stays in its variable.
VarsKept ==
    /\ DOMAIN e' = Fields
    /\ e'.port = e.port /\ e'.h2 = e.h2 /\ e'.h3 = e.h3 /\ e'.h4 = e.h4
    /\ e'.chan = e.chan

\* The table u differs from v in messages at most.
SameButMsgs(v, u) ==
    /\ IsTable(u)
    /\ u.active = v.active /\ u.cookie = v.cookie /\ u.path = v.path
    /\ ~ IsInt => /\ u.allocated = v.allocated
                  /\ u.secure = v.secure /\ u.type = v.type
                  /\ u.g_on_waitany_handle = v.g_on_waitany_handle
                  /\ u.g_on_connect_handle = v.g_on_connect_handle

\* The calls that open and close no handle and set no cookie.
Quiet == VarsKept /\ SameButMsgs(t, t')

CookieOf(h) == IF IsInt THEN sea_ht_get_cookie(t, h) ELSE t.cookie[h]
MsgIdOf(h)  == IF IsInt THEN sea_ht_get_msg_id(t, h) ELSE t.msg_id[h]

\* A handle of the program's build.
Valid(h) == IF IsInt THEN h \in Handle ELSE h \in PtrHandle

-------------------------------------------------------------------------------
(* A call stores its result.                                               *)

Stored(dest, r) ==
    e' = [e EXCEPT ![dest] = r.rc,
                   !.peer = Out(r, "peer", @),
                   !.id   = Out(r, "id", @),
                   !.ev   = IF "event" \in DOMAIN r
                            THEN [handle |-> r.handle, cookie |-> r.cookie,
                                  event |-> r.event] ELSE @]

LEMMA Result ==
    ASSUME NEW i, Call(i)
    PROVE  \E r \in IF IsInt THEN IntResults(i) ELSE PtrResults(i) :
              t' = Out(r, "tab", t) /\ Stored(i.dest, r)
  BY DEF Call, Stored, IsInt

LEMMA StoredFields ==
    ASSUME DOMAIN e = Fields, NEW dest \in Fields \ {"peer", "id", "ev"},
           NEW r, Stored(dest, r)
    PROVE  /\ DOMAIN e' = Fields
           /\ e'[dest] = r.rc
           /\ e'.peer = Out(r, "peer", e.peer)
           /\ e'.id = Out(r, "id", e.id)
           /\ "event" \in DOMAIN r =>
                 e'.ev.handle = r.handle /\ e'.ev.cookie = r.cookie
           /\ "event" \notin DOMAIN r => e'.ev = e.ev
           /\ \A f \in Fields \ {dest, "peer", "id", "ev"} : e'[f] = e[f]
  BY DEF Stored, Fields

LEMMA StoredRc ==
    ASSUME DOMAIN e = Fields, NEW r, Stored("rc", r)
    PROVE  e'.rc = r.rc /\ VarsKept
  BY StoredFields DEF VarsKept, Fields

-------------------------------------------------------------------------------
(* The calls about messages, in either build.                              *)

LEMMA PtrFacts ==
    /\ NULL \notin PtrHandle
    /\ Ptr!INVALID_HANDLE = NULL /\ Ptr!INVALID_IPC_MSG_ID = 0
    /\ Ptr!NO_ERROR = 0 /\ Ptr!ERR_GENERIC = -1 /\ Ptr!ERR_NO_MSG = -2
  BY ProgramData DEF Ptr!INVALID_HANDLE, Ptr!INVALID_IPC_MSG_ID, Ptr!NO_ERROR,
     Ptr!ERR_GENERIC, Ptr!ERR_NO_MSG

LEMMA IntMsgSet ==
    ASSUME IsInt, NEW u \in Table, NEW h, NEW id \in Nat, NEW len \in Nat
    PROVE  /\ SameButMsgs(u, sea_ht_new_nd_msg(u, h, id, len))
           /\ SameButMsgs(u, sea_ht_set_msg_id(u, h, id))
  <1>1. CASE h \in Chan
    BY <1>1 DEF sea_ht_new_nd_msg, sea_ht_set_msg_id, Table, SameButMsgs, IsTable
  <1>2. CASE h \notin Chan
    BY <1>2 DEF sea_ht_new_nd_msg, sea_ht_set_msg_id, SameButMsgs, IsTable
  <1> QED  BY <1>1, <1>2

LEMMA PtrMsgSet ==
    ASSUME ~ IsInt, NEW u \in Ptr!Table, NEW h \in PtrHandle, NEW n \in Nat
    PROVE  /\ SameButMsgs(u, Ptr!sea_ht_set_msg_id(u, h, n))
           /\ SameButMsgs(u, Ptr!sea_ht_set_msg_len(u, h, n))
           /\ Ptr!sea_ht_set_msg_id(u, h, n).msg_id[h] = n
  BY DEF Ptr!sea_ht_set_msg_id, Ptr!sea_ht_set_msg_len, Ptr!Table, SameButMsgs, IsTable

LEMMA PtrNewMsg ==
    ASSUME ~ IsInt, NEW u \in Ptr!Table, NEW h \in PtrHandle,
           NEW v \in Ptr!sea_ht_new_nd_msg(u, h)
    PROVE  SameButMsgs(u, v)
  <1>1. PICK id \in MsgId, len \in MsgLen :
           v = Ptr!sea_ht_set_msg_id(Ptr!sea_ht_set_msg_len(u, h, len), h, id)
    BY DEF Ptr!sea_ht_new_nd_msg
  <1> DEFINE w == Ptr!sea_ht_set_msg_len(u, h, len)
  <1>2. SameButMsgs(u, w) /\ id \in Nat
    BY PtrMsgSet, ProgramData
  <1>3. v = Ptr!sea_ht_set_msg_id(w, h, id)
    BY <1>1
  <1> HIDE DEF w
  <1>4. SameButMsgs(w, v)
    BY <1>2, <1>3, PtrMsgSet DEF SameButMsgs, IsTable
  <1> QED  BY <1>2, <1>4 DEF SameButMsgs

\* wait and wait_any: an error, or an event of h with h's cookie.
EventOf(h) ==
    /\ Quiet
    /\ e'.rc <= NO_ERROR
    /\ e'.rc = NO_ERROR => e'.ev.handle = h /\ e'.ev.cookie = CookieOf(h)

\* The results of a wait on h.
IntEvents(h) == Fails \cup {EventOn(t, h, bits, id, len) :
                               bits \in WaitBits, id \in MsgId, len \in MsgLen}
PtrEvents(h) == Fails \cup UNION {Ptr!EventOn(t, h, bits) : bits \in WaitBits}

LEMMA Failed ==
    ASSUME Typed, NEW r \in Fails, t' = Out(r, "tab", t), Stored("rc", r), NEW h
    PROVE  EventOf(h)
  <1>1. r = [rc |-> ERR_GENERIC]
    BY DEF Fails
  <1>2. t' = t /\ r.rc = -1
    BY <1>1 DEF Out, ERR_GENERIC
  <1>3. SameButMsgs(t, t')
    BY <1>2 DEF Typed, SameButMsgs
  <1> QED  BY <1>2, <1>3, StoredRc DEF Typed, EventOf, Quiet, NO_ERROR

LEMMA EventStored ==
    ASSUME Typed, NEW h, Valid(h), NEW r,
           t' = Out(r, "tab", t), Stored("rc", r),
           r \in IF IsInt THEN IntEvents(h) ELSE PtrEvents(h)
    PROVE  EventOf(h)
  <1>1. CASE r \in Fails
    BY <1>1, Failed
  <1>2. CASE IsInt /\ r \notin Fails
    <2>1. PICK bits \in WaitBits, id \in MsgId, len \in MsgLen :
             r = EventOn(t, h, bits, id, len)
      BY <1>2 DEF IntEvents
    <2>2. id \in Nat /\ len \in Nat /\ t \in Table
      BY <1>2, ProgramData DEF Typed, IsTable
    <2>3. /\ r.rc = NO_ERROR /\ r.handle = h /\ r.cookie = sea_ht_get_cookie(t, h)
          /\ "event" \in DOMAIN r /\ "tab" \in DOMAIN r
          /\ r.tab = IF "MSG" \in bits THEN sea_ht_new_nd_msg(t, h, id, len) ELSE t
      BY <2>1 DEF EventOn
    <2>4. t' = r.tab
      BY <2>3 DEF Out
    <2>5. SameButMsgs(t, t')
      <3>1. CASE "MSG" \in bits
        BY <1>2, <2>2, <2>3, <2>4, <3>1, IntMsgSet
      <3>2. CASE "MSG" \notin bits
        BY <2>3, <2>4, <3>2 DEF Typed, SameButMsgs
      <3> QED  BY <3>1, <3>2
    <2> QED
      BY <1>2, <2>3, <2>5, StoredRc, StoredFields
         DEF Typed, EventOf, Quiet, CookieOf, NO_ERROR, Fields
  <1>3. CASE ~ IsInt /\ r \notin Fails
    <2>1. PICK bits \in WaitBits : r \in Ptr!EventOn(t, h, bits)
      BY <1>3 DEF PtrEvents
    <2>2. h \in PtrHandle /\ t \in Ptr!Table
      BY <1>3 DEF Typed, IsTable, Valid
    <2>3. PICK n \in IF "MSG" \in bits THEN Ptr!sea_ht_new_nd_msg(t, h) ELSE {t} :
             r = [rc |-> Ptr!NO_ERROR, handle |-> h,
                  cookie |-> Ptr!sea_ht_get_cookie(t, h), event |-> bits, tab |-> n]
      BY <2>1 DEF Ptr!EventOn
    <2>4. /\ r.rc = NO_ERROR /\ r.handle = h /\ r.cookie = t.cookie[h]
          /\ "event" \in DOMAIN r /\ t' = n
      BY <2>3, PtrFacts DEF Out, NO_ERROR, Ptr!sea_ht_get_cookie
    <2>5. SameButMsgs(t, t')
      BY <1>3, <2>2, <2>3, <2>4, PtrNewMsg DEF SameButMsgs, IsTable
    <2> QED
      BY <1>3, <2>4, <2>5, StoredRc, StoredFields
         DEF Typed, EventOf, Quiet, CookieOf, NO_ERROR, Fields
  <1> QED  BY <1>1, <1>2, <1>3

LEMMA WaitCall ==
    ASSUME Typed, NEW h, Valid(h), Call(wait(h))
    PROVE  EventOf(h)
  <1>1. wait(h).op = "wait" /\ wait(h).h = h /\ wait(h).dest = "rc"
    BY DEF wait, Do
  <1>2. PICK r \in IF IsInt THEN IntResults(wait(h)) ELSE PtrResults(wait(h)) :
           t' = Out(r, "tab", t) /\ Stored("rc", r)
    BY <1>1, Result
  <1>3. CASE IsInt
    <2>1. r \in IntEvents(h)
      BY <1>1, <1>2, <1>3 DEF IntResults, IntEvents
    <2> QED  BY <1>2, <1>3, <2>1, EventStored
  <1>4. CASE ~ IsInt
    <2>1. r \in PtrEvents(h)
      BY <1>1, <1>2, <1>4 DEF PtrResults, PtrEvents
    <2> QED  BY <1>2, <1>4, <2>1, EventStored
  <1> QED  BY <1>3, <1>4

\* The handles wait_any may report: an active one, or the one that was named.
Reported == IF IsInt THEN t.active ELSE {t.g_on_waitany_handle}

LEMMA WaitAnyCall ==
    ASSUME Typed, \A h \in Reported : Valid(h), Call(wait_any)
    PROVE  /\ Quiet /\ e'.rc <= NO_ERROR
           /\ e'.rc = NO_ERROR => \E h \in Reported : EventOf(h)
  <1>1. wait_any.op = "wait_any" /\ wait_any.dest = "rc"
    BY DEF wait_any, Do
  <1>2. PICK r \in IF IsInt THEN IntResults(wait_any) ELSE PtrResults(wait_any) :
           t' = Out(r, "tab", t) /\ Stored("rc", r)
    BY <1>1, Result
  <1>3. CASE r \in Fails
    <2>1. r.rc = -1 /\ EventOf(NULL)
      BY <1>2, <1>3, Failed DEF Fails, ERR_GENERIC
    <2> QED  BY <1>2, <2>1, StoredRc DEF EventOf, Typed, NO_ERROR
  <1>4. CASE r \notin Fails
    <2>1. \E h \in Reported : r \in IF IsInt THEN IntEvents(h) ELSE PtrEvents(h)
      <3>1. CASE IsInt
        <4>1. r \in Fails \cup {EventOn(t, h, bits, id, len) :
                 h \in sea_ht_choose_active_handle(t),
                 bits \in WaitBits, id \in MsgId, len \in MsgLen}
          BY <1>1, <1>2, <3>1 DEF IntResults
        <4> QED  BY <1>4, <3>1, <4>1 DEF sea_ht_choose_active_handle, Reported, IntEvents
      <3>2. CASE ~ IsInt
        <4>1. r \in Fails \cup UNION {Ptr!EventOn(t, h, bits) :
                 h \in {Ptr!sea_ht_choose_active_handle(t)}, bits \in WaitBits}
          BY <1>1, <1>2, <3>2 DEF PtrResults
        <4> QED  BY <1>4, <3>2, <4>1 DEF Ptr!sea_ht_choose_active_handle, Reported, PtrEvents
      <3> QED  BY <3>1, <3>2
    <2>2. PICK h \in Reported : EventOf(h)
      BY <1>2, <2>1, EventStored
    <2> QED  BY <2>2 DEF EventOf
  <1> QED  BY <1>3, <1>4

\* get_msg: no identifier without a message.
LEMMA GetMsgCall ==
    ASSUME Typed, Call(get_msg)
    PROVE  /\ Quiet
           /\ e'.rc = NO_ERROR => e'.id # 0
  <1>1. get_msg.op = "get_msg" /\ get_msg.dest = "rc" /\ get_msg.h = e.chan
    BY DEF get_msg, Do
  <1>2. PICK r \in IF IsInt THEN IntResults(get_msg) ELSE PtrResults(get_msg) :
           t' = Out(r, "tab", t) /\ Stored("rc", r)
    BY <1>1, Result
  <1>3. "tab" \notin DOMAIN r /\ "id" \in DOMAIN r /\ (r.rc = NO_ERROR => r.id # 0)
    <2>1. CASE IsInt
      <3>1. r \in trusty_get_msg(t, e.chan)
        BY <1>1, <1>2, <2>1 DEF IntResults
      <3> QED
        BY <3>1 DEF trusty_get_msg, IpcErr, ERR_GENERIC, ERR_NO_MSG, NO_ERROR,
                    INVALID_IPC_MSG_ID
    <2>2. CASE ~ IsInt
      <3>1. r \in Ptr!trusty_get_msg(t, e.chan)
        BY <1>1, <1>2, <2>2 DEF PtrResults
      <3> QED
        BY <3>1, PtrFacts DEF Ptr!trusty_get_msg, Ptr!IpcErr, NO_ERROR
    <2> QED  BY <2>1, <2>2
  <1>4. t' = t /\ SameButMsgs(t, t')
    BY <1>2, <1>3 DEF Out, Typed, SameButMsgs
  <1>5. e'.id = r.id
    BY <1>2, <1>3, StoredFields DEF Typed, Fields, Out
  <1> QED  BY <1>2, <1>3, <1>4, <1>5, StoredRc DEF Typed, Quiet

\* read_msg: no more than the buffer holds, and nothing with another identifier.
LEMMA ReadMsgCall ==
    ASSUME Typed, Valid(e.chan), NEW size \in Nat, Call(read_msg(size))
    PROVE  /\ Quiet /\ e'.id = e.id /\ t' = t
           /\ e'.rc <= size
           /\ MsgIdOf(e.chan) # e.id => e'.rc < NO_ERROR
  <1>1. /\ read_msg(size).op = "read_msg" /\ read_msg(size).dest = "rc"
        /\ read_msg(size).h = e.chan /\ read_msg(size).arg = size
    BY DEF read_msg, Do
  <1>2. PICK r \in IF IsInt THEN IntResults(read_msg(size)) ELSE PtrResults(read_msg(size)) :
           t' = Out(r, "tab", t) /\ Stored("rc", r)
    BY <1>1, Result
  <1>3. /\ "tab" \notin DOMAIN r /\ "id" \notin DOMAIN r
        /\ r.rc <= size
        /\ MsgIdOf(e.chan) # e.id => r.rc < NO_ERROR
    <2>0. <<size>>[1] = size /\ DOMAIN <<size>> = {1}
      OBVIOUS
    <2>1. CASE IsInt
      <3>1. r = trusty_read_msg(t, e.chan, e.id, 0, <<size>>)
        BY <1>1, <1>2, <2>1 DEF IntResults
      <3>2. sea_ht_get_msg_len(t, e.chan) \in Nat
        BY <2>1 DEF sea_ht_get_msg_len, Typed, IsTable, Table
      <3> QED
        BY <2>0, <2>1, <3>1, <3>2 DEF trusty_read_msg, MsgIdOf, ERR_GENERIC, NO_ERROR
    <2>2. CASE ~ IsInt
      <3>1. r = [rc |-> Ptr!trusty_read_msg(t, e.chan, e.id, 0, <<size>>)]
        BY <1>1, <1>2, <2>2 DEF PtrResults
      <3>2. Ptr!sea_ht_get_msg_len(t, e.chan) \in Nat
        BY <2>2 DEF Ptr!sea_ht_get_msg_len, Typed, IsTable, Ptr!Table, Valid
      <3> QED
        BY <2>0, <2>2, <3>1, <3>2, PtrFacts
           DEF Ptr!trusty_read_msg, Ptr!Smaller, Ptr!sea_ht_get_msg_id, MsgIdOf, NO_ERROR
    <2> QED  BY <2>1, <2>2
  <1>4. t' = t /\ SameButMsgs(t, t')
    BY <1>2, <1>3 DEF Out, Typed, SameButMsgs
  <1>5. e'.id = e.id
    BY <1>2, <1>3, StoredFields DEF Typed, Fields, Out
  <1> QED  BY <1>2, <1>3, <1>4, <1>5, StoredRc DEF Typed, Quiet

\* put_msg: the message is gone when it succeeds.
LEMMA PutMsgCall ==
    ASSUME Typed, Valid(e.chan), Call(put_msg)
    PROVE  /\ Quiet /\ e'.id = e.id
           /\ e'.rc = NO_ERROR =>
                 IF IsInt THEN sea_ht_get_msg_id(t', e.chan) = 0 ELSE t'.msg_id[e.chan] = 0
  <1>1. put_msg.op = "put_msg" /\ put_msg.dest = "rc" /\ put_msg.h = e.chan
    BY DEF put_msg, Do
  <1>2. PICK r \in IF IsInt THEN IntResults(put_msg) ELSE PtrResults(put_msg) :
           t' = Out(r, "tab", t) /\ Stored("rc", r)
    BY <1>1, Result
  <1>3. /\ "id" \notin DOMAIN r /\ t' = r.tab /\ SameButMsgs(t, r.tab)
        /\ r.rc = NO_ERROR =>
             IF IsInt THEN sea_ht_get_msg_id(r.tab, e.chan) = 0 ELSE r.tab.msg_id[e.chan] = 0
    <2>1. CASE IsInt
      <3>1. r \in trusty_put_msg(t, e.chan)
        BY <1>1, <1>2, <2>1 DEF IntResults
      <3>2. CASE \E x \in IpcErr : r = [rc |-> x, tab |-> t]
        BY <1>2, <2>1, <3>2
           DEF IpcErr, ERR_GENERIC, ERR_NO_MSG, NO_ERROR, Out, Typed, SameButMsgs
      <3>3. CASE r = [rc |-> NO_ERROR, tab |-> sea_ht_set_msg_id(t, e.chan, INVALID_IPC_MSG_ID)]
        <4>1. SameButMsgs(t, r.tab)
          BY <2>1, <3>3, IntMsgSet DEF Typed, IsTable, INVALID_IPC_MSG_ID
        <4>2. sea_ht_get_msg_id(r.tab, e.chan) = 0
          BY <2>1, <3>3
             DEF sea_ht_set_msg_id, sea_ht_get_msg_id, Typed, IsTable, Table, INVALID_IPC_MSG_ID
        <4> QED  BY <1>2, <2>1, <3>3, <4>1, <4>2 DEF Out
      <3> QED  BY <3>1, <3>2, <3>3 DEF trusty_put_msg
    <2>2. CASE ~ IsInt
      <3>1. r \in Ptr!trusty_put_msg(t, e.chan)
        BY <1>1, <1>2, <2>2 DEF PtrResults
      <3>2. CASE \E x \in Ptr!IpcErr : r = [rc |-> x, tab |-> t]
        BY <1>2, <2>2, <3>2, PtrFacts DEF Ptr!IpcErr, NO_ERROR, Out, Typed, SameButMsgs
      <3>3. CASE r = [rc |-> Ptr!NO_ERROR, tab |-> Ptr!sea_ht_set_msg_id(t, e.chan, 0)]
        <4>1. SameButMsgs(t, r.tab) /\ r.tab.msg_id[e.chan] = 0
          BY <2>2, <3>3, PtrMsgSet DEF Typed, IsTable, Valid
        <4> QED  BY <1>2, <2>2, <3>3, <4>1 DEF Out
      <3> QED  BY <3>1, <3>2, <3>3, PtrFacts DEF Ptr!trusty_put_msg
    <2> QED  BY <2>1, <2>2
  <1>4. e'.id = e.id
    BY <1>2, <1>3, StoredFields DEF Typed, Fields, Out
  <1> QED  BY <1>2, <1>3, <1>4, StoredRc DEF Typed, Quiet

LEMMA SendMsgCall ==
    ASSUME Typed, NEW h, NEW size, Call(send_msg(h, size))
    PROVE  Quiet
  <1>1. send_msg(h, size).op = "send_msg" /\ send_msg(h, size).dest = "rc"
    BY DEF send_msg, Do
  <1>2. PICK r \in IF IsInt THEN IntResults(send_msg(h, size))
                             ELSE PtrResults(send_msg(h, size)) :
           t' = Out(r, "tab", t) /\ Stored("rc", r)
    BY <1>1, Result
  <1>3. "tab" \notin DOMAIN r
    BY <1>1, <1>2 DEF IntResults, PtrResults
  <1>4. SameButMsgs(t, t')
    BY <1>2, <1>3 DEF Out, Typed, SameButMsgs
  <1> QED  BY <1>2, <1>4, StoredRc DEF Typed, Quiet

-------------------------------------------------------------------------------
(* The calls that open and close handles, and set their cookies.           *)

Places == {"port", "h2", "h3", "h4", "chan"}

\* The call writes no handle but the one in dest.
KeptBut(dest) ==
    /\ DOMAIN e' = Fields
    /\ \A f \in Places \ {dest} : e'[f] = e[f]

LEMMA StoredIn ==
    ASSUME Typed, NEW dest \in Places, NEW r, Stored(dest, r)
    PROVE  e'[dest] = r.rc /\ KeptBut(dest) /\ e'.peer = Out(r, "peer", e.peer)
  BY StoredFields DEF Typed, KeptBut, Places, Fields

LEMMA PathIsChar == PATH \in Char /\ PATH # NULL
  BY ProgramData DEF PATH

LEMMA IntHandles ==
    /\ Port = {1, 2} /\ Chan = {16, 17}
    /\ INVALID_IPC_HANDLE \in Int /\ INVALID_IPC_HANDLE < 1
  BY SourceHandles, InvalidIsNoHandle DEF Port, Chan

\* The handle that port_create and connect give out in the integer build.
PortOf(flags) == IF IsSecurePort(flags) THEN 1 ELSE 2
NextChan      == IF 16 \in t.active THEN 17 ELSE 16

LEMMA IntFreePort ==
    ASSUME NEW flags
    PROVE  s_first_available_port_handle(t, IsSecurePort(flags)) =
             IF PortOf(flags) \in t.active THEN {INVALID_IPC_HANDLE} ELSE {PortOf(flags)}
  <1> DEFINE S == {p \in Port : IS_SECURE_IPC_HANDLE(p) = IsSecurePort(flags)
                                  /\ p \notin t.active}
  <1>1. IS_SECURE_IPC_HANDLE(1) = TRUE /\ IS_SECURE_IPC_HANDLE(2) = FALSE
    BY DEF IS_SECURE_IPC_HANDLE
  <1>2. S = IF PortOf(flags) \in t.active THEN {} ELSE {PortOf(flags)}
    <2>1. CASE IsSecurePort(flags) = TRUE
      BY <1>1, <2>1, IntHandles DEF PortOf
    <2>2. CASE IsSecurePort(flags) = FALSE
      BY <1>1, <2>2, IntHandles DEF PortOf
    <2>3. IsSecurePort(flags) \in BOOLEAN
      BY DEF IsSecurePort
    <2> QED  BY <2>1, <2>2, <2>3
  <1>3. PortOf(flags) <= PortOf(flags)
    BY DEF PortOf
  <1> HIDE DEF S
  <1>4. First(S) = IF PortOf(flags) \in t.active
                   THEN {INVALID_IPC_HANDLE} ELSE {PortOf(flags)}
    BY <1>2, <1>3 DEF First
  <1> QED  BY <1>4 DEF s_first_available_port_handle, S

LEMMA IntFreeChan ==
    ASSUME ~ {16, 17} \subseteq t.active
    PROVE  s_first_available_channel_handle(t) = {NextChan}
  <1> DEFINE S == {c \in Chan : c \notin t.active}
  <1>1. NextChan \in S /\ \A c \in S : NextChan <= c
    BY IntHandles DEF NextChan
  <1>2. \A h \in S : (\A k \in S : h <= k) => h = NextChan
    BY <1>1, IntHandles DEF NextChan
  <1> HIDE DEF S
  <1>3. First(S) = {NextChan}
    BY <1>1, <1>2 DEF First
  <1> QED  BY <1>3 DEF s_first_available_channel_handle, S

LEMMA IntCreateCall ==
    ASSUME Typed, IsInt, NEW dest \in Places, NEW path \in Char, NEW flags,
           Call(port_create(dest, path, flags))
    PROVE  /\ KeptBut(dest) /\ t' \in Table /\ t'.cookie = t.cookie
           /\ IF PortOf(flags) \in t.active
              THEN e'[dest] = INVALID_IPC_HANDLE /\ t' = t
              ELSE /\ e'[dest] = PortOf(flags)
                   /\ t'.active = t.active \cup {PortOf(flags)}
                   /\ t'.path = [t.path EXCEPT ![PortOf(flags)] = path]
  <1> DEFINE i == port_create(dest, path, flags)
  <1>1. /\ i.op = "port_create" /\ i.dest = dest
        /\ i.arg.path = path /\ i.arg.flags = flags
    BY DEF port_create, Do
  <1>2. PICK r \in IntResults(i) : t' = Out(r, "tab", t) /\ Stored(i.dest, r)
    BY Result
  <1>3. r \in trusty_port_create(t, path, flags)
    BY <1>1, <1>2 DEF IntResults
  <1>4. PICK h \in s_first_available_port_handle(t, IsSecurePort(flags)) :
           r = [rc |-> h, tab |-> sea_ht_new_port(t, h, path)]
    BY <1>3, ProgramData DEF trusty_port_create
  <1>5. h = IF PortOf(flags) \in t.active THEN INVALID_IPC_HANDLE ELSE PortOf(flags)
    BY <1>4, IntFreePort
  <1>6. /\ t' = sea_ht_new_port(t, h, path) /\ e'[dest] = h /\ KeptBut(dest)
    BY <1>1, <1>2, <1>4, StoredIn DEF Out
  <1>7. CASE PortOf(flags) \in t.active
    BY <1>5, <1>6, <1>7, NewInvalid DEF Typed, IsTable
  <1>8. CASE PortOf(flags) \notin t.active
    <2>1. h \in Port /\ h # INVALID_IPC_HANDLE /\ t \in Table
      BY <1>5, <1>8, IntHandles DEF PortOf, Typed, IsTable
    <2>2. t' \in Table /\ t'.active = t.active \cup {h} /\ t'.cookie = t.cookie
      BY <1>6, <2>1, NewPort
    <2>3. t'.path = [t.path EXCEPT ![h] = path]
      BY <1>6, <2>1 DEF sea_ht_new_port, Table
    <2> QED  BY <1>5, <1>6, <1>8, <2>2, <2>3
  <1> QED  BY <1>7, <1>8

\* With both flags, or with IPC_PORT_ALLOW_TA_CONNECT alone, the port is 2; with
\* IPC_PORT_ALLOW_NS_CONNECT alone it is 1.
IntOpened(dest, path, h) ==
    /\ KeptBut(dest) /\ e'[dest] = h
    /\ t' \in Table /\ t'.active = t.active \cup {h} /\ t'.cookie = t.cookie
    /\ t'.path = [t.path EXCEPT ![h] = path]

IntRefused(dest) == KeptBut(dest) /\ e'[dest] = INVALID_IPC_HANDLE /\ t' = t

LEMMA Flags ==
    /\ PortOf(BOTH) = 2 /\ PortOf(TA) = 2 /\ PortOf(NS) = 1
    /\ Ptr!IsSecurePort(BOTH) = FALSE /\ Ptr!IsSecurePort(TA) = FALSE
    /\ Ptr!IsSecurePort(NS) = TRUE
  BY DEF PortOf, IsSecurePort, Ptr!IsSecurePort, BOTH, TA, NS

LEMMA IntCreates2 ==
    ASSUME Typed, IsInt, NEW dest \in Places, NEW path \in Char,
           Call(port_create(dest, path, BOTH)) \/ Call(port_create(dest, path, TA))
    PROVE  /\ 2 \notin t.active => IntOpened(dest, path, 2)
           /\ 2 \in t.active => IntRefused(dest)
  <1>1. PICK flags : PortOf(flags) = 2 /\ Call(port_create(dest, path, flags))
    BY Flags
  <1> QED  BY <1>1, IntCreateCall DEF IntOpened, IntRefused

LEMMA IntCreates1 ==
    ASSUME Typed, IsInt, NEW dest \in Places, NEW path \in Char,
           Call(port_create(dest, path, NS))
    PROVE  /\ 1 \notin t.active => IntOpened(dest, path, 1)
           /\ 1 \in t.active => IntRefused(dest)
  <1>1. PICK flags : PortOf(flags) = 1 /\ Call(port_create(dest, path, flags))
    BY Flags
  <1> QED  BY <1>1, IntCreateCall DEF IntOpened, IntRefused

\* connect and accept give out the first channel.
IntChannel(dest) ==
    /\ KeptBut(dest) /\ e'[dest] = NextChan
    /\ t' \in Table /\ t'.cookie = t.cookie /\ t'.path = t.path
    /\ t'.active = t.active \cup {NextChan}

LEMMA IntNewChannel ==
    ASSUME Typed, IsInt, ~ {16, 17} \subseteq t.active, NEW dest \in Places,
           NEW h \in s_first_available_channel_handle(t), NEW r,
           r.rc = h, t' = sea_ht_new_channel(t, h), Stored(dest, r)
    PROVE  IntChannel(dest)
  <1>1. h = NextChan
    BY IntFreeChan
  <1>2. h \in Chan /\ h # INVALID_IPC_HANDLE /\ t \in Table
    BY <1>1, IntHandles DEF NextChan, Typed, IsTable
  <1>3. t' \in Table /\ t'.active = t.active \cup {h} /\ t'.cookie = t.cookie
    BY <1>2, NewChannel
  <1>4. t'.path = t.path
    BY <1>2 DEF sea_ht_new_channel, Table
  <1> QED  BY <1>1, <1>3, <1>4, StoredIn DEF IntChannel

\* The port that has the path may have any handle, and be closed.
LEMMA IntConnectCall ==
    ASSUME Typed, IsInt, ~ {16, 17} \subseteq t.active, NEW dest \in Places,
           NEW path, NEW p \in Port, t.path[p] = path, Call(connect(path, dest))
    PROVE  IntChannel(dest)
  <1> DEFINE i == connect(path, dest)
  <1>1. i.op = "connect" /\ i.dest = dest /\ i.arg = path
    BY DEF connect, Do
  <1>2. PICK r \in IntResults(i) : t' = Out(r, "tab", t) /\ Stored(i.dest, r)
    BY Result
  <1>3. r \in trusty_connect(t, path)
    BY <1>1, <1>2 DEF IntResults
  <1>4. sea_ht_math_port(t, path) # {INVALID_IPC_HANDLE}
    <2> DEFINE S == {q \in Port : t.path[q] = path}
    <2>1. S # {} /\ INVALID_IPC_HANDLE \notin S
      BY IntHandles
    <2> HIDE DEF S
    <2>2. First(S) # {INVALID_IPC_HANDLE}
      BY <2>1 DEF First
    <2> QED  BY <2>2 DEF sea_ht_math_port, S
  <1>5. PICK h \in s_first_available_channel_handle(t) :
           r = [rc |-> h, tab |-> sea_ht_new_channel(t, h)]
    BY <1>3, <1>4 DEF trusty_connect
  <1>6. r.rc = h /\ t' = sea_ht_new_channel(t, h) /\ Stored(dest, r)
    BY <1>1, <1>2, <1>5 DEF Out
  <1> QED  BY <1>6, IntNewChannel

LEMMA IntAcceptCall ==
    ASSUME Typed, IsInt, ~ {16, 17} \subseteq t.active, NEW port, Call(accept(port))
    PROVE  IntChannel("chan") /\ (port = 2 => e'.peer = "zeros")
  <1> DEFINE i == accept(port)
  <1>1. i.op = "accept" /\ i.dest = "chan" /\ i.h = port
    BY DEF accept, Do
  <1>2. PICK r \in IntResults(i) : t' = Out(r, "tab", t) /\ Stored(i.dest, r)
    BY Result
  <1>3. r \in trusty_accept(t, port)
    BY <1>1, <1>2 DEF IntResults
  <1>4. PICK h \in s_first_available_channel_handle(t) :
          \E u \in IF port % 2 = 0 THEN {"zeros"} ELSE {"zeros", "nonzero"} :
             r = [rc |-> h, tab |-> sea_ht_new_channel(t, h), peer |-> u]
    BY <1>3 DEF trusty_accept
  <1>5. /\ r.rc = h /\ t' = sea_ht_new_channel(t, h) /\ Stored("chan", r)
        /\ "peer" \in DOMAIN r /\ (port % 2 = 0 => r.peer = "zeros")
    BY <1>1, <1>2, <1>4 DEF Out
  <1>6. port = 2 => e'.peer = "zeros"
    BY <1>5, StoredIn DEF Places, Out
  <1> QED  BY <1>5, <1>6, IntNewChannel DEF Places

\* The pointer build gives out an address that was not used.
Fresh(h) ==
    /\ h \in PtrHandle \ t.allocated
    /\ t' \in Ptr!Table
    /\ t'.active = t.active \cup {h} /\ t'.allocated = t.allocated \cup {h}
    /\ t'.cookie[h] = NULL
    /\ t'.g_on_waitany_handle = t.g_on_waitany_handle
    /\ t'.g_on_connect_handle = t.g_on_connect_handle
    /\ \A k \in PtrHandle \ {h} :
          /\ t'.secure[k] = t.secure[k] /\ t'.type[k] = t.type[k]
          /\ t'.cookie[k] = t.cookie[k] /\ t'.path[k] = t.path[k]

LEMMA PtrMalloc == Ptr!malloc(t) = PtrHandle \ t.allocated
  BY DEF Ptr!malloc

LEMMA PtrFresh ==
    ASSUME Typed, ~ IsInt, NEW h \in PtrHandle \ t.allocated, NEW secure \in BOOLEAN,
           NEW type \in {"port", "channel"}, NEW path \in Char \cup {NULL},
           NEW r \in Ptr!NewHandle(t, h, secure, type, path), t' = Out(r, "tab", t)
    PROVE  /\ Fresh(h) /\ r.rc = h /\ DOMAIN r = {"rc", "tab"}
           /\ t'.secure[h] = secure /\ t'.type[h] = type /\ t'.path[h] = path
  <1> DEFINE u == [t EXCEPT !.allocated = @ \cup {h}, !.active = @ \cup {h},
                            !.secure[h] = secure, !.type[h] = type,
                            !.cookie[h] = NULL, !.path[h] = path]
  <1>1. t \in Ptr!Table
    BY DEF Typed, IsTable
  <1>2. r \in {[rc |-> h, tab |-> n] : n \in Ptr!sea_ht_new_nd_msg(u, h)}
    BY DEF Ptr!NewHandle
  <1>3. /\ u \in Ptr!Table
        /\ u.allocated = t.allocated \cup {h}
        /\ u.active = t.active \cup {h}
        /\ u.secure = [t.secure EXCEPT ![h] = secure]
        /\ u.type = [t.type EXCEPT ![h] = type]
        /\ u.cookie = [t.cookie EXCEPT ![h] = NULL]
        /\ u.path = [t.path EXCEPT ![h] = path]
        /\ u.g_on_waitany_handle = t.g_on_waitany_handle
        /\ u.g_on_connect_handle = t.g_on_connect_handle
    BY <1>1 DEF Ptr!Table
  <1> HIDE DEF u
  <1>4. PICK n \in Ptr!sea_ht_new_nd_msg(u, h) : r = [rc |-> h, tab |-> n]
    BY <1>2
  <1>5. t' = n /\ r.rc = h /\ DOMAIN r = {"rc", "tab"}
    BY <1>4 DEF Out
  <1>6. SameButMsgs(u, n)
    BY <1>3, <1>4, PtrNewMsg
  <1>7. /\ t' \in Ptr!Table
        /\ t'.allocated = u.allocated /\ t'.active = u.active
        /\ t'.secure = u.secure /\ t'.type = u.type
        /\ t'.cookie = u.cookie /\ t'.path = u.path
        /\ t'.g_on_waitany_handle = u.g_on_waitany_handle
        /\ t'.g_on_connect_handle = u.g_on_connect_handle
    BY <1>5, <1>6 DEF SameButMsgs, IsTable
  <1>8. \A k \in PtrHandle :
           /\ t'.secure[k] = IF k = h THEN secure ELSE t.secure[k]
           /\ t'.type[k] = IF k = h THEN type ELSE t.type[k]
           /\ t'.cookie[k] = IF k = h THEN NULL ELSE t.cookie[k]
           /\ t'.path[k] = IF k = h THEN path ELSE t.path[k]
    BY <1>1, <1>3, <1>7 DEF Ptr!Table
  <1> QED  BY <1>3, <1>5, <1>7, <1>8 DEF Fresh

LEMMA PtrCreateCall ==
    ASSUME Typed, ~ IsInt, NEW dest \in Places, NEW path \in Char, NEW flags,
           NEW secure \in BOOLEAN, Ptr!IsSecurePort(flags) = secure,
           Call(port_create(dest, path, flags))
    PROVE  /\ KeptBut(dest) /\ Fresh(e'[dest])
           /\ t'.secure[e'[dest]] = secure /\ t'.path[e'[dest]] = path
  <1> DEFINE i == port_create(dest, path, flags)
  <1>1. /\ i.op = "port_create" /\ i.dest = dest
        /\ i.arg.path = path /\ i.arg.flags = flags
    BY DEF port_create, Do
  <1>2. PICK r \in PtrResults(i) : t' = Out(r, "tab", t) /\ Stored(i.dest, r)
    BY Result
  <1>3. r \in Ptr!trusty_port_create(t, path, flags)
    BY <1>1, <1>2 DEF PtrResults
  <1>4. r \in Ptr!sea_ht_new_port(t, secure, path)
    BY <1>3, ProgramData DEF Ptr!trusty_port_create
  <1>5. PICK h \in PtrHandle \ t.allocated : r \in Ptr!NewHandle(t, h, secure, "port", path)
    BY <1>4, PtrMalloc, PtrFacts DEF Ptr!sea_ht_new_port
  <1>6. /\ Fresh(h) /\ r.rc = h /\ t'.secure[h] = secure /\ t'.path[h] = path
    BY <1>2, <1>5, PtrFresh
  <1> QED  BY <1>1, <1>2, <1>6, StoredIn

LEMMA PtrNewChannel ==
    ASSUME Typed, ~ IsInt, NEW p, NEW r \in Ptr!sea_ht_new_channel(t, p),
           t' = Out(r, "tab", t)
    PROVE  Fresh(r.rc) /\ DOMAIN r = {"rc", "tab"} /\ t'.type[r.rc] = "channel"
  <1>1. PICK h \in PtrHandle \ t.allocated :
           r \in UNION {Ptr!NewHandle(t, h, secure, "channel", NULL) : secure \in BOOLEAN}
    BY PtrMalloc, PtrFacts DEF Ptr!sea_ht_new_channel
  <1>2. PICK secure \in BOOLEAN : r \in Ptr!NewHandle(t, h, secure, "channel", NULL)
    BY <1>1
  <1> QED  BY <1>2, PtrFresh

LEMMA PtrTab ==
    ASSUME NEW p, NEW r \in Ptr!sea_ht_new_channel(t, p)
    PROVE  "tab" \in DOMAIN r
  <1>1. PICK h \in PtrHandle \ t.allocated, secure \in BOOLEAN :
           r \in Ptr!NewHandle(t, h, secure, "channel", NULL)
    BY PtrMalloc, PtrFacts DEF Ptr!sea_ht_new_channel
  <1> QED  BY <1>1 DEF Ptr!NewHandle

\* The channel in dest.
PtrChannel(dest) ==
    KeptBut(dest) /\ Fresh(e'[dest]) /\ t'.type[e'[dest]] = "channel"

LEMMA PtrConnectCall ==
    ASSUME Typed, ~ IsInt, t.g_on_connect_handle # NULL, NEW dest \in Places,
           NEW path, Call(connect(path, dest))
    PROVE  PtrChannel(dest)
  <1> DEFINE i == connect(path, dest)
  <1>1. i.op = "connect" /\ i.dest = dest /\ i.arg = path
    BY DEF connect, Do
  <1>2. PICK r \in PtrResults(i) : t' = Out(r, "tab", t) /\ Stored(i.dest, r)
    BY Result
  <1>3. r \in Ptr!trusty_connect(t, path)
    BY <1>1, <1>2 DEF PtrResults
  <1>4. r \in Ptr!sea_ht_new_channel(t, t.g_on_connect_handle)
    BY <1>3, PtrFacts DEF Ptr!trusty_connect, Ptr!sea_ht_math_port
  <1> QED  BY <1>1, <1>2, <1>4, PtrNewChannel, StoredIn DEF PtrChannel

LEMMA PtrAcceptCall ==
    ASSUME Typed, ~ IsInt, NEW port \in PtrHandle, Call(accept(port))
    PROVE  PtrChannel("chan") /\ (t.secure[port] = FALSE => e'.peer = "zeros")
  <1> DEFINE i == accept(port)
  <1>1. i.op = "accept" /\ i.dest = "chan" /\ i.h = port
    BY DEF accept, Do
  <1>2. PICK r \in PtrResults(i) : t' = Out(r, "tab", t) /\ Stored(i.dest, r)
    BY Result
  <1>3. r \in Ptr!trusty_accept(t, port)
    BY <1>1, <1>2 DEF PtrResults
  <1>4. PICK s \in Ptr!sea_ht_new_channel(t, port) :
          \E u \in IF Ptr!is_allow_ta_connect(t, port) THEN {"zeros", "nonzero"}
                   ELSE {"zeros"} :
             r = [rc |-> s.rc, tab |-> s.tab, peer |-> u]
    BY <1>3 DEF Ptr!trusty_accept
  <1>5. /\ r.rc = s.rc /\ r.tab = s.tab /\ t' = s.tab
        /\ "peer" \in DOMAIN r /\ (t.secure[port] = FALSE => r.peer = "zeros")
    BY <1>2, <1>4 DEF Out, Ptr!is_allow_ta_connect
  <1>6. /\ e'.chan = r.rc /\ KeptBut("chan") /\ e'.peer = r.peer
    BY <1>1, <1>2, <1>5, StoredIn DEF Places, Out
  <1>7. t' = Out(s, "tab", t)
    <2>1. "tab" \in DOMAIN s
      BY <1>4, PtrTab
    <2> QED  BY <1>5, <2>1 DEF Out
  <1>8. Fresh(s.rc) /\ t'.type[s.rc] = "channel"
    BY <1>4, <1>7, PtrNewChannel
  <1> QED  BY <1>5, <1>6, <1>8 DEF PtrChannel

LEMMA FreeKeepsPath ==
    ASSUME NEW u \in Table, NEW h
    PROVE  sea_ht_free(u, h).path = u.path
  <1>1. CASE h \in Port
    BY <1>1 DEF sea_ht_free, Table
  <1>2. CASE h \in Chan /\ h \notin Port
    BY <1>2 DEF sea_ht_free, Table
  <1>3. CASE h \notin Port /\ h \notin Chan
    BY <1>3 DEF sea_ht_free
  <1> QED  BY <1>1, <1>2, <1>3

\* close succeeds, and nothing but the flag active is reset.
LEMMA CloseCall ==
    ASSUME Typed, NEW h, Valid(h) \/ (IsInt /\ h = INVALID_IPC_HANDLE), Call(closes(h))
    PROVE  /\ VarsKept /\ e'.rc = 0 /\ IsTable(t')
           /\ t'.active = t.active \ {h} /\ t'.cookie = t.cookie /\ t'.path = t.path
           /\ ~ IsInt => /\ t'.allocated = t.allocated /\ t'.secure = t.secure
                         /\ t'.type = t.type
                         /\ t'.g_on_waitany_handle = t.g_on_waitany_handle
                         /\ t'.g_on_connect_handle = t.g_on_connect_handle
  <1> DEFINE i == closes(h)
  <1>1. i.op = "close" /\ i.dest = "rc" /\ i.h = h
    BY DEF closes, Do
  <1>2. PICK r \in IF IsInt THEN IntResults(i) ELSE PtrResults(i) :
           t' = Out(r, "tab", t) /\ Stored(i.dest, r)
    BY Result
  <1>3. CASE IsInt
    <2>1. r = trusty_close(t, h)
      BY <1>1, <1>2, <1>3 DEF IntResults
    <2>2. r.rc = 0 /\ t' = sea_ht_free(t, h)
      BY <1>2, <2>1 DEF trusty_close, NO_ERROR, Out
    <2>3. t \in Table
      BY <1>3 DEF Typed, IsTable
    <2>4. /\ t' \in Table /\ t'.active = t.active \ {h}
          /\ t'.cookie = t.cookie /\ t'.path = t.path
      <3>1. CASE h = INVALID_IPC_HANDLE
        BY <2>2, <2>3, <3>1, FreeInvalid, HandleFacts DEF Table
      <3>2. CASE h \in Port
        BY <2>2, <2>3, <3>2, FreePortHandle, FreeKeepsPath
      <3>3. CASE h \in Chan
        BY <2>2, <2>3, <3>3, FreeChannelHandle, FreeKeepsPath
      <3> QED  BY <1>3, <3>1, <3>2, <3>3 DEF Valid, Handle
    <2> QED  BY <1>1, <1>2, <1>3, <2>2, <2>4, StoredRc DEF Typed, IsTable
  <1>4. CASE ~ IsInt
    <2>1. r = Ptr!trusty_close(t, h)
      BY <1>1, <1>2, <1>4 DEF PtrResults
    <2>2. r.rc = 0 /\ t' = [t EXCEPT !.active = @ \ {h}]
      BY <1>2, <2>1, PtrFacts DEF Ptr!trusty_close, Ptr!sea_ht_free, Out
    <2>3. t \in Ptr!Table
      BY <1>4 DEF Typed, IsTable
    <2> QED  BY <1>1, <1>2, <1>4, <2>2, <2>3, StoredRc DEF Typed, IsTable, Ptr!Table
  <1> QED  BY <1>3, <1>4

LEMMA SetCookieCall ==
    ASSUME Typed, NEW h, Valid(h), Call(Do("set_cookie", h, 0, "rc"))
    PROVE  /\ VarsKept /\ e'.rc = 0 /\ IsTable(t')
           /\ t'.active = t.active /\ t'.path = t.path
           /\ ~ IsInt => t'.allocated = t.allocated /\ t'.secure = t.secure
           /\ (IF IsInt THEN sea_ht_get_cookie(t', h) ELSE t'.cookie[h]) # NULL
  <1> DEFINE i == Do("set_cookie", h, 0, "rc")
  <1>1. i.op = "set_cookie" /\ i.dest = "rc" /\ i.h = h
    BY DEF Do
  <1>2. PICK r \in IF IsInt THEN IntResults(i) ELSE PtrResults(i) :
           t' = Out(r, "tab", t) /\ Stored(i.dest, r)
    BY Result
  <1>3. ACookie \in Cookie /\ ACookie # NULL
    BY ProgramData, NullIsNoCookie DEF ACookie
  <1>4. CASE IsInt
    <2>1. r = trusty_set_cookie(t, h, ACookie)
      BY <1>1, <1>2, <1>4 DEF IntResults
    <2>2. r.rc = 0 /\ t' = [t EXCEPT !.cookie[h] = ACookie] /\ h \in Handle
      BY <1>2, <1>4, <2>1 DEF trusty_set_cookie, sea_ht_set_cookie, NO_ERROR, Out, Valid
    <2>3. t \in Table
      BY <1>4 DEF Typed, IsTable
    <2>4. /\ t' \in Table /\ t'.active = t.active /\ t'.path = t.path
          /\ t'.cookie[h] = ACookie
      BY <1>3, <2>2, <2>3 DEF Table
    <2> QED
      BY <1>1, <1>2, <1>3, <1>4, <2>2, <2>4, StoredRc DEF Typed, IsTable, sea_ht_get_cookie
  <1>5. CASE ~ IsInt
    <2>1. r = Ptr!trusty_set_cookie(t, h, ACookie)
      BY <1>1, <1>2, <1>5 DEF PtrResults
    <2>2. r.rc = 0 /\ t' = [t EXCEPT !.cookie[h] = ACookie] /\ h \in PtrHandle
      BY <1>2, <1>5, <2>1, PtrFacts
         DEF Ptr!trusty_set_cookie, Ptr!sea_ht_set_cookie, Out, Valid
    <2>3. t \in Ptr!Table
      BY <1>5 DEF Typed, IsTable
    <2>4. /\ t' \in Ptr!Table /\ t'.active = t.active /\ t'.path = t.path
          /\ t'.allocated = t.allocated /\ t'.secure = t.secure
          /\ t'.cookie[h] = ACookie
      BY <1>3, <2>2, <2>3 DEF Ptr!Table
    <2> QED  BY <1>1, <1>2, <1>3, <1>5, <2>2, <2>4, StoredRc DEF Typed, IsTable
  <1> QED  BY <1>4, <1>5

\* A program names the handle that wait_any or connect will work with.
NamedIn(field, h) ==
    /\ VarsKept /\ t' = [t EXCEPT ![field] = h] /\ t' \in Ptr!Table

LEMMA NameCall ==
    ASSUME Typed, ~ IsInt, NEW h \in PtrHandle
    PROVE  /\ Call(Do("on_waitany_return", h, 0, "rc")) => NamedIn("g_on_waitany_handle", h)
           /\ Call(Do("on_connect_return", h, 0, "rc")) => NamedIn("g_on_connect_handle", h)
  <1>0. t \in Ptr!Table
    BY DEF Typed, IsTable
  <1>1. ASSUME Call(Do("on_waitany_return", h, 0, "rc"))
        PROVE  NamedIn("g_on_waitany_handle", h)
    <2> DEFINE i == Do("on_waitany_return", h, 0, "rc")
    <2>1. i.op = "on_waitany_return" /\ i.dest = "rc" /\ i.h = h
      BY DEF Do
    <2>2. PICK r \in PtrResults(i) : t' = Out(r, "tab", t) /\ Stored(i.dest, r)
      BY <1>1, Result
    <2>3. t' = [t EXCEPT !.g_on_waitany_handle = h]
      BY <2>1, <2>2 DEF PtrResults, Ptr!on_waitany_return, Out
    <2> QED  BY <1>0, <2>1, <2>2, <2>3, StoredRc DEF NamedIn, Typed, Ptr!Table
  <1>2. ASSUME Call(Do("on_connect_return", h, 0, "rc"))
        PROVE  NamedIn("g_on_connect_handle", h)
    <2> DEFINE i == Do("on_connect_return", h, 0, "rc")
    <2>1. i.op = "on_connect_return" /\ i.dest = "rc" /\ i.h = h
      BY DEF Do
    <2>2. PICK r \in PtrResults(i) : t' = Out(r, "tab", t) /\ Stored(i.dest, r)
      BY <1>2, Result
    <2>3. t' = [t EXCEPT !.g_on_connect_handle = h]
      BY <2>1, <2>2 DEF PtrResults, Ptr!on_connect_return, Out
    <2> QED  BY <1>0, <2>1, <2>2, <2>3, StoredRc DEF NamedIn, Typed, Ptr!Table
  <1> QED  BY <1>1, <1>2

-------------------------------------------------------------------------------
(* The inductive invariant: what holds before each instruction.            *)

WaitProgram   == {"int_port_wait", "ptr_port_wait", "int_port_wait_any", "ptr_port_wait_any"}
CookieProgram == {"int_port_set_cookie", "ptr_port_set_cookie"}
GetProgram    == {"int_port_get_msg", "ptr_port_get_msg"}
PutProgram    == {"int_port_put_msg", "ptr_port_put_msg"}
ReadProgram   == {"int_port_read_msg", "ptr_port_read_msg"}
SendProgram   == {"int_port_send_msg", "ptr_port_send_msg"}

\* The programs that accept a connection on the port and serve it.
ServeProgram  == GetProgram \cup PutProgram \cup ReadProgram \cup SendProgram
Serving       == WaitProgram \cup ServeProgram

\* Where a serving program waits for a connection, and where it accepts it.
WaitAt ==
    CASE prog = "int_port_send_msg" -> 7
      [] prog = "ptr_port_send_msg" -> 8
      [] prog = "ptr_port_wait_any" -> 4
      [] OTHER                      -> 3

AcceptAt == IF prog \in WaitProgram THEN WaitAt + 3 ELSE WaitAt + 5

Size == IF prog \in WaitProgram THEN 4096 ELSE 64

\* The port is the one that was created.
PortUp ==
    IF IsInt THEN e.port = 2 /\ t.path[2] = PATH
    ELSE /\ e.port \in PtrHandle /\ e.port \in t.active
         /\ t.secure[e.port] = FALSE
         /\ t.path[e.port] = PATH

\* The channel is the one that was accepted.
ChanUp ==
    /\ e.chan # e.port
    /\ IF IsInt THEN e.chan = IF prog \in SendProgram THEN 17 ELSE 16
       ELSE e.chan \in PtrHandle /\ t.type[e.chan] = "channel"

\* The client of a send program has connected.
Connected == prog \in SendProgram /\ pc > IF IsInt THEN 3 ELSE 4

\* The handles that are open, of the programs about one port.
Open ==
    /\ pc > 1 => PortUp
    /\ IsInt /\ pc = 1 => CookieOf(2) = NULL
    /\ pc > 1 => IF prog \in CookieProgram /\ pc > 3
                 THEN CookieOf(e.port) # NULL ELSE CookieOf(e.port) = NULL
    /\ pc > AcceptAt => ChanUp
    /\ IsInt /\ pc <= AcceptAt =>
          t.active = (IF pc > 1 THEN {2} ELSE {}) \cup (IF Connected THEN {16} ELSE {})
    /\ pc > 3 => /\ prog = "ptr_port_wait_any" => t.g_on_waitany_handle = e.port
                 /\ prog = "ptr_port_send_msg" => t.g_on_connect_handle = e.port

\* What a serving program knows of its last call before the accept.
Waited ==
    /\ Connected /\ pc = WaitAt - 3 =>
          IF IsInt THEN e.h2 = 16 ELSE e.h2 \in PtrHandle /\ t.type[e.h2] = "channel"
    /\ pc = WaitAt + 1 => e.rc <= NO_ERROR
    /\ pc \in {WaitAt + 1, WaitAt + 2} => (e.rc = NO_ERROR => EventIsPort)
    /\ prog \in ServeProgram /\ pc = WaitAt + 3 => EventIsPort

\* And after it.
Served ==
    /\ pc = AcceptAt + 4 => e.rc <= NO_ERROR
    /\ pc = AcceptAt + 8 => (e.rc = NO_ERROR => e.id # 0)
    /\ prog \in GetProgram /\ pc = AcceptAt + 10 => e.rc = NO_ERROR
    /\ prog \notin GetProgram =>
          /\ pc \in AcceptAt + 9 .. AcceptAt + 15 => e.id # 0
          /\ pc \in AcceptAt + 11 .. AcceptAt + 12 => e.rc <= Size
          /\ pc = AcceptAt + 14 => (e.rc = NO_ERROR => MsgIdOf(e.chan) = 0)
          /\ pc = AcceptAt + 15 => MsgIdOf(e.chan) = 0
          /\ pc = AcceptAt + 16 => IF prog \in WaitProgram \cup PutProgram
                                   THEN e.rc < NO_ERROR ELSE e.rc = NO_ERROR

\* The programs about cookies.
Cookied ==
    /\ pc = 4 => e.rc = NO_ERROR
    /\ pc = 6 => e.rc <= NO_ERROR
    /\ pc \in 6 .. 7 => (e.rc = NO_ERROR => e.ev.handle = e.port /\ e.ev.cookie # NULL)

\* The integer programs about the handles that are given out.
IntCreated ==
    /\ t.active = CASE pc = 1       -> {}
                    [] pc \in 2 .. 5 -> {2}
                    [] pc = 10      -> {1}
                    [] OTHER        -> {1, 2}
    /\ pc > 1 => e.port = 2
    /\ pc = 4 => e.h2 = INVALID_IPC_HANDLE
    /\ pc = 6 => e.h2 = 1
    /\ pc = 8 => e.h3 = INVALID_IPC_HANDLE

IntClosed ==
    /\ t.active = CASE pc \in 2 .. 5   -> {2}
                    [] pc \in 6 .. 9   -> {1, 2}
                    [] pc \in 10 .. 13 -> {1}
                    [] pc \in 18 .. 19 -> {2}
                    [] OTHER           -> {}
    /\ pc > 1 => e.port = 2
    /\ pc > 3 => e.h2 = INVALID_IPC_HANDLE
    /\ pc > 5 => e.h3 = 1
    /\ pc > 7 => e.h4 = INVALID_IPC_HANDLE
    /\ pc \in {10, 12, 14, 16} => e.rc = 0

IntAccepted ==
    /\ pc <= 11 => t.active = CASE pc = 1         -> {}
                                [] pc \in 2 .. 3  -> {2}
                                [] pc \in 4 .. 7  -> {2, 16}
                                [] pc \in 8 .. 9  -> {16}
                                [] OTHER          -> {1, 16}
    /\ pc \in 2 .. 7 => e.port = 2
    /\ pc \in 10 .. 11 => e.port = 1
    /\ pc \in 4 .. 6 => e.chan = 16 /\ e.peer = "zeros"
    /\ pc = 8 => e.rc = 0
    /\ pc > 11 => e.chan = 17

OtherPath == CHOOSE c \in Char : c # PATH

IntConnected ==
    /\ pc < 8 => t.active = CASE pc = 1        -> {}
                              [] pc \in 2 .. 3 -> {2}
                              [] pc \in 4 .. 5 -> {1, 2}
                              [] OTHER         -> {1, 2, 16}
    /\ pc > 1 => e.port = 2 /\ t.path[2] = PATH
    /\ pc > 3 => e.h2 = 1 /\ t.path[1] = OtherPath
    /\ pc \in {6, 8} => e.chan > 0

\* Their counterparts of the pointer build.
OpenAs(h, secure) == h \in PtrHandle /\ t.secure[h] = secure

PtrCreated ==
    /\ pc > 1 => e.port \in PtrHandle
    /\ pc \in {2, 11} => OpenAs(e.port, FALSE)
    /\ pc = 4 => OpenAs(e.h2, FALSE)
    /\ pc = 6 => OpenAs(e.h2, TRUE)
    /\ pc = 8 => OpenAs(e.h3, TRUE)

PtrClosed ==
    /\ pc > 1 => e.port \in PtrHandle
    /\ pc \in {2, 7} => OpenAs(e.port, FALSE)
    /\ pc = 4 => e.rc = 0
    /\ pc \in 4 .. 5 => e.port \notin t.active

PtrAccepted ==
    /\ pc > 1 => e.port \in PtrHandle
    /\ pc \in 2 .. 3 => OpenAs(e.port, FALSE)
    /\ pc \in 4 .. 5 => e.peer = "zeros"
    /\ pc = 7 => e.rc = 0
    /\ pc = 9 => OpenAs(e.port, TRUE)

PtrConnected ==
    /\ pc = 2 => OpenAs(e.port, FALSE)
    /\ pc > 3 => e.h2 \in PtrHandle /\ e.h2 \in t.active
              /\ t.path[e.h2] = PATH /\ t.secure[e.h2] = TRUE
    /\ pc > 5 => t.g_on_connect_handle = e.h2
    /\ pc \in {7, 9} => e.chan \in PtrHandle

IInv ==
    /\ Typed
    /\ pc \in Nat \ {0}
    /\ prog \in Serving \cup CookieProgram => Open
    /\ prog \in Serving            => Waited /\ Served
    /\ prog \in CookieProgram      => Cookied
    /\ prog = "int_port_create"  => IntCreated
    /\ prog = "int_port_close"   => IntClosed
    /\ prog = "int_port_accept"  => IntAccepted
    /\ prog = "int_port_connect" => IntConnected
    /\ prog = "ptr_port_create"  => PtrCreated
    /\ prog = "ptr_port_close"   => PtrClosed
    /\ prog = "ptr_port_accept"  => PtrAccepted
    /\ prog = "ptr_port_connect" => PtrConnected

-------------------------------------------------------------------------------
(* Steps.                                                                  *)

LEMMA Stepped ==
    ASSUME Next
    PROVE  /\ pc \in DOMAIN Code /\ pc' = pc + 1 /\ prog' = prog
           /\ Call(Code[pc]) \/ Passes(Code[pc])
  BY DEF Next

LEMMA Called ==
    ASSUME NEW i, i.op \notin {"sassert", "assume"}, Call(i) \/ Passes(i)
    PROVE  Call(i)
  BY DEF Passes

LEMMA Passed ==
    ASSUME NEW i, i.op \in {"sassert", "assume"}, Call(i) \/ Passes(i)
    PROVE  i.holds /\ t' = t /\ e' = e
  BY DEF Passes, Call

\* The instructions by their operation.
LEMMA Ops ==
    /\ \A p : sassert(p).op = "sassert" /\ assume(p).op = "assume"
    /\ \A p : sassert(p).holds = p /\ assume(p).holds = p
    /\ \A dest, path, flags : port_create(dest, path, flags).op = "port_create"
    /\ \A path, dest : connect(path, dest).op = "connect"
    /\ \A h : /\ accept(h).op = "accept" /\ closes(h).op = "close" /\ wait(h).op = "wait"
              /\ Do("set_cookie", h, 0, "rc").op = "set_cookie"
              /\ Do("on_waitany_return", h, 0, "rc").op = "on_waitany_return"
              /\ Do("on_connect_return", h, 0, "rc").op = "on_connect_return"
    /\ wait_any.op = "wait_any" /\ get_msg.op = "get_msg" /\ put_msg.op = "put_msg"
    /\ \A size : read_msg(size).op = "read_msg"
    /\ \A h, size : send_msg(h, size).op = "send_msg"
  BY DEF sassert, assume, port_create, connect, accept, closes, wait, wait_any,
         get_msg, put_msg, read_msg, send_msg, Do

\* The sets of handles that are open in turn.
LEMMA Opens ==
    /\ {} \cup {2} = {2} /\ {2} \cup {1} = {1, 2} /\ {1} \cup {2} = {1, 2}
    /\ {2} \cup {16} = {2, 16} /\ {1, 2} \cup {16} = {1, 2, 16}
    /\ {16} \cup {1} = {1, 16}
    /\ {1, 2} \ {2} = {1} /\ {1} \ {1} = {} /\ {2, 16} \ {2} = {16}
  OBVIOUS

LEMMA IntCreateCode ==
    ASSUME prog = "int_port_create"
    PROVE  /\ IsInt /\ DOMAIN Code = 1 .. 11
           /\ Code[1] = port_create("port", PATH, BOTH)
           /\ Code[2] = sassert(e.port = 2)
           /\ Code[3] = port_create("h2", PATH, BOTH)
           /\ Code[4] = sassert(e.h2 = INVALID_IPC_HANDLE)
           /\ Code[5] = port_create("h2", PATH, NS)
           /\ Code[6] = sassert(e.h2 = 1)
           /\ Code[7] = port_create("h3", PATH, NS)
           /\ Code[8] = sassert(e.h3 = INVALID_IPC_HANDLE)
           /\ Code[9] = closes(e.port)
           /\ Code[10] = port_create("port", PATH, BOTH)
           /\ Code[11] = sassert(e.port = 2)
  <1>1. Code = int_port_create
    BY DEF Code
  <1> QED  BY <1>1 DEF int_port_create, IsInt, IntProgram

LEMMA IntCreateStep ==
    ASSUME IInv, Next, prog = "int_port_create"
    PROVE  Typed' /\ IntCreated'
  <1>1. /\ Typed /\ IntCreated /\ IsInt /\ IsInt' /\ prog' = prog /\ pc' = pc + 1
        /\ pc \in 1 .. 11
    BY Stepped, IntCreateCode DEF IInv, IsInt
  <1>2. CASE pc = 1
    <2>1. Call(port_create("port", PATH, BOTH)) /\ t.active = {}
      BY <1>1, <1>2, Stepped, Called, Ops, IntCreateCode DEF IntCreated
    <2>2. e'.port = 2 /\ t'.active = {2} /\ t' \in Table /\ KeptBut("port")
      BY <1>1, <2>1, IntCreates2, Opens, PathIsChar DEF Places, IntOpened
    <2> QED  BY <1>1, <1>2, <2>2 DEF IntCreated, KeptBut, Typed, IsTable
  <1>3. CASE pc \in {2, 4, 6, 8, 11}
    <2>1. t' = t /\ e' = e
      BY <1>3, Stepped, Passed, Ops, IntCreateCode
    <2> QED  BY <1>1, <1>3, <2>1 DEF IntCreated, Typed, IsTable
  <1>4. CASE pc = 3
    <2>1. Call(port_create("h2", PATH, BOTH)) /\ t.active = {2}
      BY <1>1, <1>4, Stepped, Called, Ops, IntCreateCode DEF IntCreated
    <2>2. e'.h2 = INVALID_IPC_HANDLE /\ t' = t /\ KeptBut("h2")
      BY <1>1, <2>1, IntCreates2, PathIsChar DEF Places, IntRefused
    <2> QED  BY <1>1, <1>4, <2>2 DEF IntCreated, KeptBut, Places, Typed, IsTable
  <1>5. CASE pc = 5
    <2>1. Call(port_create("h2", PATH, NS)) /\ t.active = {2}
      BY <1>1, <1>5, Stepped, Called, Ops, IntCreateCode DEF IntCreated
    <2>2. e'.h2 = 1 /\ t'.active = {1, 2} /\ t' \in Table /\ KeptBut("h2")
      BY <1>1, <2>1, IntCreates1, Opens, PathIsChar DEF Places, IntOpened
    <2> QED  BY <1>1, <1>5, <2>2 DEF IntCreated, KeptBut, Places, Typed, IsTable
  <1>6. CASE pc = 7
    <2>1. Call(port_create("h3", PATH, NS)) /\ t.active = {1, 2}
      BY <1>1, <1>6, Stepped, Called, Ops, IntCreateCode DEF IntCreated
    <2>2. e'.h3 = INVALID_IPC_HANDLE /\ t' = t /\ KeptBut("h3")
      BY <1>1, <2>1, IntCreates1, PathIsChar DEF Places, IntRefused
    <2> QED  BY <1>1, <1>6, <2>2 DEF IntCreated, KeptBut, Places, Typed, IsTable
  <1>7. CASE pc = 9
    <2>1. Call(closes(e.port)) /\ Valid(e.port) /\ e.port = 2
      BY <1>1, <1>7, Stepped, Called, Ops, IntCreateCode, IntHandles
         DEF IntCreated, Valid, Handle
    <2>2. t'.active = {1} /\ VarsKept /\ t' \in Table
      BY <1>1, <1>7, <2>1, CloseCall DEF IntCreated, IsTable
    <2> QED  BY <1>1, <1>7, <2>1, <2>2 DEF IntCreated, VarsKept, Typed, IsTable
  <1>8. CASE pc = 10
    <2>1. Call(port_create("port", PATH, BOTH)) /\ t.active = {1}
      BY <1>1, <1>8, Stepped, Called, Ops, IntCreateCode DEF IntCreated
    <2>2. e'.port = 2 /\ t'.active = {1, 2} /\ t' \in Table /\ KeptBut("port")
      BY <1>1, <2>1, IntCreates2, Opens, PathIsChar DEF Places, IntOpened
    <2> QED  BY <1>1, <1>8, <2>2 DEF IntCreated, KeptBut, Places, Typed, IsTable
  <1> QED  BY <1>1, <1>2, <1>3, <1>4, <1>5, <1>6, <1>7, <1>8

LEMMA IntCloseCode ==
    ASSUME prog = "int_port_close"
    PROVE  /\ IsInt /\ DOMAIN Code = 1 .. 18
           /\ Code[1] = port_create("port", PATH, BOTH)
           /\ Code[2] = sassert(e.port = 2)
           /\ Code[3] = port_create("h2", PATH, BOTH)
           /\ Code[4] = sassert(e.h2 = INVALID_IPC_HANDLE)
           /\ Code[5] = port_create("h3", PATH, NS)
           /\ Code[6] = sassert(e.h3 = 1)
           /\ Code[7] = port_create("h4", PATH, NS)
           /\ Code[8] = sassert(e.h4 = INVALID_IPC_HANDLE)
           /\ Code[9] = closes(e.port)
           /\ Code[10] = sassert(e.rc = 0)
           /\ Code[11] = closes(e.h2)
           /\ Code[12] = sassert(e.rc = 0)
           /\ Code[13] = closes(e.h3)
           /\ Code[14] = sassert(e.rc = 0)
           /\ Code[15] = closes(e.h4)
           /\ Code[16] = sassert(e.rc = 0)
           /\ Code[17] = port_create("port", PATH, BOTH)
           /\ Code[18] = sassert(e.port = 2)
  <1>1. Code = int_port_close
    BY DEF Code
  <1> QED  BY <1>1 DEF int_port_close, IsInt, IntProgram

LEMMA IntCloseStep ==
    ASSUME IInv, Next, prog = "int_port_close"
    PROVE  Typed' /\ IntClosed'
  <1>1. /\ Typed /\ IntClosed /\ IsInt /\ IsInt' /\ prog' = prog /\ pc' = pc + 1
        /\ pc \in 1 .. 18
    BY Stepped, IntCloseCode DEF IInv, IsInt
  <1>2. CASE pc \in {2, 4, 6, 8, 10, 12, 14, 16, 18}
    <2>1. t' = t /\ e' = e
      BY <1>2, Stepped, Passed, Ops, IntCloseCode
    <2> QED  BY <1>1, <1>2, <2>1 DEF IntClosed, Typed, IsTable
  <1>3. CASE pc = 1
    <2>1. Call(port_create("port", PATH, BOTH)) /\ t.active = {}
      BY <1>1, <1>3, Stepped, Called, Ops, IntCloseCode DEF IntClosed
    <2>2. e'.port = 2 /\ t'.active = {2} /\ t' \in Table /\ KeptBut("port")
      BY <1>1, <2>1, IntCreates2, Opens, PathIsChar DEF Places, IntOpened
    <2> QED  BY <1>1, <1>3, <2>1, <2>2 DEF IntClosed, KeptBut, Places, Typed, IsTable
  <1>4. CASE pc = 3
    <2>1. Call(port_create("h2", PATH, BOTH)) /\ t.active = {2}
      BY <1>1, <1>4, Stepped, Called, Ops, IntCloseCode DEF IntClosed
    <2>2. e'.h2 = INVALID_IPC_HANDLE /\ t' = t /\ KeptBut("h2")
      BY <1>1, <2>1, IntCreates2, PathIsChar DEF Places, IntRefused
    <2> QED  BY <1>1, <1>4, <2>1, <2>2 DEF IntClosed, KeptBut, Places, Typed, IsTable
  <1>5. CASE pc = 5
    <2>1. Call(port_create("h3", PATH, NS)) /\ t.active = {2}
      BY <1>1, <1>5, Stepped, Called, Ops, IntCloseCode DEF IntClosed
    <2>2. e'.h3 = 1 /\ t'.active = {1, 2} /\ t' \in Table /\ KeptBut("h3")
      BY <1>1, <2>1, IntCreates1, Opens, PathIsChar DEF Places, IntOpened
    <2> QED  BY <1>1, <1>5, <2>1, <2>2 DEF IntClosed, KeptBut, Places, Typed, IsTable
  <1>6. CASE pc = 7
    <2>1. Call(port_create("h4", PATH, NS)) /\ t.active = {1, 2}
      BY <1>1, <1>6, Stepped, Called, Ops, IntCloseCode DEF IntClosed
    <2>2. e'.h4 = INVALID_IPC_HANDLE /\ t' = t /\ KeptBut("h4")
      BY <1>1, <2>1, IntCreates1, PathIsChar DEF Places, IntRefused
    <2> QED  BY <1>1, <1>6, <2>1, <2>2 DEF IntClosed, KeptBut, Places, Typed, IsTable
  <1>7. CASE pc = 9
    <2>1. Call(closes(e.port)) /\ e.port = 2 /\ t.active = {1, 2} /\ Valid(e.port)
      BY <1>1, <1>7, Stepped, Called, Ops, IntCloseCode, IntHandles DEF Valid, Handle, IntClosed
    <2>2. e'.rc = 0 /\ t'.active = {1} /\ VarsKept /\ t' \in Table
      BY <1>1, <2>1, CloseCall, Opens, IntHandles DEF IsTable
    <2> QED  BY <1>1, <1>7, <2>1, <2>2 DEF IntClosed, VarsKept, Typed, IsTable
  <1>8. CASE pc = 11
    <2>1. Call(closes(e.h2)) /\ e.h2 = INVALID_IPC_HANDLE /\ t.active = {1}
      BY <1>1, <1>8, Stepped, Called, Ops, IntCloseCode DEF IntClosed
    <2>2. e'.rc = 0 /\ t'.active = {1} /\ VarsKept /\ t' \in Table
      BY <1>1, <2>1, CloseCall, Opens, IntHandles DEF IsTable
    <2> QED  BY <1>1, <1>8, <2>1, <2>2 DEF IntClosed, VarsKept, Typed, IsTable
  <1>9. CASE pc = 13
    <2>1. Call(closes(e.h3)) /\ e.h3 = 1 /\ t.active = {1} /\ Valid(e.h3)
      BY <1>1, <1>9, Stepped, Called, Ops, IntCloseCode, IntHandles DEF Valid, Handle, IntClosed
    <2>2. e'.rc = 0 /\ t'.active = {} /\ VarsKept /\ t' \in Table
      BY <1>1, <2>1, CloseCall, Opens, IntHandles DEF IsTable
    <2> QED  BY <1>1, <1>9, <2>1, <2>2 DEF IntClosed, VarsKept, Typed, IsTable
  <1>10. CASE pc = 15
    <2>1. Call(closes(e.h4)) /\ e.h4 = INVALID_IPC_HANDLE /\ t.active = {}
      BY <1>1, <1>10, Stepped, Called, Ops, IntCloseCode DEF IntClosed
    <2>2. e'.rc = 0 /\ t'.active = {} /\ VarsKept /\ t' \in Table
      BY <1>1, <2>1, CloseCall, Opens, IntHandles DEF IsTable
    <2> QED  BY <1>1, <1>10, <2>1, <2>2 DEF IntClosed, VarsKept, Typed, IsTable
  <1>11. CASE pc = 17
    <2>1. Call(port_create("port", PATH, BOTH)) /\ t.active = {}
      BY <1>1, <1>11, Stepped, Called, Ops, IntCloseCode DEF IntClosed
    <2>2. e'.port = 2 /\ t'.active = {2} /\ t' \in Table /\ KeptBut("port")
      BY <1>1, <2>1, IntCreates2, Opens, PathIsChar DEF Places, IntOpened
    <2> QED  BY <1>1, <1>11, <2>1, <2>2 DEF IntClosed, KeptBut, Places, Typed, IsTable
  <1> QED  BY <1>1, <1>2, <1>3, <1>4, <1>5, <1>6, <1>7, <1>8, <1>9, <1>10, <1>11

LEMMA IntAcceptCode ==
    ASSUME prog = "int_port_accept"
    PROVE  /\ IsInt /\ DOMAIN Code = 1 .. 13
           /\ Code[1] = port_create("port", PATH, BOTH)
           /\ Code[2] = sassert(e.port = 2)
           /\ Code[3] = accept(e.port)
           /\ Code[4] = assume(e.chan # INVALID_IPC_HANDLE)
           /\ Code[5] = sassert(e.chan = 16)
           /\ Code[6] = sassert(e.peer = "zeros")
           /\ Code[7] = closes(e.port)
           /\ Code[8] = sassert(e.rc = 0)
           /\ Code[9] = port_create("port", PATH, NS)
           /\ Code[10] = sassert(e.port = 1)
           /\ Code[11] = accept(e.port)
           /\ Code[12] = assume(e.chan # INVALID_IPC_HANDLE)
           /\ Code[13] = sassert(e.chan = 17)
  <1>1. Code = int_port_accept
    BY DEF Code
  <1> QED  BY <1>1 DEF int_port_accept, IsInt, IntProgram

LEMMA IntAcceptStep ==
    ASSUME IInv, Next, prog = "int_port_accept"
    PROVE  Typed' /\ IntAccepted'
  <1>1. /\ Typed /\ IntAccepted /\ IsInt /\ IsInt' /\ prog' = prog /\ pc' = pc + 1
        /\ pc \in 1 .. 13
    BY Stepped, IntAcceptCode DEF IInv, IsInt
  <1>2. CASE pc \in {2, 4, 5, 6, 8, 10, 12, 13}
    <2>1. t' = t /\ e' = e
      BY <1>2, Stepped, Passed, Ops, IntAcceptCode
    <2> QED  BY <1>1, <1>2, <2>1 DEF IntAccepted, Typed, IsTable
  <1>3. CASE pc = 1
    <2>1. Call(port_create("port", PATH, BOTH)) /\ t.active = {}
      BY <1>1, <1>3, Stepped, Called, Ops, IntAcceptCode DEF IntAccepted
    <2>2. e'.port = 2 /\ t'.active = {2} /\ t' \in Table /\ KeptBut("port")
      BY <1>1, <2>1, IntCreates2, Opens, PathIsChar DEF Places, IntOpened
    <2> QED  BY <1>1, <1>3, <2>1, <2>2 DEF IntAccepted, KeptBut, Places, Typed, IsTable
  <1>4. CASE pc = 3
    <2>1. Call(accept(e.port)) /\ e.port = 2 /\ t.active = {2}
      BY <1>1, <1>4, Stepped, Called, Ops, IntAcceptCode DEF IntAccepted
    <2>2. /\ e'.chan = 16 /\ e'.peer = "zeros" /\ t'.active = {2, 16}
          /\ t' \in Table /\ KeptBut("chan")
      BY <1>1, <2>1, IntAcceptCall, Opens DEF IntChannel, NextChan
    <2> QED  BY <1>1, <1>4, <2>1, <2>2 DEF IntAccepted, KeptBut, Places, Typed, IsTable
  <1>5. CASE pc = 7
    <2>1. Call(closes(e.port)) /\ e.port = 2 /\ t.active = {2, 16} /\ Valid(e.port)
      BY <1>1, <1>5, Stepped, Called, Ops, IntAcceptCode, IntHandles DEF Valid, Handle, IntAccepted
    <2>2. e'.rc = 0 /\ t'.active = {16} /\ VarsKept /\ t' \in Table
      BY <1>1, <2>1, CloseCall, Opens, IntHandles DEF IsTable
    <2> QED  BY <1>1, <1>5, <2>1, <2>2 DEF IntAccepted, VarsKept, Typed, IsTable
  <1>6. CASE pc = 9
    <2>1. Call(port_create("port", PATH, NS)) /\ t.active = {16} /\ 1 \notin t.active
      BY <1>1, <1>6, Stepped, Called, Ops, IntAcceptCode DEF IntAccepted
    <2>2. e'.port = 1 /\ t'.active = {1, 16} /\ t' \in Table /\ KeptBut("port")
      BY <1>1, <2>1, IntCreates1, Opens, PathIsChar DEF Places, IntOpened
    <2> QED  BY <1>1, <1>6, <2>1, <2>2 DEF IntAccepted, KeptBut, Places, Typed, IsTable
  <1>7. CASE pc = 11
    <2>1. Call(accept(e.port)) /\ t.active = {1, 16}
      BY <1>1, <1>7, Stepped, Called, Ops, IntAcceptCode DEF IntAccepted
    <2>2. e'.chan = 17 /\ t' \in Table /\ KeptBut("chan")
      BY <1>1, <2>1, IntAcceptCall, Opens DEF IntChannel, NextChan
    <2> QED  BY <1>1, <1>7, <2>1, <2>2 DEF IntAccepted, KeptBut, Places, Typed, IsTable
  <1> QED  BY <1>1, <1>2, <1>3, <1>4, <1>5, <1>6, <1>7

LEMMA OtherPathIsChar == OtherPath \in Char /\ OtherPath # PATH
  <1>1. \E c \in Char : c # PATH
    BY ProgramData
  <1> QED  BY <1>1 DEF OtherPath

LEMMA IntConnectCode ==
    ASSUME prog = "int_port_connect"
    PROVE  /\ IsInt /\ DOMAIN Code = 1 .. 8
           /\ Code[1] = port_create("port", PATH, TA)
           /\ Code[2] = sassert(e.port = 2)
           /\ Code[3] = port_create("h2", OtherPath, NS)
           /\ Code[4] = sassert(e.h2 = 1)
           /\ Code[5] = connect(PATH, "chan")
           /\ Code[6] = sassert(e.chan > 0)
           /\ Code[7] = connect(OtherPath, "chan")
           /\ Code[8] = sassert(e.chan > 0)
  <1>1. Code = int_port_connect
    BY DEF Code
  <1> QED  BY <1>1 DEF int_port_connect, IsInt, IntProgram, OtherPath

LEMMA IntConnectStep ==
    ASSUME IInv, Next, prog = "int_port_connect"
    PROVE  Typed' /\ IntConnected'
  <1>1. /\ Typed /\ IntConnected /\ IsInt /\ IsInt' /\ prog' = prog /\ pc' = pc + 1
        /\ pc \in 1 .. 8
    BY Stepped, IntConnectCode DEF IInv, IsInt
  <1>2. CASE pc \in {2, 4, 6, 8}
    <2>1. t' = t /\ e' = e
      BY <1>2, Stepped, Passed, Ops, IntConnectCode
    <2> QED  BY <1>1, <1>2, <2>1 DEF IntConnected, Typed, IsTable
  <1>3. CASE pc = 1
    <2>1. Call(port_create("port", PATH, TA)) /\ t.active = {}
      BY <1>1, <1>3, Stepped, Called, Ops, IntConnectCode DEF IntConnected
    <2>2. /\ e'.port = 2 /\ t'.active = {2} /\ t' \in Table /\ KeptBut("port")
          /\ t'.path = [t.path EXCEPT ![2] = PATH]
      BY <1>1, <2>1, IntCreates2, Opens, PathIsChar DEF Places, IntOpened
    <2>3. t'.path[2] = PATH
      BY <1>1, <2>2, IntHandles DEF Typed, IsTable, Table
    <2> QED  BY <1>1, <1>3, <2>1, <2>2, <2>3 DEF IntConnected, KeptBut, Places, Typed, IsTable
  <1>4. CASE pc = 3
    <2>1. Call(port_create("h2", OtherPath, NS)) /\ t.active = {2}
      BY <1>1, <1>4, Stepped, Called, Ops, IntConnectCode DEF IntConnected
    <2>2. /\ e'.h2 = 1 /\ t'.active = {1, 2} /\ t' \in Table /\ KeptBut("h2")
          /\ t'.path = [t.path EXCEPT ![1] = OtherPath]
      BY <1>1, <2>1, IntCreates1, Opens, OtherPathIsChar DEF Places, IntOpened
    <2>3. t'.path[1] = OtherPath /\ t'.path[2] = t.path[2]
      BY <1>1, <2>2, IntHandles DEF Typed, IsTable, Table
    <2> QED  BY <1>1, <1>4, <2>1, <2>2, <2>3 DEF IntConnected, KeptBut, Places, Typed, IsTable
  <1>5. CASE pc = 5
    <2>1. Call(connect(PATH, "chan")) /\ 2 \in Port /\ t.path[2] = PATH /\ t.active = {1, 2}
      BY <1>1, <1>5, Stepped, Called, Ops, IntConnectCode, IntHandles DEF IntConnected
    <2>2. 16 \notin t.active /\ ~ {16, 17} \subseteq t.active
      BY <2>1
    <2>3. /\ e'.chan > 0 /\ t' \in Table /\ KeptBut("chan") /\ t'.path = t.path
          /\ t'.active = {1, 2, 16}
      BY <1>1, <2>1, <2>2, IntConnectCall, Opens DEF Places, IntChannel, NextChan
    <2> QED  BY <1>1, <1>5, <2>1, <2>3 DEF IntConnected, KeptBut, Places, Typed, IsTable
  <1>6. CASE pc = 7
    <2>1. /\ Call(connect(OtherPath, "chan")) /\ 1 \in Port /\ t.path[1] = OtherPath
          /\ t.active = {1, 2, 16}
      BY <1>1, <1>6, Stepped, Called, Ops, IntConnectCode, IntHandles DEF IntConnected
    <2>2. 16 \in t.active /\ ~ {16, 17} \subseteq t.active
      BY <2>1
    <2>3. /\ e'.chan > 0 /\ t' \in Table /\ KeptBut("chan") /\ t'.path = t.path
      BY <1>1, <2>1, <2>2, IntConnectCall, Opens DEF Places, IntChannel, NextChan
    <2> QED  BY <1>1, <1>6, <2>1, <2>3 DEF IntConnected, KeptBut, Places, Typed, IsTable
  <1> QED  BY <1>1, <1>2, <1>3, <1>4, <1>5, <1>6

\* The same calls in the pointer build.
PtrOpened(dest, path, secure) ==
    /\ KeptBut(dest) /\ Fresh(e'[dest])
    /\ t'.secure[e'[dest]] = secure /\ t'.path[e'[dest]] = path

LEMMA PtrCreates ==
    ASSUME Typed, ~ IsInt, NEW dest \in Places, NEW path \in Char
    PROVE  /\ Call(port_create(dest, path, BOTH)) => PtrOpened(dest, path, FALSE)
           /\ Call(port_create(dest, path, TA)) => PtrOpened(dest, path, FALSE)
           /\ Call(port_create(dest, path, NS)) => PtrOpened(dest, path, TRUE)
  <1>1. ASSUME NEW flags, NEW secure \in BOOLEAN, Ptr!IsSecurePort(flags) = secure,
               Call(port_create(dest, path, flags))
        PROVE  PtrOpened(dest, path, secure)
    BY <1>1, PtrCreateCall DEF PtrOpened
  <1> QED  BY <1>1, Flags

LEMMA PtrCreateCode ==
    ASSUME prog = "ptr_port_create"
    PROVE  /\ ~ IsInt /\ DOMAIN Code = 1 .. 11
           /\ Code[1] = port_create("port", PATH, BOTH)
           /\ Code[2] = NonSecurePort
           /\ Code[3] = port_create("h2", PATH, BOTH)
           /\ Code[4] = Is(FALSE, e.h2)
           /\ Code[5] = port_create("h2", PATH, NS)
           /\ Code[6] = Is(TRUE, e.h2)
           /\ Code[7] = port_create("h3", PATH, NS)
           /\ Code[8] = Is(TRUE, e.h3)
           /\ Code[9] = closes(e.port)
           /\ Code[10] = port_create("port", PATH, BOTH)
           /\ Code[11] = NonSecurePort
  <1>1. Code = ptr_port_create
    BY DEF Code
  <1> QED  BY <1>1 DEF ptr_port_create, IsInt, IntProgram

LEMMA PtrCreateStep ==
    ASSUME IInv, Next, prog = "ptr_port_create"
    PROVE  Typed' /\ PtrCreated'
  <1>1. /\ Typed /\ PtrCreated /\ ~ IsInt /\ ~ IsInt' /\ prog' = prog /\ pc' = pc + 1
        /\ pc \in 1 .. 11
    BY Stepped, PtrCreateCode DEF IInv, IsInt
  <1>2. CASE pc \in {2, 4, 6, 8, 11}
    <2>1. Code[pc].op \in {"sassert", "assume"}
      BY <1>2, PtrCreateCode DEF NonSecurePort, Is, sassert, assume
    <2>2. t' = t /\ e' = e
      BY <2>1, Stepped, Passed
    <2> QED  BY <1>1, <1>2, <2>2 DEF PtrCreated, OpenAs, Typed, IsTable
  <1>3. CASE pc = 1
    <2>1. Call(port_create("port", PATH, BOTH))
      BY <1>1, <1>3, Stepped, Called, Ops, PtrCreateCode DEF PtrCreated, OpenAs, Valid
    <2>2. /\ KeptBut("port") /\ Fresh(e'.port)
          /\ t'.secure[e'.port] = FALSE /\ t'.path[e'.port] = PATH
      BY <1>1, <2>1, PtrCreates, PathIsChar DEF Places, PtrOpened
    <2> QED  BY <1>1, <1>3, <2>1, <2>2 DEF PtrCreated, OpenAs, KeptBut, Places, Fresh, Typed, IsTable
  <1>4. CASE pc = 3
    <2>1. Call(port_create("h2", PATH, BOTH))
      BY <1>1, <1>4, Stepped, Called, Ops, PtrCreateCode DEF PtrCreated, OpenAs, Valid
    <2>2. /\ KeptBut("h2") /\ Fresh(e'.h2)
          /\ t'.secure[e'.h2] = FALSE /\ t'.path[e'.h2] = PATH
      BY <1>1, <2>1, PtrCreates, PathIsChar DEF Places, PtrOpened
    <2> QED  BY <1>1, <1>4, <2>1, <2>2 DEF PtrCreated, OpenAs, KeptBut, Places, Fresh, Typed, IsTable
  <1>5. CASE pc = 5
    <2>1. Call(port_create("h2", PATH, NS))
      BY <1>1, <1>5, Stepped, Called, Ops, PtrCreateCode DEF PtrCreated, OpenAs, Valid
    <2>2. /\ KeptBut("h2") /\ Fresh(e'.h2)
          /\ t'.secure[e'.h2] = TRUE /\ t'.path[e'.h2] = PATH
      BY <1>1, <2>1, PtrCreates, PathIsChar DEF Places, PtrOpened
    <2> QED  BY <1>1, <1>5, <2>1, <2>2 DEF PtrCreated, OpenAs, KeptBut, Places, Fresh, Typed, IsTable
  <1>6. CASE pc = 7
    <2>1. Call(port_create("h3", PATH, NS))
      BY <1>1, <1>6, Stepped, Called, Ops, PtrCreateCode DEF PtrCreated, OpenAs, Valid
    <2>2. /\ KeptBut("h3") /\ Fresh(e'.h3)
          /\ t'.secure[e'.h3] = TRUE /\ t'.path[e'.h3] = PATH
      BY <1>1, <2>1, PtrCreates, PathIsChar DEF Places, PtrOpened
    <2> QED  BY <1>1, <1>6, <2>1, <2>2 DEF PtrCreated, OpenAs, KeptBut, Places, Fresh, Typed, IsTable
  <1>7. CASE pc = 9
    <2>1. Call(closes(e.port)) /\ Valid(e.port)
      BY <1>1, <1>7, Stepped, Called, Ops, PtrCreateCode DEF PtrCreated, OpenAs, Valid
    <2>2. /\ e'.rc = 0 /\ VarsKept /\ t' \in Ptr!Table /\ t'.active = t.active \ {e.port}
          /\ t'.allocated = t.allocated
      BY <1>1, <2>1, CloseCall DEF IsTable
    <2> QED  BY <1>1, <1>7, <2>1, <2>2 DEF PtrCreated, OpenAs, VarsKept, Typed, IsTable
  <1>8. CASE pc = 10
    <2>1. Call(port_create("port", PATH, BOTH))
      BY <1>1, <1>8, Stepped, Called, Ops, PtrCreateCode DEF PtrCreated, OpenAs, Valid
    <2>2. /\ KeptBut("port") /\ Fresh(e'.port)
          /\ t'.secure[e'.port] = FALSE /\ t'.path[e'.port] = PATH
      BY <1>1, <2>1, PtrCreates, PathIsChar DEF Places, PtrOpened
    <2> QED  BY <1>1, <1>8, <2>1, <2>2 DEF PtrCreated, OpenAs, KeptBut, Places, Fresh, Typed, IsTable
  <1> QED  BY <1>1, <1>2, <1>3, <1>4, <1>5, <1>6, <1>7, <1>8

LEMMA PtrCloseCode ==
    ASSUME prog = "ptr_port_close"
    PROVE  /\ ~ IsInt /\ DOMAIN Code = 1 .. 7
           /\ Code[1] = port_create("port", PATH, BOTH)
           /\ Code[2] = NonSecurePort
           /\ Code[3] = closes(e.port)
           /\ Code[4] = sassert(e.rc = 0)
           /\ Code[5] = sassert(e.port \notin t.active)
           /\ Code[6] = port_create("port", PATH, BOTH)
           /\ Code[7] = NonSecurePort
  <1>1. Code = ptr_port_close
    BY DEF Code
  <1> QED  BY <1>1 DEF ptr_port_close, IsInt, IntProgram

LEMMA PtrCloseStep ==
    ASSUME IInv, Next, prog = "ptr_port_close"
    PROVE  Typed' /\ PtrClosed'
  <1>1. /\ Typed /\ PtrClosed /\ ~ IsInt /\ ~ IsInt' /\ prog' = prog /\ pc' = pc + 1
        /\ pc \in 1 .. 7
    BY Stepped, PtrCloseCode DEF IInv, IsInt
  <1>2. CASE pc \in {2, 4, 5, 7}
    <2>1. Code[pc].op \in {"sassert", "assume"}
      BY <1>2, PtrCloseCode DEF NonSecurePort, Is, sassert, assume
    <2>2. t' = t /\ e' = e
      BY <2>1, Stepped, Passed
    <2> QED  BY <1>1, <1>2, <2>2 DEF PtrClosed, OpenAs, Typed, IsTable
  <1>3. CASE pc = 1
    <2>1. Call(port_create("port", PATH, BOTH))
      BY <1>1, <1>3, Stepped, Called, Ops, PtrCloseCode DEF PtrClosed, OpenAs, Valid
    <2>2. /\ KeptBut("port") /\ Fresh(e'.port)
          /\ t'.secure[e'.port] = FALSE /\ t'.path[e'.port] = PATH
      BY <1>1, <2>1, PtrCreates, PathIsChar DEF Places, PtrOpened
    <2> QED  BY <1>1, <1>3, <2>1, <2>2 DEF PtrClosed, OpenAs, KeptBut, Places, Fresh, Typed, IsTable
  <1>4. CASE pc = 3
    <2>1. Call(closes(e.port)) /\ Valid(e.port)
      BY <1>1, <1>4, Stepped, Called, Ops, PtrCloseCode DEF PtrClosed, OpenAs, Valid
    <2>2. /\ e'.rc = 0 /\ VarsKept /\ t' \in Ptr!Table /\ t'.active = t.active \ {e.port}
          /\ t'.allocated = t.allocated
      BY <1>1, <2>1, CloseCall DEF IsTable
    <2> QED  BY <1>1, <1>4, <2>1, <2>2 DEF PtrClosed, OpenAs, VarsKept, Typed, IsTable
  <1>5. CASE pc = 6
    <2>1. Call(port_create("port", PATH, BOTH))
      BY <1>1, <1>5, Stepped, Called, Ops, PtrCloseCode DEF PtrClosed, OpenAs, Valid
    <2>2. /\ KeptBut("port") /\ Fresh(e'.port)
          /\ t'.secure[e'.port] = FALSE /\ t'.path[e'.port] = PATH
      BY <1>1, <2>1, PtrCreates, PathIsChar DEF Places, PtrOpened
    <2> QED  BY <1>1, <1>5, <2>1, <2>2 DEF PtrClosed, OpenAs, KeptBut, Places, Fresh, Typed, IsTable
  <1> QED  BY <1>1, <1>2, <1>3, <1>4, <1>5

LEMMA PtrAcceptCode ==
    ASSUME prog = "ptr_port_accept"
    PROVE  /\ ~ IsInt /\ DOMAIN Code = 1 .. 11
           /\ Code[1] = port_create("port", PATH, BOTH)
           /\ Code[2] = NonSecurePort
           /\ Code[3] = accept(e.port)
           /\ Code[4] = assume(e.chan # NULL)
           /\ Code[5] = sassert(e.peer = "zeros")
           /\ Code[6] = closes(e.port)
           /\ Code[7] = sassert(e.rc = 0)
           /\ Code[8] = port_create("port", PATH, NS)
           /\ Code[9] = Is(TRUE, e.port)
           /\ Code[10] = accept(e.port)
           /\ Code[11] = assume(e.chan # NULL)
  <1>1. Code = ptr_port_accept
    BY DEF Code
  <1> QED  BY <1>1 DEF ptr_port_accept, IsInt, IntProgram

LEMMA PtrAcceptStep ==
    ASSUME IInv, Next, prog = "ptr_port_accept"
    PROVE  Typed' /\ PtrAccepted'
  <1>1. /\ Typed /\ PtrAccepted /\ ~ IsInt /\ ~ IsInt' /\ prog' = prog /\ pc' = pc + 1
        /\ pc \in 1 .. 11
    BY Stepped, PtrAcceptCode DEF IInv, IsInt
  <1>2. CASE pc \in {2, 4, 5, 7, 9, 11}
    <2>1. Code[pc].op \in {"sassert", "assume"}
      BY <1>2, PtrAcceptCode DEF NonSecurePort, Is, sassert, assume
    <2>2. t' = t /\ e' = e
      BY <2>1, Stepped, Passed
    <2> QED  BY <1>1, <1>2, <2>2 DEF PtrAccepted, OpenAs, Typed, IsTable
  <1>3. CASE pc = 1
    <2>1. Call(port_create("port", PATH, BOTH))
      BY <1>1, <1>3, Stepped, Called, Ops, PtrAcceptCode DEF PtrAccepted, OpenAs, Valid
    <2>2. /\ KeptBut("port") /\ Fresh(e'.port)
          /\ t'.secure[e'.port] = FALSE /\ t'.path[e'.port] = PATH
      BY <1>1, <2>1, PtrCreates, PathIsChar DEF Places, PtrOpened
    <2> QED  BY <1>1, <1>3, <2>1, <2>2 DEF PtrAccepted, OpenAs, KeptBut, Places, Fresh, Typed, IsTable
  <1>4. CASE pc = 3
    <2>1. Call(accept(e.port)) /\ e.port \in PtrHandle /\ t.secure[e.port] = FALSE
      BY <1>1, <1>4, Stepped, Called, Ops, PtrAcceptCode DEF PtrAccepted, OpenAs, Valid
    <2>2. e'.peer = "zeros" /\ KeptBut("chan") /\ Fresh(e'.chan)
      BY <1>1, <2>1, PtrAcceptCall DEF PtrChannel
    <2> QED  BY <1>1, <1>4, <2>1, <2>2 DEF PtrAccepted, OpenAs, KeptBut, Places, Fresh, Typed, IsTable
  <1>5. CASE pc = 6
    <2>1. Call(closes(e.port)) /\ Valid(e.port)
      BY <1>1, <1>5, Stepped, Called, Ops, PtrAcceptCode DEF PtrAccepted, OpenAs, Valid
    <2>2. /\ e'.rc = 0 /\ VarsKept /\ t' \in Ptr!Table /\ t'.active = t.active \ {e.port}
          /\ t'.allocated = t.allocated
      BY <1>1, <2>1, CloseCall DEF IsTable
    <2> QED  BY <1>1, <1>5, <2>1, <2>2 DEF PtrAccepted, OpenAs, VarsKept, Typed, IsTable
  <1>6. CASE pc = 8
    <2>1. Call(port_create("port", PATH, NS))
      BY <1>1, <1>6, Stepped, Called, Ops, PtrAcceptCode DEF PtrAccepted, OpenAs, Valid
    <2>2. /\ KeptBut("port") /\ Fresh(e'.port)
          /\ t'.secure[e'.port] = TRUE /\ t'.path[e'.port] = PATH
      BY <1>1, <2>1, PtrCreates, PathIsChar DEF Places, PtrOpened
    <2> QED  BY <1>1, <1>6, <2>1, <2>2 DEF PtrAccepted, OpenAs, KeptBut, Places, Fresh, Typed, IsTable
  <1>7. CASE pc = 10
    <2>1. Call(accept(e.port)) /\ e.port \in PtrHandle
      BY <1>1, <1>7, Stepped, Called, Ops, PtrAcceptCode DEF PtrAccepted, OpenAs, Valid
    <2>2. KeptBut("chan") /\ Fresh(e'.chan)
      BY <1>1, <2>1, PtrAcceptCall DEF PtrChannel
    <2> QED  BY <1>1, <1>7, <2>1, <2>2 DEF PtrAccepted, OpenAs, KeptBut, Places, Fresh, Typed, IsTable
  <1> QED  BY <1>1, <1>2, <1>3, <1>4, <1>5, <1>6, <1>7

LEMMA PtrConnectCode ==
    ASSUME prog = "ptr_port_connect"
    PROVE  /\ ~ IsInt /\ DOMAIN Code = 1 .. 9
           /\ Code[1] = port_create("port", PATH, TA)
           /\ Code[2] = NonSecurePort
           /\ Code[3] = port_create("h2", PATH, NS)
           /\ Code[4] = Is(TRUE, e.h2)
           /\ Code[5] = Do("on_connect_return", e.h2, 0, "rc")
           /\ Code[6] = connect(PATH, "chan")
           /\ Code[7] = sassert(e.chan # NULL)
           /\ Code[8] = connect(PATH, "chan")
           /\ Code[9] = sassert(e.chan # NULL)
  <1>1. Code = ptr_port_connect
    BY DEF Code
  <1> QED  BY <1>1 DEF ptr_port_connect, IsInt, IntProgram, Named

LEMMA PtrConnectStep ==
    ASSUME IInv, Next, prog = "ptr_port_connect"
    PROVE  Typed' /\ PtrConnected'
  <1>1. /\ Typed /\ PtrConnected /\ ~ IsInt /\ ~ IsInt' /\ prog' = prog /\ pc' = pc + 1
        /\ pc \in 1 .. 9
    BY Stepped, PtrConnectCode DEF IInv, IsInt
  <1>2. CASE pc \in {2, 4, 7, 9}
    <2>1. Code[pc].op \in {"sassert", "assume"}
      BY <1>2, PtrConnectCode DEF NonSecurePort, Is, sassert, assume
    <2>2. t' = t /\ e' = e
      BY <2>1, Stepped, Passed
    <2> QED  BY <1>1, <1>2, <2>2 DEF PtrConnected, OpenAs, Typed, IsTable
  <1>3. CASE pc = 1
    <2>1. Call(port_create("port", PATH, TA))
      BY <1>1, <1>3, Stepped, Called, Ops, PtrConnectCode DEF PtrConnected, OpenAs, Valid
    <2>2. /\ KeptBut("port") /\ Fresh(e'.port)
          /\ t'.secure[e'.port] = FALSE /\ t'.path[e'.port] = PATH
      BY <1>1, <2>1, PtrCreates, PathIsChar DEF Places, PtrOpened
    <2> QED  BY <1>1, <1>3, <2>1, <2>2 DEF PtrConnected, OpenAs, KeptBut, Places, Fresh, Typed, IsTable
  <1>4. CASE pc = 3
    <2>1. Call(port_create("h2", PATH, NS))
      BY <1>1, <1>4, Stepped, Called, Ops, PtrConnectCode DEF PtrConnected, OpenAs, Valid
    <2>2. /\ KeptBut("h2") /\ Fresh(e'.h2)
          /\ t'.secure[e'.h2] = TRUE /\ t'.path[e'.h2] = PATH
      BY <1>1, <2>1, PtrCreates, PathIsChar DEF Places, PtrOpened
    <2> QED  BY <1>1, <1>4, <2>1, <2>2 DEF PtrConnected, OpenAs, KeptBut, Places, Fresh, Typed, IsTable
  <1>5. CASE pc = 5
    <2>1. Call(Do("on_connect_return", e.h2, 0, "rc")) /\ e.h2 \in PtrHandle
      BY <1>1, <1>5, Stepped, Called, Ops, PtrConnectCode DEF PtrConnected, OpenAs, Valid
    <2>2. /\ VarsKept /\ t' \in Ptr!Table /\ t'.g_on_connect_handle = e.h2
          /\ t'.active = t.active /\ t'.allocated = t.allocated
          /\ t'.path = t.path /\ t'.secure = t.secure
      BY <1>1, <2>1, NameCall DEF NamedIn, Typed, IsTable, Ptr!Table
    <2> QED  BY <1>1, <1>5, <2>1, <2>2 DEF PtrConnected, OpenAs, VarsKept, Typed, IsTable
  <1>6. CASE pc = 6
    <2>1. Call(connect(PATH, "chan")) /\ t.g_on_connect_handle = e.h2 /\ e.h2 \in PtrHandle
      BY <1>1, <1>6, Stepped, Called, Ops, PtrConnectCode DEF PtrConnected, OpenAs, Valid
    <2>2. KeptBut("chan") /\ Fresh(e'.chan)
      BY <1>1, <2>1, PtrConnectCall, PtrFacts DEF PtrChannel, Places
    <2> QED  BY <1>1, <1>6, <2>1, <2>2 DEF PtrConnected, OpenAs, KeptBut, Places, Fresh, Typed, IsTable
  <1>7. CASE pc = 8
    <2>1. Call(connect(PATH, "chan")) /\ t.g_on_connect_handle = e.h2 /\ e.h2 \in PtrHandle
      BY <1>1, <1>7, Stepped, Called, Ops, PtrConnectCode DEF PtrConnected, OpenAs, Valid
    <2>2. KeptBut("chan") /\ Fresh(e'.chan)
      BY <1>1, <2>1, PtrConnectCall, PtrFacts DEF PtrChannel, Places
    <2> QED  BY <1>1, <1>7, <2>1, <2>2 DEF PtrConnected, OpenAs, KeptBut, Places, Fresh, Typed, IsTable
  <1> QED  BY <1>1, <1>2, <1>3, <1>4, <1>5, <1>6, <1>7

-------------------------------------------------------------------------------
(* The assertions.                                                         *)

Holds(i) == i.op = "sassert" => i.holds

LEMMA AssertHolds ==
    ASSUME NEW p, p, NEW i, i = sassert(p)
    PROVE  Holds(i)
  BY DEF sassert, Holds

LEMMA SecureHolds ==
    ASSUME NEW i, NEW h, h # NULL, i = Is(TRUE, h), t.secure[h] = TRUE
    PROVE  Holds(i)
  BY DEF sassert, Is, Holds

LEMMA NonSecureHolds ==
    ASSUME NEW i, NEW h, h # NULL, i = Is(FALSE, h), t.secure[h] = FALSE
    PROVE  Holds(i)
  BY DEF sassert, Is, Holds

LEMMA IntCreateHolds ==
    ASSUME IInv, prog = "int_port_create", pc \in DOMAIN Code, NEW i, i = Code[pc]
    PROVE  Holds(i)
  <1>1. pc \in 1 .. 11 /\ IntCreated
    BY IntCreateCode DEF IInv
  <1>2. CASE pc \in {2, 11}
    <2>1. i = sassert(e.port = 2) /\ e.port = 2
      BY <1>1, <1>2, IntCreateCode DEF IntCreated
    <2> QED  BY <2>1, AssertHolds
  <1>3. CASE pc = 4
    <2>1. i = sassert(e.h2 = INVALID_IPC_HANDLE) /\ e.h2 = INVALID_IPC_HANDLE
      BY <1>1, <1>3, IntCreateCode DEF IntCreated
    <2> QED  BY <2>1, AssertHolds
  <1>4. CASE pc = 6
    <2>1. i = sassert(e.h2 = 1) /\ e.h2 = 1
      BY <1>1, <1>4, IntCreateCode DEF IntCreated
    <2> QED  BY <2>1, AssertHolds
  <1>5. CASE pc = 8
    <2>1. i = sassert(e.h3 = INVALID_IPC_HANDLE) /\ e.h3 = INVALID_IPC_HANDLE
      BY <1>1, <1>5, IntCreateCode DEF IntCreated
    <2> QED  BY <2>1, AssertHolds
  <1>6. CASE pc \in {1, 3, 5, 7, 9, 10}
    BY <1>1, <1>6, IntCreateCode, Ops DEF Holds
  <1> QED  BY <1>1, <1>2, <1>3, <1>4, <1>5, <1>6

LEMMA IntCloseHolds ==
    ASSUME IInv, prog = "int_port_close", pc \in DOMAIN Code, NEW i, i = Code[pc]
    PROVE  Holds(i)
  <1>1. pc \in 1 .. 18 /\ IntClosed
    BY IntCloseCode DEF IInv
  <1>2. CASE pc \in {2, 18}
    <2>1. i = sassert(e.port = 2) /\ e.port = 2
      BY <1>1, <1>2, IntCloseCode DEF IntClosed
    <2> QED  BY <2>1, AssertHolds
  <1>3. CASE pc = 4
    <2>1. i = sassert(e.h2 = INVALID_IPC_HANDLE) /\ e.h2 = INVALID_IPC_HANDLE
      BY <1>1, <1>3, IntCloseCode DEF IntClosed
    <2> QED  BY <2>1, AssertHolds
  <1>4. CASE pc = 6
    <2>1. i = sassert(e.h3 = 1) /\ e.h3 = 1
      BY <1>1, <1>4, IntCloseCode DEF IntClosed
    <2> QED  BY <2>1, AssertHolds
  <1>5. CASE pc = 8
    <2>1. i = sassert(e.h4 = INVALID_IPC_HANDLE) /\ e.h4 = INVALID_IPC_HANDLE
      BY <1>1, <1>5, IntCloseCode DEF IntClosed
    <2> QED  BY <2>1, AssertHolds
  <1>6. CASE pc \in {10, 12, 14, 16}
    <2>1. i = sassert(e.rc = 0) /\ e.rc = 0
      BY <1>1, <1>6, IntCloseCode DEF IntClosed
    <2> QED  BY <2>1, AssertHolds
  <1>7. CASE pc \in {1, 3, 5, 7, 9, 11, 13, 15, 17}
    BY <1>1, <1>7, IntCloseCode, Ops DEF Holds
  <1> QED  BY <1>1, <1>2, <1>3, <1>4, <1>5, <1>6, <1>7

LEMMA IntAcceptHolds ==
    ASSUME IInv, prog = "int_port_accept", pc \in DOMAIN Code, NEW i, i = Code[pc]
    PROVE  Holds(i)
  <1>1. pc \in 1 .. 13 /\ IntAccepted
    BY IntAcceptCode DEF IInv
  <1>2. CASE pc = 2
    <2>1. i = sassert(e.port = 2) /\ e.port = 2
      BY <1>1, <1>2, IntAcceptCode DEF IntAccepted
    <2> QED  BY <2>1, AssertHolds
  <1>3. CASE pc = 5
    <2>1. i = sassert(e.chan = 16) /\ e.chan = 16
      BY <1>1, <1>3, IntAcceptCode DEF IntAccepted
    <2> QED  BY <2>1, AssertHolds
  <1>4. CASE pc = 6
    <2>1. i = sassert(e.peer = "zeros") /\ e.peer = "zeros"
      BY <1>1, <1>4, IntAcceptCode DEF IntAccepted
    <2> QED  BY <2>1, AssertHolds
  <1>5. CASE pc = 8
    <2>1. i = sassert(e.rc = 0) /\ e.rc = 0
      BY <1>1, <1>5, IntAcceptCode DEF IntAccepted
    <2> QED  BY <2>1, AssertHolds
  <1>6. CASE pc = 10
    <2>1. i = sassert(e.port = 1) /\ e.port = 1
      BY <1>1, <1>6, IntAcceptCode DEF IntAccepted
    <2> QED  BY <2>1, AssertHolds
  <1>7. CASE pc = 13
    <2>1. i = sassert(e.chan = 17) /\ e.chan = 17
      BY <1>1, <1>7, IntAcceptCode DEF IntAccepted
    <2> QED  BY <2>1, AssertHolds
  <1>8. CASE pc \in {1, 3, 4, 7, 9, 11, 12}
    BY <1>1, <1>8, IntAcceptCode, Ops DEF Holds, assume
  <1> QED  BY <1>1, <1>2, <1>3, <1>4, <1>5, <1>6, <1>7, <1>8

LEMMA IntConnectHolds ==
    ASSUME IInv, prog = "int_port_connect", pc \in DOMAIN Code, NEW i, i = Code[pc]
    PROVE  Holds(i)
  <1>1. pc \in 1 .. 8 /\ IntConnected
    BY IntConnectCode DEF IInv
  <1>2. CASE pc = 2
    <2>1. i = sassert(e.port = 2) /\ e.port = 2
      BY <1>1, <1>2, IntConnectCode DEF IntConnected
    <2> QED  BY <2>1, AssertHolds
  <1>3. CASE pc = 4
    <2>1. i = sassert(e.h2 = 1) /\ e.h2 = 1
      BY <1>1, <1>3, IntConnectCode DEF IntConnected
    <2> QED  BY <2>1, AssertHolds
  <1>4. CASE pc \in {6, 8}
    <2>1. i = sassert(e.chan > 0) /\ e.chan > 0
      BY <1>1, <1>4, IntConnectCode DEF IntConnected
    <2> QED  BY <2>1, AssertHolds
  <1>5. CASE pc \in {1, 3, 5, 7}
    BY <1>1, <1>5, IntConnectCode, Ops DEF Holds
  <1> QED  BY <1>1, <1>2, <1>3, <1>4, <1>5

LEMMA PtrCreateHolds ==
    ASSUME IInv, prog = "ptr_port_create", pc \in DOMAIN Code, NEW i, i = Code[pc]
    PROVE  Holds(i)
  <1>1. pc \in 1 .. 11 /\ PtrCreated
    BY PtrCreateCode DEF IInv
  <1>2. CASE pc \in {2, 4, 11}
    BY <1>1, <1>2, PtrCreateCode, PtrFacts, NonSecureHolds DEF PtrCreated, OpenAs, NonSecurePort
  <1>3. CASE pc \in {6, 8}
    BY <1>1, <1>3, PtrCreateCode, PtrFacts, SecureHolds DEF PtrCreated, OpenAs
  <1>4. CASE pc \in {1, 3, 5, 7, 9, 10}
    BY <1>1, <1>4, PtrCreateCode, Ops DEF Holds
  <1> QED  BY <1>1, <1>2, <1>3, <1>4

LEMMA PtrCloseHolds ==
    ASSUME IInv, prog = "ptr_port_close", pc \in DOMAIN Code, NEW i, i = Code[pc]
    PROVE  Holds(i)
  <1>1. pc \in 1 .. 7 /\ PtrClosed
    BY PtrCloseCode DEF IInv
  <1>2. CASE pc = 4
    <2>1. i = sassert(e.rc = 0) /\ e.rc = 0
      BY <1>1, <1>2, PtrCloseCode DEF PtrClosed
    <2> QED  BY <2>1, AssertHolds
  <1>3. CASE pc = 5
    <2>1. i = sassert(e.port \notin t.active) /\ e.port \notin t.active
      BY <1>1, <1>3, PtrCloseCode DEF PtrClosed
    <2> QED  BY <2>1, AssertHolds
  <1>4. CASE pc \in {2, 7}
    BY <1>1, <1>4, PtrCloseCode, PtrFacts, NonSecureHolds DEF PtrClosed, OpenAs, NonSecurePort
  <1>5. CASE pc \in {1, 3, 6}
    BY <1>1, <1>5, PtrCloseCode, Ops DEF Holds
  <1> QED  BY <1>1, <1>2, <1>3, <1>4, <1>5

LEMMA PtrAcceptHolds ==
    ASSUME IInv, prog = "ptr_port_accept", pc \in DOMAIN Code, NEW i, i = Code[pc]
    PROVE  Holds(i)
  <1>1. pc \in 1 .. 11 /\ PtrAccepted
    BY PtrAcceptCode DEF IInv
  <1>2. CASE pc = 5
    <2>1. i = sassert(e.peer = "zeros") /\ e.peer = "zeros"
      BY <1>1, <1>2, PtrAcceptCode DEF PtrAccepted
    <2> QED  BY <2>1, AssertHolds
  <1>3. CASE pc = 7
    <2>1. i = sassert(e.rc = 0) /\ e.rc = 0
      BY <1>1, <1>3, PtrAcceptCode DEF PtrAccepted
    <2> QED  BY <2>1, AssertHolds
  <1>4. CASE pc = 2
    <2>1. i = Is(FALSE, e.port)
      BY <1>4, PtrAcceptCode DEF NonSecurePort
    <2>2. e.port # NULL /\ t.secure[e.port] = FALSE
      BY <1>1, <1>4, PtrFacts DEF PtrAccepted, OpenAs
    <2> QED  BY <2>1, <2>2, NonSecureHolds
  <1>5. CASE pc = 9
    BY <1>1, <1>5, PtrAcceptCode, PtrFacts, SecureHolds DEF PtrAccepted, OpenAs
  <1>6. CASE pc \in {1, 3, 4, 6, 8, 10, 11}
    BY <1>1, <1>6, PtrAcceptCode, Ops DEF Holds, assume
  <1> QED  BY <1>1, <1>2, <1>3, <1>4, <1>5, <1>6

LEMMA PtrConnectHolds ==
    ASSUME IInv, prog = "ptr_port_connect", pc \in DOMAIN Code, NEW i, i = Code[pc]
    PROVE  Holds(i)
  <1>1. pc \in 1 .. 9 /\ PtrConnected
    BY PtrConnectCode DEF IInv
  <1>2. CASE pc \in {7, 9}
    <2>1. i = sassert(e.chan # NULL) /\ e.chan # NULL
      BY <1>1, <1>2, PtrConnectCode, PtrFacts DEF PtrConnected
    <2> QED  BY <2>1, AssertHolds
  <1>3. CASE pc = 2
    BY <1>1, <1>3, PtrConnectCode, PtrFacts, NonSecureHolds DEF PtrConnected, OpenAs, NonSecurePort
  <1>4. CASE pc = 4
    <2>1. i = Is(TRUE, e.h2)
      BY <1>4, PtrConnectCode
    <2>2. e.h2 # NULL /\ t.secure[e.h2] = TRUE
      BY <1>1, <1>4, PtrFacts DEF PtrConnected
    <2> QED  BY <2>1, <2>2, SecureHolds
  <1>5. CASE pc \in {1, 3, 5, 6, 8}
    BY <1>1, <1>5, PtrConnectCode, Ops DEF Holds
  <1> QED  BY <1>1, <1>2, <1>3, <1>4, <1>5

-------------------------------------------------------------------------------
(* The code of the programs about one port.                                *)

\* What a program asserts of its port, its channel and its client's channel.
PortAssert   == IF IsInt THEN Port2 ELSE NonSecurePort
ChanAssert   == IF prog = "int_port_send_msg" THEN sassert(e.chan = 17)
                ELSE IF IsInt THEN Chan16 ELSE IsChan
ClientAssert == IF IsInt THEN sassert(e.h2 = 16) ELSE IsChannel(e.h2)

WaitsOnAny == prog \in {"int_port_wait_any", "ptr_port_wait_any"}

\* The calls that name the port to the pointer build.
NamesPort == prog \in {"ptr_port_wait_any", "ptr_port_send_msg"}
Naming    == Do(IF WaitsOnAny THEN "on_waitany_return" ELSE "on_connect_return",
                e.port, 0, "rc")

\* Up to the wait for a connection, and from it to the accept.
HeadCode ==
    LET n == WaitAt
    IN  /\ Code[1] = port_create("port", PATH, TA)
        /\ Code[2] = PortAssert
        /\ NamesPort => Code[3] = Naming
        /\ prog \in SendProgram =>
              /\ Code[n - 4] = connect(PATH, "h2")
              /\ Code[n - 3] = ClientAssert
              /\ Code[n - 2] = send_msg(e.h2, 32)
              /\ Code[n - 1] = assume(e.rc >= 0)

WaitCode ==
    LET n == WaitAt
    IN  /\ Code[n] = IF WaitsOnAny THEN wait_any ELSE wait(e.port)
        /\ Code[n + 1] = sassert(e.rc <= NO_ERROR)
        /\ IF prog \in WaitProgram
           THEN Code[n + 2] = sassert(e.rc = NO_ERROR => EventIsPort)
           ELSE /\ Code[n + 2] = assume(e.rc = NO_ERROR)
                /\ Code[n + 3] = sassert(EventIsPort)
                /\ Code[n + 4] = assume("READY" \in e.ev.event)

\* From the accept to get_msg.
AcceptCode ==
    LET a == AcceptAt
    IN  /\ Code[a] = accept(e.port)
        /\ Code[a + 1] = assume(e.chan # NoHandle)
        /\ Code[a + 2] = ChanAssert
        /\ Code[a + 3] = IF WaitsOnAny THEN wait_any ELSE wait(e.chan)
        /\ Code[a + 4] = sassert(e.rc <= NO_ERROR)
        /\ Code[a + 5] = assume(e.rc = NO_ERROR)
        /\ Code[a + 6] = assume("MSG" \in e.ev.event)
        /\ Code[a + 7] = get_msg

\* What follows get_msg in a get program, and in the others.
GetCode ==
    LET a == AcceptAt
    IN  /\ DOMAIN Code = 1 .. a + 10
        /\ Code[a + 8] = sassert(e.rc = NO_ERROR => e.id # 0)
        /\ Code[a + 9] = closes(e.chan)
        /\ Code[a + 10] = sassert(e.rc = NO_ERROR)

EchoCode ==
    LET a == AcceptAt
    IN  /\ DOMAIN Code = 1 .. a + 16
        /\ Code[a + 8] = assume(e.rc = NO_ERROR)
        /\ Code[a + 9] = sassert(e.id # 0)
        /\ Code[a + 10] = read_msg(Size)
        /\ Code[a + 11] = assume(e.rc >= NO_ERROR)
        /\ Code[a + 12] = sassert(e.rc <= Size)
        /\ Code[a + 13] = put_msg
        /\ Code[a + 14] = assume(e.rc = NO_ERROR)

LastCode ==
    LET a == AcceptAt
    IN  IF prog \in WaitProgram \cup PutProgram
        THEN Code[a + 15] = read_msg(Size) /\ Code[a + 16] = sassert(e.rc < NO_ERROR)
        ELSE Code[a + 15] = closes(e.chan) /\ Code[a + 16] = sassert(e.rc = NO_ERROR)

ServingCode ==
    /\ HeadCode /\ WaitCode /\ AcceptCode
    /\ IF prog \in GetProgram THEN GetCode ELSE EchoCode /\ LastCode

\* Of each shape, whatever the assertions np and nc are.
LEMMA WaitsCode ==
    ASSUME prog \in WaitProgram, NEW np, NEW nc, np = PortAssert, nc = ChanAssert,
           NEW first, first = IF WaitsOnAny THEN wait_any ELSE wait(e.port),
           NEW second, second = IF WaitsOnAny THEN wait_any ELSE wait(e.chan),
           NEW named, named = IF NamesPort THEN << Naming >> ELSE <<>>,
           Code = Waits(np, nc, first, second, named)
    PROVE  ServingCode
  <1>1. /\ prog \notin SendProgram \cup GetProgram /\ Size = 4096
        /\ WaitAt = IF NamesPort THEN 4 ELSE 3
        /\ AcceptAt = WaitAt + 3
    BY DEF WaitProgram, GetProgram, SendProgram, Size, WaitAt, AcceptAt, NamesPort
  <1>2. CASE NamesPort
    <2>1. named = << Naming >> /\ WaitAt = 4 /\ AcceptAt = 7
      BY <1>1, <1>2
    <2>2. HeadCode
      BY <1>1, <1>2, <2>1 DEF HeadCode, Waits, Echo
    <2>3. WaitCode
      BY <1>1, <2>1 DEF WaitCode, Waits, Echo
    <2>4. AcceptCode
      BY <1>1, <2>1 DEF AcceptCode, Waits, Echo
    <2>5. EchoCode
      BY <1>1, <2>1 DEF EchoCode, Waits, Echo
    <2>6. LastCode
      BY <1>1, <2>1 DEF LastCode, Waits, Echo
    <2> QED  BY <1>1, <2>2, <2>3, <2>4, <2>5, <2>6 DEF ServingCode
  <1>3. CASE ~ NamesPort
    <2>1. named = <<>> /\ WaitAt = 3 /\ AcceptAt = 6
      BY <1>1, <1>3
    <2>2. HeadCode
      BY <1>1, <1>3, <2>1 DEF HeadCode, Waits, Echo
    <2>3. WaitCode
      BY <1>1, <2>1 DEF WaitCode, Waits, Echo
    <2>4. AcceptCode
      BY <1>1, <2>1 DEF AcceptCode, Waits, Echo
    <2>5. EchoCode
      BY <1>1, <2>1 DEF EchoCode, Waits, Echo
    <2>6. LastCode
      BY <1>1, <2>1 DEF LastCode, Waits, Echo
    <2> QED  BY <1>1, <2>2, <2>3, <2>4, <2>5, <2>6 DEF ServingCode
  <1> QED  BY <1>2, <1>3

LEMMA GetsCode ==
    ASSUME prog \in GetProgram, NEW np, NEW nc, np = PortAssert, nc = ChanAssert,
           Code = Gets(np, nc)
    PROVE  ServingCode
  <1>1. /\ prog \notin SendProgram \cup WaitProgram /\ ~ NamesPort /\ ~ WaitsOnAny
        /\ WaitAt = 3 /\ AcceptAt = 8
    BY DEF WaitProgram, GetProgram, SendProgram, WaitAt, AcceptAt, NamesPort, WaitsOnAny
  <1>2. HeadCode
    BY <1>1 DEF HeadCode, Gets, Serve
  <1>3. WaitCode
    BY <1>1 DEF WaitCode, Gets, Serve
  <1>4. AcceptCode
    BY <1>1 DEF AcceptCode, Gets, Serve
  <1>5. GetCode
    BY <1>1 DEF GetCode, Gets, Serve
  <1> QED  BY <1>2, <1>3, <1>4, <1>5 DEF ServingCode

LEMMA PutsCode ==
    ASSUME prog \in PutProgram, NEW np, NEW nc, np = PortAssert, nc = ChanAssert,
           Code = Puts(np, nc)
    PROVE  ServingCode
  <1>1. /\ prog \notin SendProgram \cup WaitProgram \cup GetProgram
        /\ ~ NamesPort /\ ~ WaitsOnAny
        /\ WaitAt = 3 /\ AcceptAt = 8 /\ Size = 64
    BY DEF WaitProgram, GetProgram, PutProgram, SendProgram, WaitAt, AcceptAt, Size,
           NamesPort, WaitsOnAny
  <1>2. HeadCode
    BY <1>1 DEF HeadCode, Puts, Serve, Echo
  <1>3. WaitCode
    BY <1>1 DEF WaitCode, Puts, Serve, Echo
  <1>4. AcceptCode
    BY <1>1 DEF AcceptCode, Puts, Serve, Echo
  <1>5. EchoCode
    BY <1>1 DEF EchoCode, Puts, Serve, Echo
  <1>6. LastCode
    BY <1>1 DEF LastCode, Puts, Serve, Echo
  <1> QED  BY <1>1, <1>2, <1>3, <1>4, <1>5, <1>6 DEF ServingCode

LEMMA ReadsCode ==
    ASSUME prog \in ReadProgram, NEW np, NEW nc, np = PortAssert, nc = ChanAssert,
           Code = Reads(np, nc)
    PROVE  ServingCode
  <1>1. /\ prog \notin SendProgram \cup WaitProgram \cup GetProgram \cup PutProgram
        /\ ~ NamesPort /\ ~ WaitsOnAny
        /\ WaitAt = 3 /\ AcceptAt = 8 /\ Size = 64
    BY DEF WaitProgram, GetProgram, PutProgram, ReadProgram, SendProgram, WaitAt, AcceptAt,
           Size, NamesPort, WaitsOnAny
  <1>2. HeadCode
    BY <1>1 DEF HeadCode, Reads, Serve, Echo
  <1>3. WaitCode
    BY <1>1 DEF WaitCode, Reads, Serve, Echo
  <1>4. AcceptCode
    BY <1>1 DEF AcceptCode, Reads, Serve, Echo
  <1>5. EchoCode
    BY <1>1 DEF EchoCode, Reads, Serve, Echo
  <1>6. LastCode
    BY <1>1 DEF LastCode, Reads, Serve, Echo
  <1> QED  BY <1>1, <1>2, <1>3, <1>4, <1>5, <1>6 DEF ServingCode

LEMMA SendsCode ==
    ASSUME prog \in SendProgram, NEW np, NEW nc, np = PortAssert, nc = ChanAssert,
           NEW client, client = ClientAssert,
           NEW named, named = IF NamesPort THEN << Naming >> ELSE <<>>,
           Code = Sends(np, named, client, nc)
    PROVE  ServingCode
  <1>1. /\ prog \notin WaitProgram \cup GetProgram \cup PutProgram /\ ~ WaitsOnAny
        /\ WaitAt = IF NamesPort THEN 8 ELSE 7
        /\ AcceptAt = WaitAt + 5 /\ Size = 64
    BY DEF WaitProgram, GetProgram, PutProgram, SendProgram, WaitAt, AcceptAt, Size,
           NamesPort, WaitsOnAny
  <1>2. CASE NamesPort
    <2>1. named = << Naming >> /\ WaitAt = 8 /\ AcceptAt = 13
      BY <1>1, <1>2
    <2>2. HeadCode
      BY <1>1, <1>2, <2>1 DEF HeadCode, Sends, Serve, Echo
    <2>3. WaitCode
      BY <1>1, <2>1 DEF WaitCode, Sends, Serve, Echo
    <2>4. AcceptCode
      BY <1>1, <2>1 DEF AcceptCode, Sends, Serve, Echo
    <2>5. EchoCode
      BY <1>1, <2>1 DEF EchoCode, Sends, Serve, Echo
    <2>6. LastCode
      BY <1>1, <2>1 DEF LastCode, Sends, Serve, Echo
    <2> QED  BY <1>1, <2>2, <2>3, <2>4, <2>5, <2>6 DEF ServingCode
  <1>3. CASE ~ NamesPort
    <2>1. named = <<>> /\ WaitAt = 7 /\ AcceptAt = 12
      BY <1>1, <1>3
    <2>2. HeadCode
      BY <1>1, <1>3, <2>1 DEF HeadCode, Sends, Serve, Echo
    <2>3. WaitCode
      BY <1>1, <2>1 DEF WaitCode, Sends, Serve, Echo
    <2>4. AcceptCode
      BY <1>1, <2>1 DEF AcceptCode, Sends, Serve, Echo
    <2>5. EchoCode
      BY <1>1, <2>1 DEF EchoCode, Sends, Serve, Echo
    <2>6. LastCode
      BY <1>1, <2>1 DEF LastCode, Sends, Serve, Echo
    <2> QED  BY <1>1, <2>2, <2>3, <2>4, <2>5, <2>6 DEF ServingCode
  <1> QED  BY <1>2, <1>3

LEMMA EveryServingCode ==
    ASSUME prog \in Serving
    PROVE  ServingCode
  <1> USE DEF PortAssert, ChanAssert, IsInt, IntProgram
  <1>1. CASE prog \in WaitProgram
    <2> DEFINE np == PortAssert
               nc == ChanAssert
               first  == IF WaitsOnAny THEN wait_any ELSE wait(e.port)
               second == IF WaitsOnAny THEN wait_any ELSE wait(e.chan)
               named  == IF NamesPort THEN << Naming >> ELSE <<>>
    <2>1. Code = Waits(np, nc, first, second, named)
      BY <1>1 DEF Code, int_port_wait, int_port_wait_any, ptr_port_wait, ptr_port_wait_any,
                  WaitProgram, WaitsOnAny, NamesPort, Naming, Named
    <2> QED  BY <1>1, <2>1, WaitsCode
  <1>2. CASE prog \in GetProgram
    <2>1. Code = Gets(PortAssert, ChanAssert)
      BY <1>2 DEF Code, int_port_get_msg, ptr_port_get_msg, GetProgram
    <2> QED  BY <1>2, <2>1, GetsCode
  <1>3. CASE prog \in PutProgram
    <2>1. Code = Puts(PortAssert, ChanAssert)
      BY <1>3 DEF Code, int_port_put_msg, ptr_port_put_msg, PutProgram
    <2> QED  BY <1>3, <2>1, PutsCode
  <1>4. CASE prog \in ReadProgram
    <2>1. Code = Reads(PortAssert, ChanAssert)
      BY <1>4 DEF Code, int_port_read_msg, ptr_port_read_msg, ReadProgram
    <2> QED  BY <1>4, <2>1, ReadsCode
  <1>5. CASE prog \in SendProgram
    <2> DEFINE named == IF NamesPort THEN << Naming >> ELSE <<>>
    <2>1. Code = Sends(PortAssert, named, ClientAssert, ChanAssert)
      BY <1>5 DEF Code, int_port_send_msg, ptr_port_send_msg, SendProgram,
                  WaitsOnAny, NamesPort, Naming, Named, ClientAssert
    <2> QED  BY <1>5, <2>1, SendsCode
  <1> QED  BY <1>1, <1>2, <1>3, <1>4, <1>5 DEF Serving, ServeProgram

\* The programs about cookies.
LEMMA CookieCode ==
    ASSUME prog \in CookieProgram
    PROVE  /\ DOMAIN Code = 1 .. 7
           /\ Code[1] = port_create("port", PATH, TA)
           /\ Code[2] = PortAssert
           /\ Code[3] = Do("set_cookie", e.port, 0, "rc")
           /\ Code[4] = sassert(e.rc = 0)
           /\ Code[5] = wait(e.port)
           /\ Code[6] = sassert(e.rc <= NO_ERROR)
           /\ Code[7] = sassert(e.rc = NO_ERROR =>
                                   e.ev.handle = e.port /\ e.ev.cookie # NULL)
  <1>1. Code = Cookies(PortAssert)
    BY DEF Code, int_port_set_cookie, ptr_port_set_cookie, CookieProgram, PortAssert,
           IsInt, IntProgram
  <1> QED  BY <1>1 DEF Cookies

-------------------------------------------------------------------------------
(* The steps of the programs about one port.                               *)

LEMMA Positions ==
    ASSUME prog \in Serving \cup CookieProgram
    PROVE  /\ WaitAt \in {3, 4, 7, 8}
           /\ AcceptAt = WaitAt + IF prog \in WaitProgram THEN 3 ELSE 5
           /\ prog \in SendProgram => WaitAt = IF NamesPort THEN 8 ELSE 7
           /\ prog \notin SendProgram => WaitAt = IF NamesPort THEN 4 ELSE 3
           /\ prog \in CookieProgram => ~ NamesPort /\ WaitAt = 3 /\ AcceptAt = 8
           /\ prog \in SendProgram => (NamesPort <=> ~ IsInt)
           /\ NamesPort => ~ IsInt
           /\ Size \in Nat
  BY DEF Serving, ServeProgram, WaitProgram, GetProgram, PutProgram, ReadProgram,
         SendProgram, CookieProgram, WaitAt, AcceptAt, NamesPort, Size, IsInt, IntProgram

LEMMA SamePositions ==
    ASSUME prog' = prog
    PROVE  /\ WaitAt' = WaitAt /\ AcceptAt' = AcceptAt /\ Size' = Size
           /\ IsInt' = IsInt /\ NamesPort' = NamesPort
  BY DEF WaitAt, AcceptAt, Size, IsInt, NamesPort

LEMMA Unmoved ==
    ASSUME Typed, t' = t, e' = e
    PROVE  Quiet
  BY DEF Typed, Quiet, VarsKept, SameButMsgs, IsTable, Fields

\* An assertion or an assumption changes nothing.
LEMMA Asserted ==
    ASSUME Typed, Next, Code[pc].op \in {"sassert", "assume"}
    PROVE  Quiet /\ t' = t /\ e' = e
  BY Stepped, Passed, Unmoved

LEMMA AssumptionHolds ==
    ASSUME NEW i, i = assume(e.rc = NO_ERROR), i.holds
    PROVE  e.rc = NO_ERROR
  BY DEF assume

LEMMA NoError ==
    ASSUME Next, NEW i, i = Code[pc], i = assume(e.rc = NO_ERROR)
    PROVE  e.rc = NO_ERROR
  <1>1. i.op \in {"sassert", "assume"}
    BY DEF assume
  <1>2. Call(i) \/ Passes(i)
    BY Stepped
  <1>3. i.holds
    BY <1>1, <1>2, Passed
  <1> QED  BY <1>3, AssumptionHolds

\* A call that opens and closes no handle leaves the port and the channel.
LEMMA KeptOpen ==
    ASSUME Typed, Open, Quiet, prog \in Serving \cup CookieProgram, prog' = prog,
           pc \in Nat \ {0, 1}, pc' = pc + 1, pc # AcceptAt,
           prog \in CookieProgram \/ NamesPort => pc # 3,
           prog \in SendProgram => pc # WaitAt - 4
    PROVE  Typed' /\ Open'
  <1>1. Typed'
    BY DEF Typed, Quiet, VarsKept, SameButMsgs, IsTable, IsInt
  <1>2. PortUp' /\ CookieOf(e.port)' = CookieOf(e.port)
    BY DEF Open, PortUp, Quiet, VarsKept, SameButMsgs, IsTable, IsInt, CookieOf,
           sea_ht_get_cookie
  <1>3. pc' > AcceptAt' => ChanUp'
    <2>1. pc' > AcceptAt' => pc > AcceptAt
      BY SamePositions, Positions
    <2> QED  BY <2>1 DEF Open, ChanUp, Quiet, VarsKept, SameButMsgs, IsTable, IsInt
  <1>4. IsInt' /\ pc' <= AcceptAt' =>
           t'.active = (IF pc' > 1 THEN {2} ELSE {}) \cup (IF Connected' THEN {16} ELSE {})
    <2>1. ASSUME IsInt
          PROVE  (IF Connected' THEN {16} ELSE {}) = (IF Connected THEN {16} ELSE {})
      BY <2>1, Positions, SamePositions DEF Connected
    <2>2. IsInt /\ pc <= AcceptAt => t.active = {2} \cup (IF Connected THEN {16} ELSE {})
      BY DEF Open
    <2>3. t'.active = t.active /\ pc' > 1 /\ IsInt' = IsInt
          /\ (pc' <= AcceptAt' => pc <= AcceptAt)
      BY SamePositions, Positions DEF Quiet, SameButMsgs
    <2> QED  BY <2>1, <2>2, <2>3
  <1>5. pc' > 3 => /\ prog' = "ptr_port_wait_any" => t'.g_on_waitany_handle = e'.port
                   /\ prog' = "ptr_port_send_msg" => t'.g_on_connect_handle = e'.port
    BY DEF Open, NamesPort, Quiet, VarsKept, SameButMsgs, IsInt, IntProgram
  <1> QED  BY <1>1, <1>2, <1>3, <1>4, <1>5 DEF Open

\* The port is created.
LEMMA CreateStep ==
    ASSUME Typed, Open, prog \in Serving \cup CookieProgram, Next, pc = 1,
           Code[1] = port_create("port", PATH, TA)
    PROVE  Typed' /\ Open'
  <1>1. prog' = prog /\ pc' = 2 /\ Call(port_create("port", PATH, TA))
    BY Stepped, Called, Ops
  <1>2. ~ Connected' /\ ~ Connected /\ AcceptAt' > 2 /\ AcceptAt > 2 /\ pc <= AcceptAt
    BY <1>1, Positions, SamePositions DEF Connected
  <1>3. CASE IsInt
    <2>1. t.active = {} /\ 2 \notin t.active
      <3>1. t.active = (IF pc > 1 THEN {2} ELSE {}) \cup (IF Connected THEN {16} ELSE {})
        BY <1>2, <1>3 DEF Open
      <3> QED  BY <1>2, <3>1
    <2>2. IntOpened("port", PATH, 2)
      BY <1>1, <1>3, <2>1, IntCreates2, PathIsChar DEF Places
    <2>3. t'.path[2] = PATH /\ e'.port = 2 /\ t'.active = {2} /\ t'.cookie = t.cookie
      BY <1>3, <2>1, <2>2, IntHandles DEF IntOpened, Typed, IsTable, Table, Handle, Port
    <2>4. CookieOf(e.port)' = NULL
      BY <1>1, <1>3, <2>3, SamePositions DEF Open, CookieOf, sea_ht_get_cookie
    <2>5. Typed'
      BY <1>1, <1>3, <2>2, SamePositions DEF Typed, IntOpened, KeptBut, IsTable
    <2> QED  BY <1>1, <1>2, <1>3, <2>3, <2>4, <2>5, SamePositions, Positions DEF Open, PortUp
  <1>4. CASE ~ IsInt
    <2>1. PtrOpened("port", PATH, FALSE)
      BY <1>1, <1>4, PtrCreates, PathIsChar DEF Places
    <2>2. PortUp' /\ CookieOf(e.port)' = NULL
      BY <1>1, <1>4, <2>1, SamePositions DEF PtrOpened, Fresh, PortUp, CookieOf
    <2>3. Typed'
      BY <1>1, <1>4, <2>1, SamePositions DEF Typed, PtrOpened, Fresh, KeptBut, IsTable
    <2> QED  BY <1>1, <1>2, <1>4, <2>2, <2>3, SamePositions, Positions DEF Open
  <1> QED  BY <1>3, <1>4

\* The port is named to the pointer build.
LEMMA NamingStep ==
    ASSUME Typed, Open, prog \in Serving, Next, NamesPort, pc = 3, Code[3] = Naming
    PROVE  Typed' /\ Open'
  <1>1. prog' = prog /\ pc' = 4 /\ ~ IsInt /\ e.port \in PtrHandle /\ PortUp
        /\ CookieOf(e.port) = NULL
    BY Stepped, Positions DEF Open, PortUp, Serving, ServeProgram, CookieProgram, WaitProgram,
       GetProgram, PutProgram, ReadProgram, SendProgram
  <1>2. Call(Naming)
    BY Stepped, Called DEF Naming, Do
  <1>3. IF WaitsOnAny THEN NamedIn("g_on_waitany_handle", e.port)
        ELSE NamedIn("g_on_connect_handle", e.port)
    BY <1>1, <1>2, NameCall DEF Naming
  <1>4. /\ VarsKept /\ t' \in Ptr!Table /\ t \in Ptr!Table
        /\ t'.active = t.active /\ t'.allocated = t.allocated
        /\ t'.secure = t.secure /\ t'.path = t.path /\ t'.cookie = t.cookie
        /\ IF WaitsOnAny THEN t'.g_on_waitany_handle = e.port
           ELSE t'.g_on_connect_handle = e.port
    BY <1>1, <1>3 DEF NamedIn, Typed, IsTable, Ptr!Table
  <1>5. Typed' /\ PortUp' /\ CookieOf(e.port)' = NULL
    BY <1>1, <1>4, SamePositions DEF Typed, IsTable, PortUp, VarsKept, CookieOf
  <1> QED  BY <1>1, <1>4, <1>5, SamePositions, Positions DEF Open, VarsKept, WaitsOnAny, NamesPort,
              Serving, ServeProgram, CookieProgram, WaitProgram, GetProgram, PutProgram,
              ReadProgram, SendProgram

\* The client of a send program connects to the port.
LEMMA ConnectStep ==
    ASSUME Typed, Open, prog \in SendProgram, Next, pc = WaitAt - 4,
           Code[pc] = connect(PATH, "h2")
    PROVE  /\ Typed' /\ Open'
           /\ IF IsInt' THEN e'.h2 = 16 ELSE e'.h2 \in PtrHandle /\ t'.type[e'.h2] = "channel"
  <1>1. /\ prog' = prog /\ pc' = pc + 1 /\ Call(connect(PATH, "h2"))
        /\ prog \in Serving /\ prog \notin CookieProgram
    BY Stepped, Called, Ops DEF Serving, ServeProgram, SendProgram, CookieProgram
  <1>2. pc = (IF IsInt THEN 3 ELSE 4) /\ pc' < AcceptAt' /\ pc <= AcceptAt /\ PortUp
        /\ CookieOf(e.port) = NULL
    BY <1>1, Positions, SamePositions DEF Open
  <1>3. CASE IsInt
    <2>1. ~ Connected /\ Connected'
      BY <1>1, <1>2, <1>3, SamePositions DEF Connected
    <2>2. t.active = {2}
      <3>1. t.active = (IF pc > 1 THEN {2} ELSE {}) \cup (IF Connected THEN {16} ELSE {})
        BY <1>2, <1>3, Positions DEF Open
      <3> QED  BY <1>2, <1>3, <2>1, <3>1
    <2>3. 16 \notin t.active /\ ~ {16, 17} \subseteq t.active /\ 2 \in Port
          /\ t.path[2] = PATH /\ e.port = 2
      BY <1>2, <1>3, <2>2, IntHandles DEF PortUp
    <2>4. IntChannel("h2")
      BY <1>1, <1>3, <2>3, IntConnectCall DEF Places
    <2>5. /\ KeptBut("h2") /\ e'.h2 = 16 /\ t' \in Table /\ t'.cookie = t.cookie
          /\ t'.path = t.path /\ t'.active = {2} \cup {16}
      BY <2>2, <2>3, <2>4 DEF IntChannel, NextChan
    <2>6. Typed' /\ PortUp' /\ CookieOf(e.port)' = NULL
      BY <1>1, <1>2, <1>3, <2>3, <2>5, SamePositions
         DEF Typed, IsTable, PortUp, KeptBut, Places, CookieOf, sea_ht_get_cookie
    <2>7. t'.active = (IF pc' > 1 THEN {2} ELSE {}) \cup (IF Connected' THEN {16} ELSE {})
      BY <1>1, <1>2, <1>3, <2>1, <2>5
    <2>8. pc' <= AcceptAt'
      BY <1>1, <1>2, Positions, SamePositions
    <2>9. prog \notin {"ptr_port_wait_any", "ptr_port_send_msg"}
      BY <1>3 DEF IsInt, IntProgram
    <2> QED  BY <1>1, <1>2, <1>3, <2>5, <2>6, <2>7, <2>8, <2>9, SamePositions, Positions DEF Open
  <1>4. CASE ~ IsInt
    <2>1. /\ pc = 4 /\ t.g_on_connect_handle = e.port /\ e.port # NULL
          /\ e.port \in PtrHandle /\ e.port \in t.allocated
      <3>1. pc = 4 /\ prog = "ptr_port_send_msg"
        BY <1>2, <1>4 DEF SendProgram, IsInt, IntProgram
      <3>2. t.g_on_connect_handle = e.port
        BY <3>1 DEF Open
      <3> QED  BY <1>2, <1>4, <3>1, <3>2, PtrFacts DEF PortUp, Typed
    <2>2. PtrChannel("h2")
      BY <1>1, <1>4, <2>1, PtrConnectCall DEF Places
    <2>3. Typed'
      BY <1>1, <1>4, <2>2, SamePositions DEF Typed, PtrChannel, Fresh, KeptBut, IsTable
    <2>4. e'.port = e.port /\ e'.h2 # e.port
      BY <2>1, <2>2 DEF PtrChannel, Fresh, KeptBut, Places
    <2>5. PortUp' /\ CookieOf(e.port)' = NULL
      BY <1>1, <1>2, <1>4, <2>1, <2>2, <2>4, SamePositions DEF PtrChannel, Fresh, PortUp, CookieOf
    <2>6. e'.h2 \in PtrHandle /\ t'.type[e'.h2] = "channel"
          /\ t'.g_on_connect_handle = t.g_on_connect_handle
      BY <2>2 DEF PtrChannel, Fresh
    <2> QED  BY <1>1, <1>2, <1>4, <2>1, <2>3, <2>4, <2>5, <2>6, SamePositions, Positions
                DEF Open, SendProgram
  <1> QED  BY <1>3, <1>4

\* The accept.
LEMMA AcceptStep ==
    ASSUME Typed, Open, prog \in Serving, Next, pc = AcceptAt, Code[pc] = accept(e.port)
    PROVE  Typed' /\ Open'
  <1>1. /\ prog' = prog /\ pc' = pc + 1 /\ Call(accept(e.port)) /\ prog \notin CookieProgram
    BY Stepped, Called, Ops DEF Serving, ServeProgram, WaitProgram, GetProgram, PutProgram,
       ReadProgram, SendProgram, CookieProgram
  <1>2. /\ pc > 5 /\ pc' > 3 /\ pc' > AcceptAt' /\ AcceptAt' = AcceptAt
        /\ pc <= AcceptAt /\ pc \in Nat /\ pc > 1
    BY <1>1, Positions, SamePositions
  <1>3. PortUp /\ CookieOf(e.port) = NULL
    BY <1>1, <1>2 DEF Open
  <1>4. CASE IsInt
    <2>1. t.active = {2} \cup (IF Connected THEN {16} ELSE {})
      BY <1>2, <1>4 DEF Open
    <2>2. /\ prog \in SendProgram => 16 \in t.active
          /\ prog \notin SendProgram => 16 \notin t.active
          /\ 17 \notin t.active
      BY <1>2, <1>4, <2>1 DEF Connected
    <2>3. IntChannel("chan")
      BY <1>1, <1>4, <2>2, IntAcceptCall
    <2>4. /\ KeptBut("chan") /\ t' \in Table /\ t'.cookie = t.cookie /\ t'.path = t.path
          /\ e'.chan = IF prog \in SendProgram THEN 17 ELSE 16
      BY <2>2, <2>3 DEF IntChannel, NextChan
    <2>5. Typed' /\ PortUp' /\ CookieOf(e.port)' = NULL /\ e'.port = 2
      BY <1>1, <1>3, <1>4, <2>4, SamePositions
         DEF Typed, IsTable, PortUp, KeptBut, Places, CookieOf, sea_ht_get_cookie
    <2>6. ChanUp'
      BY <1>1, <1>4, <2>4, <2>5, SamePositions DEF ChanUp
    <2>7. prog \notin {"ptr_port_wait_any", "ptr_port_send_msg"}
      BY <1>4 DEF IsInt, IntProgram
    <2> QED  BY <1>1, <1>2, <1>4, <2>5, <2>6, <2>7, SamePositions, Positions DEF Open
  <1>5. CASE ~ IsInt
    <2>1. e.port \in PtrHandle /\ e.port \in t.allocated
      BY <1>3, <1>5 DEF PortUp, Typed
    <2>2. PtrChannel("chan")
      BY <1>1, <1>5, <2>1, PtrAcceptCall
    <2>3. Typed'
      BY <1>1, <1>5, <2>2, SamePositions DEF Typed, PtrChannel, Fresh, KeptBut, IsTable
    <2>4. e'.port = e.port /\ e'.chan # e.port
      BY <2>1, <2>2 DEF PtrChannel, Fresh, KeptBut, Places
    <2>5. PortUp' /\ CookieOf(e.port)' = NULL
      BY <1>1, <1>3, <1>5, <2>1, <2>2, <2>4, SamePositions
         DEF PtrChannel, Fresh, PortUp, CookieOf
    <2>6. ChanUp' /\ t'.g_on_connect_handle = t.g_on_connect_handle
                  /\ t'.g_on_waitany_handle = t.g_on_waitany_handle
      BY <1>1, <1>5, <2>2, <2>4, SamePositions DEF PtrChannel, Fresh, ChanUp
    <2> QED  BY <1>1, <1>2, <1>5, <2>3, <2>4, <2>5, <2>6, SamePositions, Positions DEF Open
  <1> QED  BY <1>4, <1>5

\* The channel is closed at the end of a program.
LEMMA CloseStep ==
    ASSUME Typed, Open, prog \in Serving, Next, pc \in Nat, pc > AcceptAt,
           Code[pc] = closes(e.chan)
    PROVE  Typed' /\ Open' /\ e'.rc = 0
  <1>1. /\ prog' = prog /\ pc' = pc + 1 /\ Call(closes(e.chan)) /\ prog \notin CookieProgram
    BY Stepped, Called, Ops DEF Serving, ServeProgram, WaitProgram, GetProgram, PutProgram,
       ReadProgram, SendProgram, CookieProgram
  <1>2. /\ pc > 5 /\ pc' > 3 /\ pc' > AcceptAt' /\ AcceptAt' = AcceptAt /\ pc > 1
        /\ ~ pc' <= AcceptAt'
    BY <1>1, Positions, SamePositions
  <1>3. PortUp /\ CookieOf(e.port) = NULL /\ ChanUp
    BY <1>1, <1>2 DEF Open
  <1>4. Valid(e.chan)
    BY <1>3, IntHandles DEF ChanUp, Valid, Handle
  <1>5. /\ VarsKept /\ e'.rc = 0 /\ IsTable(t')
        /\ t'.active = t.active \ {e.chan} /\ t'.cookie = t.cookie /\ t'.path = t.path
        /\ ~ IsInt => /\ t'.allocated = t.allocated /\ t'.secure = t.secure
                      /\ t'.type = t.type
                      /\ t'.g_on_waitany_handle = t.g_on_waitany_handle
                      /\ t'.g_on_connect_handle = t.g_on_connect_handle
    BY <1>1, <1>4, CloseCall
  <1>6. Typed' /\ PortUp' /\ ChanUp' /\ CookieOf(e.port)' = NULL
    BY <1>1, <1>3, <1>5, SamePositions
       DEF Typed, IsTable, PortUp, ChanUp, VarsKept, CookieOf, sea_ht_get_cookie
  <1>7. /\ prog = "ptr_port_wait_any" => t'.g_on_waitany_handle = e'.port
        /\ prog = "ptr_port_send_msg" => t'.g_on_connect_handle = e'.port
    BY <1>2, <1>5 DEF Open, VarsKept, IsInt, IntProgram
  <1> QED  BY <1>1, <1>2, <1>5, <1>6, <1>7, SamePositions, Positions DEF Open

\* The cookie of the port is set.
LEMMA SetCookieStep ==
    ASSUME Typed, Open, prog \in CookieProgram, Next, pc = 3,
           Code[pc] = Do("set_cookie", e.port, 0, "rc")
    PROVE  Typed' /\ Open' /\ e'.rc = 0
  <1>1. /\ prog' = prog /\ pc' = 4 /\ Call(Do("set_cookie", e.port, 0, "rc"))
        /\ AcceptAt = 8 /\ AcceptAt' = 8
    BY Stepped, Called, Ops, Positions, SamePositions
  <1>2. PortUp /\ Valid(e.port)
    BY IntHandles DEF Open, PortUp, Valid, Handle
  <1>3. /\ VarsKept /\ e'.rc = 0 /\ IsTable(t')
        /\ t'.active = t.active /\ t'.path = t.path
        /\ ~ IsInt => t'.allocated = t.allocated /\ t'.secure = t.secure
        /\ (IF IsInt THEN sea_ht_get_cookie(t', e.port) ELSE t'.cookie[e.port]) # NULL
    BY <1>1, <1>2, SetCookieCall
  <1>4. Typed' /\ PortUp' /\ CookieOf(e.port)' # NULL
    BY <1>1, <1>2, <1>3, SamePositions DEF Typed, IsTable, PortUp, VarsKept, CookieOf
  <1>5. prog \notin SendProgram /\ prog \notin {"ptr_port_wait_any", "ptr_port_send_msg"}
    BY DEF CookieProgram, SendProgram
  <1>6. IsInt => t'.active = (IF pc' > 1 THEN {2} ELSE {})
                             \cup (IF Connected' THEN {16} ELSE {})
    <2>1. ~ Connected' /\ ~ Connected
      BY <1>1, <1>5 DEF Connected
    <2>2. IsInt => t.active = (IF pc > 1 THEN {2} ELSE {})
                              \cup (IF Connected THEN {16} ELSE {})
      BY <1>1 DEF Open
    <2> QED  BY <1>1, <1>3, <2>1, <2>2
  <1> QED  BY <1>1, <1>3, <1>4, <1>5, <1>6, SamePositions DEF Open

\* Before the wait for a connection.
LEMMA HeadStep ==
    ASSUME Typed, Open, prog \in Serving, Next, pc \in Nat \ {0}, pc < WaitAt
    PROVE  Typed' /\ Open' /\ Waited' /\ Served'
  <1>1. prog' = prog /\ pc' = pc + 1 /\ prog \notin CookieProgram /\ HeadCode
    BY Stepped, EveryServingCode DEF ServingCode, Serving, ServeProgram, WaitProgram,
       GetProgram, PutProgram, ReadProgram, SendProgram, CookieProgram
  <1>2. pc' <= WaitAt' /\ WaitAt' < AcceptAt' /\ pc # AcceptAt /\ WaitAt' = WaitAt
    BY <1>1, Positions, SamePositions
  <1>3. Served'
    BY <1>1, <1>2, Positions, SamePositions DEF Served
  <1>4. SUFFICES /\ Typed' /\ Open'
                 /\ prog \in SendProgram /\ pc = WaitAt - 4 =>
                       IF IsInt' THEN e'.h2 = 16
                       ELSE e'.h2 \in PtrHandle /\ t'.type[e'.h2] = "channel"
    BY <1>1, <1>2, <1>3, Positions, SamePositions DEF Waited, Connected
  <1>5. CASE pc = 1
    BY <1>1, <1>5, CreateStep, Positions DEF HeadCode
  <1>6. CASE pc = 2
    <2>1. Code[pc].op \in {"sassert", "assume"}
      BY <1>1, <1>6 DEF HeadCode, PortAssert, Port2, NonSecurePort, Is, sassert
    <2> QED  BY <1>1, <1>2, <1>6, <2>1, Asserted, KeptOpen, Positions
  <1>7. CASE pc = 3 /\ NamesPort
    BY <1>1, <1>7, NamingStep, Positions DEF HeadCode
  <1>8. CASE prog \in SendProgram /\ pc = WaitAt - 4
    BY <1>1, <1>8, ConnectStep DEF HeadCode
  <1>9. CASE prog \in SendProgram /\ pc \in {WaitAt - 3, WaitAt - 1}
    <2>1. Code[pc].op \in {"sassert", "assume"}
      BY <1>1, <1>9, Positions DEF HeadCode, ClientAssert, IsChannel, sassert, assume
    <2> QED  BY <1>1, <1>2, <1>9, <2>1, Asserted, KeptOpen, Positions
  <1>10. CASE prog \in SendProgram /\ pc = WaitAt - 2
    <2>1. Call(send_msg(e.h2, 32))
      BY <1>1, <1>10, Stepped, Called, Ops DEF HeadCode
    <2> QED  BY <1>1, <1>2, <1>10, <2>1, SendMsgCall, KeptOpen, Positions
  <1> QED  BY <1>5, <1>6, <1>7, <1>8, <1>9, <1>10, Positions

\* From the wait to the accept.
LEMMA WaitStep ==
    ASSUME Typed, Open, Waited, prog \in Serving, Next, pc \in WaitAt .. AcceptAt - 1
    PROVE  Typed' /\ Open' /\ Waited' /\ Served'
  <1>1. prog' = prog /\ pc' = pc + 1 /\ prog \notin CookieProgram /\ WaitCode
        /\ (prog \in WaitProgram <=> prog \notin ServeProgram)
    BY Stepped, EveryServingCode DEF ServingCode, Serving, ServeProgram, WaitProgram,
       GetProgram, PutProgram, ReadProgram, SendProgram, CookieProgram
  <1>2. /\ pc \in Nat \ {0, 1} /\ pc # AcceptAt /\ (NamesPort => pc # 3)
        /\ (prog \in SendProgram => pc # WaitAt - 4) /\ pc > 1 /\ pc <= AcceptAt
    BY Positions
  <1>3. PortUp /\ CookieOf(e.port) = NULL
    BY <1>1, <1>2 DEF Open
  <1>4. Served'
    BY <1>1, Positions, SamePositions DEF Served
  <1>5. ~ (Connected' /\ pc' = WaitAt' - 3) /\ WaitAt' = WaitAt
    BY <1>1, Positions, SamePositions
  <1>6. CASE pc = WaitAt
    <2>1. /\ Quiet /\ e'.rc <= NO_ERROR
          /\ e'.rc = NO_ERROR => e'.ev.handle = e.port /\ e'.ev.cookie = NULL
      <3>1. CASE ~ WaitsOnAny
        <4>1. Call(wait(e.port))
          BY <1>1, <1>6, <3>1, Stepped, Called, Ops DEF WaitCode
        <4>2. Valid(e.port)
          BY <1>3, IntHandles DEF PortUp, Valid, Handle
        <4> QED  BY <1>3, <4>1, <4>2, WaitCall DEF EventOf
      <3>2. CASE WaitsOnAny
        <4>1. Call(wait_any)
          BY <1>1, <1>6, <3>2, Stepped, Called, Ops DEF WaitCode
        <4>2. Reported = {e.port}
          <5>1. CASE IsInt
            <6>1. ~ Connected
              BY <3>2 DEF Connected, WaitsOnAny, SendProgram
            <6>2. t.active = {2} \cup (IF Connected THEN {16} ELSE {})
              BY <1>2, <5>1 DEF Open
            <6> QED  BY <1>3, <5>1, <6>1, <6>2 DEF Reported, PortUp
          <5>2. CASE ~ IsInt
            <6>1. prog = "ptr_port_wait_any" /\ pc > 3
              BY <1>6, <3>2, <5>2, Positions DEF WaitsOnAny, NamesPort, IsInt, IntProgram,
                 SendProgram
            <6> QED  BY <5>2, <6>1 DEF Open, Reported
          <5> QED  BY <5>1, <5>2
        <4>3. \A h \in Reported : Valid(h)
          BY <1>3, <4>2, IntHandles DEF PortUp, Valid, Handle
        <4> QED  BY <1>3, <4>1, <4>2, <4>3, WaitAnyCall DEF EventOf
      <3> QED  BY <3>1, <3>2
    <2>2. Typed' /\ Open'
      BY <1>1, <1>2, <2>1, KeptOpen
    <2>3. e'.port = e.port
      BY <2>1 DEF Quiet, VarsKept
    <2> QED  BY <1>1, <1>4, <1>5, <1>6, <2>1, <2>2, <2>3, Positions DEF Waited, EventIsPort
  <1>7. CASE pc # WaitAt
    <2>1. Code[pc].op \in {"sassert", "assume"}
      BY <1>1, <1>7, Positions DEF WaitCode, sassert, assume
    <2>2. Quiet /\ t' = t /\ e' = e
      BY <2>1, Asserted
    <2>3. Typed' /\ Open'
      BY <1>1, <1>2, <2>2, KeptOpen
    <2>4. pc = WaitAt + 2 /\ prog \in ServeProgram => EventIsPort
      <3>1. ASSUME pc = WaitAt + 2, prog \in ServeProgram
            PROVE  EventIsPort
        <4>1. Code[pc] = assume(e.rc = NO_ERROR)
          BY <1>1, <3>1 DEF WaitCode
        <4> QED  BY <3>1, <4>1, NoError DEF Waited
      <3> QED  BY <3>1
    <2>5. pc # WaitAt + 2 \/ prog \notin ServeProgram => pc' # WaitAt' + 3 \/ prog' \notin ServeProgram
      BY <1>1, <1>5, Positions
    <2>6. pc' = WaitAt' + 2 => (e.rc = NO_ERROR => EventIsPort)
      BY <1>1, <1>5, Positions DEF Waited
    <2>7. pc' # WaitAt' + 1
      BY <1>1, <1>5, <1>7, Positions
    <2> QED  BY <1>1, <1>4, <1>5, <2>2, <2>3, <2>4, <2>5, <2>6, <2>7, Positions
                DEF Waited, EventIsPort
  <1> QED  BY <1>6, <1>7

\* From the accept to get_msg.
LEMMA AcceptedStep ==
    ASSUME Typed, Open, prog \in Serving, Next, pc \in AcceptAt .. AcceptAt + 7
    PROVE  Typed' /\ Open' /\ Waited' /\ Served'
  <1>1. prog' = prog /\ pc' = pc + 1 /\ prog \notin CookieProgram /\ AcceptCode
    BY Stepped, EveryServingCode DEF ServingCode, Serving, ServeProgram, WaitProgram,
       GetProgram, PutProgram, ReadProgram, SendProgram, CookieProgram
  <1>2. /\ pc \in Nat \ {0, 1} /\ (NamesPort => pc # 3) /\ pc > 1
        /\ (prog \in SendProgram => pc # WaitAt - 4)
    BY Positions
  <1>3. Waited'
    BY <1>1, Positions, SamePositions
       DEF Waited, WaitProgram, ServeProgram, GetProgram, PutProgram, ReadProgram, SendProgram
  <1>4. SUFFICES /\ Typed' /\ Open'
                 /\ pc = AcceptAt + 3 => e'.rc <= NO_ERROR
                 /\ pc = AcceptAt + 7 => (e'.rc = NO_ERROR => e'.id # 0)
    BY <1>1, <1>3, Positions, SamePositions DEF Served
  <1>5. CASE pc = AcceptAt
    BY <1>1, <1>5, AcceptStep, Positions DEF AcceptCode
  <1>6. CASE pc \in {AcceptAt + 1, AcceptAt + 2, AcceptAt + 4, AcceptAt + 5, AcceptAt + 6}
    <2>1. Code[pc].op \in {"sassert", "assume"}
      BY <1>1, <1>6 DEF AcceptCode, ChanAssert, Chan16, IsChan, IsChannel, sassert, assume
    <2> QED  BY <1>1, <1>2, <1>6, <2>1, Asserted, KeptOpen, Positions
  <1>7. CASE pc = AcceptAt + 3
    <2>1. PortUp /\ ChanUp
      BY <1>2, <1>7, Positions DEF Open
    <2>2. Quiet /\ e'.rc <= NO_ERROR
      <3>1. CASE ~ WaitsOnAny
        <4>1. Call(wait(e.chan))
          BY <1>1, <1>7, <3>1, Stepped, Called, Ops DEF AcceptCode
        <4>2. Valid(e.chan)
          BY <2>1, IntHandles DEF ChanUp, Valid, Handle
        <4> QED  BY <4>1, <4>2, WaitCall DEF EventOf
      <3>2. CASE WaitsOnAny
        <4>1. Call(wait_any)
          BY <1>1, <1>7, <3>2, Stepped, Called, Ops DEF AcceptCode
        <4>2. \A h \in Reported : Valid(h)
          <5>1. CASE IsInt
            BY <5>1 DEF Typed, IsTable, Table, Reported, Valid
          <5>2. CASE ~ IsInt
            <6>1. prog = "ptr_port_wait_any" /\ pc > 3
              BY <1>7, <3>2, <5>2, Positions DEF WaitsOnAny, IsInt, IntProgram
            <6> QED  BY <2>1, <5>2, <6>1 DEF Open, PortUp, Reported, Valid
          <5> QED  BY <5>1, <5>2
        <4> QED  BY <4>1, <4>2, WaitAnyCall
      <3> QED  BY <3>1, <3>2
    <2> QED  BY <1>1, <1>2, <1>7, <2>2, KeptOpen, Positions
  <1>8. CASE pc = AcceptAt + 7
    <2>1. Call(get_msg)
      BY <1>1, <1>8, Stepped, Called, Ops DEF AcceptCode
    <2> QED  BY <1>1, <1>2, <1>8, <2>1, GetMsgCall, KeptOpen, Positions
  <1> QED  BY <1>5, <1>6, <1>7, <1>8, Positions

\* After get_msg, in the get programs.
LEMMA GetStep ==
    ASSUME Typed, Open, prog \in GetProgram, Next, pc \in Nat, pc > AcceptAt + 7
    PROVE  Typed' /\ Open' /\ Waited' /\ Served'
  <1>1. /\ prog' = prog /\ pc' = pc + 1 /\ prog \in Serving \ CookieProgram
        /\ prog \notin SendProgram /\ GetCode /\ pc \in DOMAIN Code
    BY Stepped, EveryServingCode DEF ServingCode, Serving, ServeProgram, GetProgram,
       CookieProgram, SendProgram
  <1>2. pc \in AcceptAt + 8 .. AcceptAt + 10 /\ pc # 3 /\ pc # AcceptAt /\ pc > AcceptAt
        /\ pc \in Nat \ {0, 1}
    BY <1>1, Positions DEF GetCode
  <1>3. Waited'
    BY <1>1, <1>2, Positions, SamePositions DEF Waited, Connected
  <1>4. SUFFICES Typed' /\ Open' /\ (pc = AcceptAt + 9 => e'.rc = NO_ERROR)
    BY <1>1, <1>2, <1>3, Positions, SamePositions DEF Served
  <1>5. CASE pc = AcceptAt + 9
    BY <1>1, <1>2, <1>5, CloseStep DEF GetCode, NO_ERROR
  <1>6. CASE pc \in {AcceptAt + 8, AcceptAt + 10}
    <2>1. Code[pc].op \in {"sassert", "assume"}
      BY <1>1, <1>6 DEF GetCode, sassert
    <2>2. Quiet
      BY <2>1, Asserted
    <2>3. Typed' /\ Open'
      BY <1>1, <1>2, <2>2, KeptOpen
    <2> QED  BY <1>1, <1>6, <2>3, Positions
  <1> QED  BY <1>1, <1>2, <1>5, <1>6, Positions

\* And in the others.
LEMMA EchoStep ==
    ASSUME Typed, Open, Served, prog \in Serving \ GetProgram, Next,
           pc \in Nat, pc > AcceptAt + 7
    PROVE  Typed' /\ Open' /\ Waited' /\ Served'
  <1> DEFINE a == AcceptAt
  <1>1. /\ prog' = prog /\ pc' = pc + 1 /\ prog \notin CookieProgram
        /\ EchoCode /\ LastCode /\ pc \in DOMAIN Code
    BY Stepped, EveryServingCode DEF ServingCode, Serving, ServeProgram, WaitProgram,
       GetProgram, PutProgram, ReadProgram, SendProgram, CookieProgram
  <1>2. /\ pc \in a + 8 .. a + 16 /\ pc # 3 /\ pc # a /\ pc > a
        /\ pc \in Nat \ {0, 1} /\ (prog \in SendProgram => pc # WaitAt - 4)
        /\ a \in Nat /\ AcceptAt' = a
    <2>1. DOMAIN Code = 1 .. a + 16
      BY <1>1 DEF EchoCode
    <2>2. a \in Nat /\ a > 5 /\ AcceptAt' = a /\ WaitAt \in Nat /\ WaitAt < a
      BY <1>1, Positions, SamePositions
    <2> QED  BY <1>1, <2>1, <2>2
  <1>3. Waited'
    BY <1>1, <1>2, Positions, SamePositions DEF Waited, Connected
  <1>4. PortUp /\ ChanUp /\ Valid(e.chan)
    <2>1. PortUp /\ ChanUp
      BY <1>2 DEF Open
    <2> QED  BY <2>1, IntHandles DEF ChanUp, Valid, Handle
  <1>5. ASSUME Quiet
        PROVE  Typed' /\ Open'
    BY <1>1, <1>2, <1>5, KeptOpen
  <1>6. CASE pc = a + 10
    <2>1. Call(read_msg(Size))
      BY <1>1, <1>6, Stepped, Called, Ops DEF EchoCode
    <2>2. Quiet /\ e'.id = e.id /\ e'.rc <= Size
      BY <1>4, <2>1, ReadMsgCall, Positions
    <2>3. e.id # 0
      BY <1>1, <1>2, <1>6 DEF Served
    <2> QED  BY <1>1, <1>2, <1>3, <1>5, <1>6, <2>2, <2>3, SamePositions DEF Served
  <1>7. CASE pc = a + 13
    <2>1. Call(put_msg)
      BY <1>1, <1>7, Stepped, Called, Ops DEF EchoCode
    <2>2. /\ Quiet /\ e'.id = e.id
          /\ e'.rc = NO_ERROR =>
                IF IsInt THEN sea_ht_get_msg_id(t', e.chan) = 0 ELSE t'.msg_id[e.chan] = 0
      BY <1>4, <2>1, PutMsgCall
    <2>3. e'.rc = NO_ERROR => MsgIdOf(e.chan)' = 0
      BY <2>2, <1>1, SamePositions DEF Quiet, VarsKept, MsgIdOf
    <2>4. e.id # 0
      BY <1>1, <1>2, <1>7 DEF Served
    <2> QED  BY <1>1, <1>2, <1>3, <1>5, <1>7, <2>2, <2>3, <2>4, SamePositions DEF Served
  <1>8. CASE pc = a + 15 /\ prog \in WaitProgram \cup PutProgram
    <2>1. Call(read_msg(Size))
      BY <1>1, <1>8, Stepped, Called, Ops DEF LastCode
    <2>2. MsgIdOf(e.chan) = 0 /\ e.id # 0
      BY <1>1, <1>2, <1>8 DEF Served
    <2>3. Quiet /\ e'.rc < NO_ERROR
      BY <1>4, <2>1, <2>2, ReadMsgCall, Positions
    <2> QED  BY <1>1, <1>2, <1>3, <1>5, <1>8, <2>3, SamePositions DEF Served
  <1>9. CASE pc = a + 15 /\ prog \notin WaitProgram \cup PutProgram
    <2>1. Typed' /\ Open' /\ e'.rc = NO_ERROR
      BY <1>1, <1>2, <1>9, CloseStep DEF LastCode, NO_ERROR
    <2> QED  BY <1>1, <1>2, <1>3, <1>9, <2>1, SamePositions DEF Served
  <1>10. CASE pc \in {a + 8, a + 9, a + 11, a + 12, a + 14, a + 16}
    <2>1. Code[pc].op \in {"sassert", "assume"}
      <3>1. CASE pc = a + 16
        BY <1>1, <3>1 DEF LastCode, sassert
      <3>2. CASE pc # a + 16
        BY <1>1, <1>10, <3>2 DEF EchoCode, sassert, assume
      <3> QED  BY <3>1, <3>2
    <2>2. Quiet /\ t' = t /\ e' = e
      BY <2>1, Asserted
    <2>3. pc \in {a + 8, a + 14} => e.rc = NO_ERROR
      <3>1. ASSUME pc \in {a + 8, a + 14}
            PROVE  e.rc = NO_ERROR
        <4>1. Code[pc] = assume(e.rc = NO_ERROR)
          BY <1>1, <3>1 DEF EchoCode
        <4> QED  BY <4>1, NoError
      <3> QED  BY <3>1
    <2>4. MsgIdOf(e.chan)' = MsgIdOf(e.chan)
      BY <1>1, <2>2, SamePositions DEF MsgIdOf
    <2>5. pc = a + 14 => MsgIdOf(e.chan) = 0
      BY <1>1, <1>2, <2>3 DEF Served
    <2>6. pc # a + 16 => e.id # 0
      <3>1. CASE pc = a + 8
        BY <1>1, <2>3, <3>1 DEF Served
      <3>2. CASE pc \in a + 9 .. a + 15
        BY <1>1, <3>2 DEF Served
      <3> QED  BY <1>2, <3>1, <3>2
    <2>7. pc = a + 11 => e.rc <= Size
      BY <1>1, <1>2 DEF Served
    <2> QED  BY <1>1, <1>2, <1>3, <1>5, <1>10, <2>2, <2>4, <2>5, <2>6, <2>7, SamePositions
                DEF Served
  <1> QED  BY <1>2, <1>6, <1>7, <1>8, <1>9, <1>10

\* A step of a program that serves a connection.
LEMMA ServingStep ==
    ASSUME IInv, Next, prog \in Serving
    PROVE  Typed' /\ Open' /\ Waited' /\ Served'
  <1>1. Typed /\ Open /\ Waited /\ Served /\ pc \in Nat \ {0}
    BY DEF IInv
  <1>2. CASE pc < WaitAt
    BY <1>1, <1>2, HeadStep
  <1>3. CASE pc \in WaitAt .. AcceptAt - 1
    BY <1>1, <1>3, WaitStep
  <1>4. CASE pc \in AcceptAt .. AcceptAt + 7
    BY <1>1, <1>4, AcceptedStep
  <1>5. CASE pc > AcceptAt + 7
    BY <1>1, <1>5, GetStep, EchoStep DEF Serving, ServeProgram
  <1> QED  BY <1>1, <1>2, <1>3, <1>4, <1>5, Positions

\* And of one that sets a cookie.
LEMMA CookieStep ==
    ASSUME IInv, Next, prog \in CookieProgram
    PROVE  Typed' /\ Open' /\ Cookied'
  <1>1. /\ Typed /\ Open /\ Cookied /\ prog' = prog /\ pc' = pc + 1 /\ pc \in 1 .. 7
        /\ AcceptAt = 8 /\ AcceptAt' = 8 /\ prog \notin SendProgram
    BY Stepped, CookieCode, Positions, SamePositions
       DEF IInv, CookieProgram, SendProgram
  <1>2. CASE pc = 1
    BY <1>1, <1>2, CreateStep, CookieCode DEF Cookied
  <1>3. CASE pc = 3
    BY <1>1, <1>3, SetCookieStep, CookieCode DEF Cookied, NO_ERROR
  <1>4. CASE pc = 5
    <2>1. Call(wait(e.port))
      BY <1>1, <1>4, Stepped, Called, Ops, CookieCode
    <2>2. PortUp /\ CookieOf(e.port) # NULL
      BY <1>1, <1>4 DEF Open
    <2>3. Valid(e.port)
      BY <2>2, IntHandles DEF PortUp, Valid, Handle
    <2>4. EventOf(e.port)
      BY <1>1, <2>1, <2>3, WaitCall
    <2>5. Typed' /\ Open'
      BY <1>1, <1>4, <2>4, KeptOpen DEF EventOf
    <2> QED  BY <1>1, <1>4, <2>2, <2>4, <2>5 DEF Cookied, EventOf, Quiet, VarsKept
  <1>5. CASE pc \in {2, 4, 6, 7}
    <2>1. Code[pc].op \in {"sassert", "assume"}
      <3>1. CASE pc = 2
        <4>1. Code[pc] = PortAssert
          BY <3>1, CookieCode
        <4> QED  BY <4>1 DEF PortAssert, Port2, NonSecurePort, Is, sassert
      <3>2. CASE pc \in {4, 6, 7}
        BY <3>2, CookieCode DEF sassert
      <3> QED  BY <1>5, <3>1, <3>2
    <2>2. Quiet /\ t' = t /\ e' = e
      BY <1>1, <2>1, Asserted
    <2>3. Typed' /\ Open'
      BY <1>1, <1>5, <2>2, KeptOpen
    <2> QED  BY <1>1, <1>5, <2>2, <2>3 DEF Cookied
  <1> QED  BY <1>1, <1>2, <1>3, <1>4, <1>5

-------------------------------------------------------------------------------
(* The assertions of the programs about one port, and those of the table.  *)

\* What the pointer build's table asserts in connect and in wait_any.
TableHolds(i) ==
    prog \in PtrProgram =>
        /\ i.op = "connect"  => Ptr!math_port_asserts(t, i.arg)
        /\ i.op = "wait_any" => Ptr!choose_active_asserts(t)

Fine(i) == Holds(i) /\ TableHolds(i)

LEMMA OthersFine ==
    ASSUME NEW i, i.op \notin {"sassert", "connect", "wait_any"}
    PROVE  Fine(i)
  BY DEF Fine, Holds, TableHolds

LEMMA AssertFine ==
    ASSUME NEW p, p, NEW i, i = sassert(p)
    PROVE  Fine(i)
  <1>1. Holds(i)
    BY DEF sassert, Holds
  <1>2. i.op = "sassert"
    BY DEF sassert
  <1> QED  BY <1>1, <1>2 DEF Fine, TableHolds

LEMMA ChannelFine ==
    ASSUME NEW i, NEW h, h # NULL, i = IsChannel(h), t.type[h] = "channel"
    PROVE  Fine(i)
  <1>1. Holds(i)
    BY DEF sassert, IsChannel, Holds
  <1>2. i.op = "sassert"
    BY DEF sassert, IsChannel
  <1> QED  BY <1>1, <1>2 DEF Fine, TableHolds

LEMMA PortFine ==
    ASSUME PortUp, NEW i, i = PortAssert
    PROVE  Fine(i)
  <1>1. CASE IsInt
    <2>1. i = sassert(e.port = 2) /\ e.port = 2
      BY <1>1 DEF PortUp, PortAssert, Port2
    <2> QED  BY <2>1, AssertFine
  <1>2. CASE ~ IsInt
    <2>1. i = Is(FALSE, e.port)
      BY <1>2 DEF PortAssert, NonSecurePort
    <2>2. e.port # NULL /\ t.secure[e.port] = FALSE
      BY <1>2, PtrFacts DEF PortUp
    <2>3. Holds(i)
      BY <2>1, <2>2, NonSecureHolds
    <2>4. i.op = "sassert"
      BY <2>1 DEF Is, sassert
    <2> QED  BY <2>3, <2>4 DEF Fine, TableHolds
  <1> QED  BY <1>1, <1>2

LEMMA ChanFine ==
    ASSUME ChanUp, NEW i, i = ChanAssert
    PROVE  Fine(i)
  <1>1. CASE prog = "int_port_send_msg"
    <2>1. i = sassert(e.chan = 17) /\ e.chan = 17
      BY <1>1 DEF ChanUp, ChanAssert, SendProgram, IsInt, IntProgram
    <2> QED  BY <2>1, AssertFine
  <1>2. CASE IsInt /\ prog # "int_port_send_msg"
    <2>1. i = sassert(e.chan = 16) /\ e.chan = 16
      BY <1>2 DEF ChanUp, ChanAssert, Chan16, SendProgram, IsInt, IntProgram
    <2> QED  BY <2>1, AssertFine
  <1>3. CASE ~ IsInt
    <2>1. i = IsChannel(e.chan)
      BY <1>3 DEF ChanAssert, IsChan, IsInt, IntProgram
    <2>2. e.chan # NULL /\ t.type[e.chan] = "channel"
      BY <1>3, PtrFacts DEF ChanUp
    <2> QED  BY <2>1, <2>2, ChannelFine
  <1> QED  BY <1>1, <1>2, <1>3

\* wait_any of the pointer build: the handle that was named is open.
LEMMA WaitAnyFine ==
    ASSUME Open, pc \in Nat, pc > 3, NEW i, i = wait_any, WaitsOnAny
    PROVE  Fine(i)
  <1>1. i.op = "wait_any"
    BY Ops
  <1>2. prog \in PtrProgram => Ptr!choose_active_asserts(t)
    <2>1. ASSUME prog \in PtrProgram
          PROVE  t.g_on_waitany_handle = e.port /\ e.port \in t.active
      <3>1. prog = "ptr_port_wait_any" /\ ~ IsInt
        BY <2>1 DEF WaitsOnAny, PtrProgram, IsInt, IntProgram
      <3> QED  BY <3>1 DEF Open, PortUp
    <2> QED  BY <2>1 DEF Ptr!choose_active_asserts
  <1> QED  BY <1>1, <1>2 DEF Fine, Holds, TableHolds

\* connect of the pointer build: the port that was named has the path.
LEMMA ConnectFine ==
    ASSUME Open, prog \in SendProgram, pc = WaitAt - 4, NEW i, i = connect(PATH, "h2")
    PROVE  Fine(i)
  <1>1. i.op = "connect" /\ i.arg = PATH
    BY DEF connect, Do
  <1>2. prog \in PtrProgram => Ptr!math_port_asserts(t, PATH)
    <2>1. ASSUME prog \in PtrProgram
          PROVE  t.g_on_connect_handle = e.port /\ t.path[e.port] = PATH
      <3>1. prog = "ptr_port_send_msg" /\ ~ IsInt /\ pc = 4
        BY <2>1 DEF SendProgram, PtrProgram, IsInt, IntProgram, WaitAt
      <3> QED  BY <3>1 DEF Open, PortUp
    <2> QED  BY <2>1 DEF Ptr!math_port_asserts
  <1> QED  BY <1>1, <1>2 DEF Fine, Holds, TableHolds

LEMMA HeadFine ==
    ASSUME Open, Waited, prog \in Serving, pc \in Nat \ {0}, pc < WaitAt,
           NEW i, i = Code[pc]
    PROVE  Fine(i)
  <1>1. HeadCode
    BY EveryServingCode DEF ServingCode
  <1>2. CASE pc = 1
    BY <1>1, <1>2, Ops, OthersFine DEF HeadCode
  <1>3. CASE pc = 2
    <2>1. i = PortAssert
      BY <1>1, <1>3 DEF HeadCode
    <2> QED  BY <1>3, <2>1, PortFine DEF Open
  <1>4. CASE pc = 3 /\ NamesPort
    <2>1. i = Naming
      BY <1>1, <1>4 DEF HeadCode
    <2> QED  BY <2>1, OthersFine DEF Naming, Do
  <1>5. CASE prog \in SendProgram /\ pc = WaitAt - 4
    BY <1>1, <1>5, ConnectFine DEF HeadCode
  <1>6. CASE prog \in SendProgram /\ pc = WaitAt - 3
    <2>1. i = ClientAssert
      BY <1>1, <1>6 DEF HeadCode
    <2>2. IF IsInt THEN e.h2 = 16 ELSE e.h2 \in PtrHandle /\ t.type[e.h2] = "channel"
      BY <1>6, Positions DEF Waited, Connected
    <2>3. CASE IsInt
      <3>1. i = sassert(e.h2 = 16) /\ e.h2 = 16
        BY <2>1, <2>2, <2>3 DEF ClientAssert
      <3> QED  BY <3>1, AssertFine
    <2>4. CASE ~ IsInt
      <3>1. i = IsChannel(e.h2)
        BY <2>1, <2>4 DEF ClientAssert
      <3>2. e.h2 # NULL /\ t.type[e.h2] = "channel"
        BY <2>2, <2>4, PtrFacts
      <3> QED  BY <3>1, <3>2, ChannelFine
    <2> QED  BY <2>3, <2>4
  <1>7. CASE prog \in SendProgram /\ pc \in {WaitAt - 2, WaitAt - 1}
    <2>1. i.op \in {"send_msg", "assume"}
      BY <1>1, <1>7, Positions DEF HeadCode, send_msg, assume, Do
    <2> QED  BY <2>1, OthersFine
  <1> QED  BY <1>2, <1>3, <1>4, <1>5, <1>6, <1>7, Positions

LEMMA WaitFine ==
    ASSUME Open, Waited, prog \in Serving, pc \in WaitAt .. AcceptAt - 1,
           NEW i, i = Code[pc]
    PROVE  Fine(i)
  <1>1. WaitCode /\ (prog \in WaitProgram <=> prog \notin ServeProgram)
    BY EveryServingCode DEF ServingCode, Serving, ServeProgram, WaitProgram,
       GetProgram, PutProgram, ReadProgram, SendProgram
  <1>2. CASE pc = WaitAt /\ WaitsOnAny
    <2>1. i = wait_any
      BY <1>1, <1>2 DEF WaitCode
    <2>2. CASE IsInt
      BY <2>1, <2>2, Ops DEF Fine, Holds, TableHolds, IsInt, IntProgram, PtrProgram
    <2>3. CASE ~ IsInt
      <3>1. pc > 3 /\ pc \in Nat
        BY <1>2, <2>3, Positions DEF WaitsOnAny, NamesPort, IsInt, IntProgram, SendProgram
      <3> QED  BY <1>2, <2>1, <3>1, WaitAnyFine
    <2> QED  BY <2>2, <2>3
  <1>3. CASE pc = WaitAt /\ ~ WaitsOnAny
    BY <1>1, <1>3, Ops, OthersFine DEF WaitCode
  <1>4. CASE pc = WaitAt + 1
    <2>1. i = sassert(e.rc <= NO_ERROR) /\ e.rc <= NO_ERROR
      BY <1>1, <1>4 DEF WaitCode, Waited
    <2> QED  BY <2>1, AssertFine
  <1>5. CASE pc = WaitAt + 2 /\ prog \in WaitProgram
    <2>1. i = sassert(e.rc = NO_ERROR => EventIsPort)
      BY <1>1, <1>5 DEF WaitCode
    <2>2. e.rc = NO_ERROR => EventIsPort
      BY <1>5 DEF Waited
    <2> QED  BY <2>1, <2>2, AssertFine
  <1>6. CASE pc \in {WaitAt + 2, WaitAt + 4} /\ prog \notin WaitProgram
    <2>1. i.op = "assume"
      BY <1>1, <1>6 DEF WaitCode, assume
    <2> QED  BY <2>1, OthersFine
  <1>7. CASE pc = WaitAt + 3 /\ prog \notin WaitProgram
    <2>1. i = sassert(EventIsPort) /\ EventIsPort
      BY <1>1, <1>7 DEF WaitCode, Waited
    <2> QED  BY <2>1, AssertFine
  <1> QED  BY <1>2, <1>3, <1>4, <1>5, <1>6, <1>7, Positions

LEMMA AcceptedFine ==
    ASSUME Open, Served, prog \in Serving, pc \in AcceptAt .. AcceptAt + 7,
           NEW i, i = Code[pc]
    PROVE  Fine(i)
  <1>1. AcceptCode
    BY EveryServingCode DEF ServingCode
  <1>2. CASE pc \in {AcceptAt, AcceptAt + 1, AcceptAt + 5, AcceptAt + 6, AcceptAt + 7}
    <2>1. i.op \in {"accept", "assume", "get_msg"}
      BY <1>1, <1>2 DEF AcceptCode, accept, assume, get_msg, Do
    <2> QED  BY <2>1, OthersFine
  <1>3. CASE pc = AcceptAt + 2
    <2>1. i = ChanAssert
      BY <1>1, <1>3 DEF AcceptCode
    <2>2. ChanUp
      BY <1>3, Positions DEF Open
    <2> QED  BY <2>1, <2>2, ChanFine
  <1>4. CASE pc = AcceptAt + 3 /\ WaitsOnAny
    <2>1. i = wait_any
      BY <1>1, <1>4 DEF AcceptCode
    <2> QED  BY <1>4, <2>1, WaitAnyFine, Positions
  <1>5. CASE pc = AcceptAt + 3 /\ ~ WaitsOnAny
    BY <1>1, <1>5, Ops, OthersFine DEF AcceptCode
  <1>6. CASE pc = AcceptAt + 4
    <2>1. i = sassert(e.rc <= NO_ERROR) /\ e.rc <= NO_ERROR
      BY <1>1, <1>6 DEF AcceptCode, Served
    <2> QED  BY <2>1, AssertFine
  <1> QED  BY <1>2, <1>3, <1>4, <1>5, <1>6, Positions

LEMMA GetFine ==
    ASSUME Served, prog \in GetProgram, pc \in DOMAIN Code, pc > AcceptAt + 7,
           NEW i, i = Code[pc]
    PROVE  Fine(i)
  <1>1. GetCode /\ prog \in Serving
    BY EveryServingCode DEF ServingCode, Serving, ServeProgram
  <1>2. pc \in AcceptAt + 8 .. AcceptAt + 10
    BY <1>1, Positions DEF GetCode
  <1>3. CASE pc = AcceptAt + 8
    <2>1. i = sassert(e.rc = NO_ERROR => e.id # 0)
      BY <1>1, <1>3 DEF GetCode
    <2>2. e.rc = NO_ERROR => e.id # 0
      BY <1>3 DEF Served
    <2> QED  BY <2>1, <2>2, AssertFine
  <1>4. CASE pc = AcceptAt + 9
    BY <1>1, <1>4, Ops, OthersFine DEF GetCode
  <1>5. CASE pc = AcceptAt + 10
    <2>1. i = sassert(e.rc = NO_ERROR) /\ e.rc = NO_ERROR
      BY <1>1, <1>5 DEF GetCode, Served
    <2> QED  BY <2>1, AssertFine
  <1> QED  BY <1>1, <1>2, <1>3, <1>4, <1>5, Positions

LEMMA EchoFine ==
    ASSUME Served, prog \in Serving \ GetProgram, pc \in DOMAIN Code, pc > AcceptAt + 7,
           NEW i, i = Code[pc]
    PROVE  Fine(i)
  <1> DEFINE a == AcceptAt
  <1>1. EchoCode /\ LastCode
    BY EveryServingCode DEF ServingCode
  <1>2. pc \in a + 8 .. a + 16 /\ a \in Nat
    <2>1. DOMAIN Code = 1 .. a + 16
      BY <1>1 DEF EchoCode
    <2>2. a \in Nat
      BY Positions
    <2> QED  BY <2>1, <2>2
  <1>3. CASE pc \in {a + 8, a + 10, a + 11, a + 13, a + 14}
    <2>1. i.op \in {"assume", "read_msg", "put_msg"}
      BY <1>1, <1>3 DEF EchoCode, assume, read_msg, put_msg, Do
    <2> QED  BY <2>1, OthersFine
  <1>4. CASE pc = a + 9
    <2>1. i = sassert(e.id # 0)
      BY <1>1, <1>4 DEF EchoCode
    <2>2. e.id # 0
      BY <1>2, <1>4 DEF Served
    <2> QED  BY <2>1, <2>2, AssertFine
  <1>5. CASE pc = a + 12
    <2>1. i = sassert(e.rc <= Size)
      BY <1>1, <1>5 DEF EchoCode
    <2>2. e.rc <= Size
      BY <1>2, <1>5 DEF Served
    <2> QED  BY <2>1, <2>2, AssertFine
  <1>6. CASE pc = a + 15
    <2>1. i.op \in {"read_msg", "close"}
      BY <1>1, <1>6 DEF LastCode, read_msg, closes, Do
    <2> QED  BY <2>1, OthersFine
  <1>7. CASE pc = a + 16 /\ prog \in WaitProgram \cup PutProgram
    <2>1. i = sassert(e.rc < NO_ERROR)
      BY <1>1, <1>7 DEF LastCode
    <2>2. e.rc < NO_ERROR
      BY <1>2, <1>7 DEF Served
    <2> QED  BY <2>1, <2>2, AssertFine
  <1>8. CASE pc = a + 16 /\ prog \notin WaitProgram \cup PutProgram
    <2>1. i = sassert(e.rc = NO_ERROR)
      BY <1>1, <1>8 DEF LastCode
    <2>2. e.rc = NO_ERROR
      BY <1>2, <1>8 DEF Served
    <2> QED  BY <2>1, <2>2, AssertFine
  <1> QED  BY <1>2, <1>3, <1>4, <1>5, <1>6, <1>7, <1>8

LEMMA ServingFine ==
    ASSUME IInv, prog \in Serving, pc \in DOMAIN Code, NEW i, i = Code[pc]
    PROVE  Fine(i)
  <1>1. Open /\ Waited /\ Served /\ pc \in Nat \ {0}
    BY DEF IInv
  <1>2. CASE pc < WaitAt
    BY <1>1, <1>2, HeadFine
  <1>3. CASE pc \in WaitAt .. AcceptAt - 1
    BY <1>1, <1>3, WaitFine
  <1>4. CASE pc \in AcceptAt .. AcceptAt + 7
    BY <1>1, <1>4, AcceptedFine
  <1>5. CASE pc > AcceptAt + 7
    BY <1>1, <1>5, GetFine, EchoFine DEF Serving, ServeProgram
  <1> QED  BY <1>1, <1>2, <1>3, <1>4, <1>5, Positions

LEMMA CookieFine ==
    ASSUME IInv, prog \in CookieProgram, pc \in DOMAIN Code, NEW i, i = Code[pc]
    PROVE  Fine(i)
  <1>1. Open /\ Cookied /\ pc \in 1 .. 7
    BY CookieCode DEF IInv
  <1>2. CASE pc \in {1, 3, 5}
    BY <1>1, <1>2, CookieCode, Ops, OthersFine
  <1>3. CASE pc = 2
    <2>1. i = PortAssert
      BY <1>3, CookieCode
    <2> QED  BY <1>1, <1>3, <2>1, PortFine DEF Open
  <1>4. CASE pc = 4
    <2>1. i = sassert(e.rc = 0) /\ e.rc = 0
      BY <1>1, <1>4, CookieCode DEF Cookied, NO_ERROR
    <2> QED  BY <2>1, AssertFine
  <1>5. CASE pc = 6
    <2>1. i = sassert(e.rc <= NO_ERROR) /\ e.rc <= NO_ERROR
      BY <1>1, <1>5, CookieCode DEF Cookied
    <2> QED  BY <2>1, AssertFine
  <1>6. CASE pc = 7
    <2>1. i = sassert(e.rc = NO_ERROR => e.ev.handle = e.port /\ e.ev.cookie # NULL)
      BY <1>6, CookieCode
    <2>2. e.rc = NO_ERROR => e.ev.handle = e.port /\ e.ev.cookie # NULL
      BY <1>1, <1>6 DEF Cookied
    <2> QED  BY <2>1, <2>2, AssertFine
  <1> QED  BY <1>1, <1>2, <1>3, <1>4, <1>5, <1>6

\* And those of the programs about the handles that are given out.
LEMMA IntFine ==
    ASSUME IsInt, NEW i, Holds(i)
    PROVE  Fine(i)
  BY DEF Fine, TableHolds, IsInt, IntProgram, PtrProgram

LEMMA PtrOthersFine ==
    ASSUME NEW i, Holds(i), i.op \notin {"connect", "wait_any"}
    PROVE  Fine(i)
  BY DEF Fine, TableHolds

LEMMA PtrCreateFine ==
    ASSUME IInv, prog = "ptr_port_create", pc \in DOMAIN Code, NEW i, i = Code[pc]
    PROVE  Fine(i)
  <1>1. i.op \in {"port_create", "sassert", "close"}
    <2>1. pc \in 1 .. 11
      BY PtrCreateCode
    <2>2. CASE pc \in {1, 3, 5, 7, 9, 10}
      BY <2>2, PtrCreateCode, Ops
    <2>3. CASE pc \in {2, 4, 6, 8, 11}
      BY <2>3, PtrCreateCode DEF NonSecurePort, Is, sassert
    <2> QED  BY <2>1, <2>2, <2>3
  <1> QED  BY <1>1, PtrCreateHolds, PtrOthersFine

LEMMA PtrCloseFine ==
    ASSUME IInv, prog = "ptr_port_close", pc \in DOMAIN Code, NEW i, i = Code[pc]
    PROVE  Fine(i)
  <1>1. i.op \in {"port_create", "sassert", "close"}
    <2>1. pc \in 1 .. 7
      BY PtrCloseCode
    <2>2. CASE pc \in {1, 3, 6}
      BY <2>2, PtrCloseCode, Ops
    <2>3. CASE pc \in {2, 4, 5, 7}
      BY <2>3, PtrCloseCode DEF NonSecurePort, Is, sassert
    <2> QED  BY <2>1, <2>2, <2>3
  <1> QED  BY <1>1, PtrCloseHolds, PtrOthersFine

LEMMA PtrAcceptFine ==
    ASSUME IInv, prog = "ptr_port_accept", pc \in DOMAIN Code, NEW i, i = Code[pc]
    PROVE  Fine(i)
  <1>1. i.op \in {"port_create", "sassert", "assume", "accept", "close"}
    <2>1. pc \in 1 .. 11
      BY PtrAcceptCode
    <2>2. CASE pc \in {1, 3, 6, 8, 10}
      BY <2>2, PtrAcceptCode, Ops
    <2>3. CASE pc \in {2, 4, 5, 7, 9, 11}
      BY <2>3, PtrAcceptCode DEF NonSecurePort, Is, sassert, assume
    <2> QED  BY <2>1, <2>2, <2>3
  <1> QED  BY <1>1, PtrAcceptHolds, PtrOthersFine

LEMMA PtrConnectFine ==
    ASSUME IInv, prog = "ptr_port_connect", pc \in DOMAIN Code, NEW i, i = Code[pc]
    PROVE  Fine(i)
  <1>1. pc \in 1 .. 9 /\ PtrConnected /\ Holds(i)
    BY PtrConnectCode, PtrConnectHolds DEF IInv
  <1>2. CASE pc \in {6, 8}
    <2>1. i.op = "connect" /\ i.arg = PATH
      BY <1>2, PtrConnectCode DEF connect, Do
    <2>2. t.path[t.g_on_connect_handle] = PATH
      BY <1>1, <1>2 DEF PtrConnected
    <2> QED  BY <1>1, <2>1, <2>2 DEF Fine, TableHolds, Ptr!math_port_asserts
  <1>3. CASE pc \in {1, 3, 5}
    <2>1. i.op \in {"port_create", "on_connect_return"}
      BY <1>3, PtrConnectCode, Ops
    <2> QED  BY <2>1, OthersFine
  <1>4. CASE pc \in {2, 4, 7, 9}
    <2>1. i.op = "sassert"
      BY <1>4, PtrConnectCode DEF NonSecurePort, Is, sassert
    <2> QED  BY <1>1, <2>1, PtrOthersFine
  <1> QED  BY <1>1, <1>2, <1>3, <1>4

\* Every program is of one of these kinds.
LEMMA Programs ==
    ASSUME prog \in IntProgram \cup PtrProgram
    PROVE  \/ prog \in Serving \/ prog \in CookieProgram
           \/ prog = "int_port_create" \/ prog = "int_port_close"
           \/ prog = "int_port_accept" \/ prog = "int_port_connect"
           \/ prog = "ptr_port_create" \/ prog = "ptr_port_close"
           \/ prog = "ptr_port_accept" \/ prog = "ptr_port_connect"
  BY DEF IntProgram, PtrProgram, Serving, ServeProgram, WaitProgram, CookieProgram,
     GetProgram, PutProgram, ReadProgram, SendProgram

LEMMA EveryFine ==
    ASSUME IInv, pc \in DOMAIN Code, NEW i, i = Code[pc]
    PROVE  Fine(i)
  <1>1. CASE prog \in Serving
    BY <1>1, ServingFine
  <1>2. CASE prog \in CookieProgram
    BY <1>2, CookieFine
  <1>3. CASE prog = "int_port_create"
    BY <1>3, IntCreateHolds, IntFine DEF IsInt, IntProgram
  <1>4. CASE prog = "int_port_close"
    BY <1>4, IntCloseHolds, IntFine DEF IsInt, IntProgram
  <1>5. CASE prog = "int_port_accept"
    BY <1>5, IntAcceptHolds, IntFine DEF IsInt, IntProgram
  <1>6. CASE prog = "int_port_connect"
    BY <1>6, IntConnectHolds, IntFine DEF IsInt, IntProgram
  <1>7. CASE prog = "ptr_port_create"
    BY <1>7, PtrCreateFine
  <1>8. CASE prog = "ptr_port_close"
    BY <1>8, PtrCloseFine
  <1>9. CASE prog = "ptr_port_accept"
    BY <1>9, PtrAcceptFine
  <1>10. CASE prog = "ptr_port_connect"
    BY <1>10, PtrConnectFine
  <1> QED  BY <1>1, <1>2, <1>3, <1>4, <1>5, <1>6, <1>7, <1>8, <1>9, <1>10, Programs
              DEF IInv, Typed

-------------------------------------------------------------------------------
(* The invariant is inductive.                                             *)

LEMMA InitInvariant ==
    ASSUME Init
    PROVE  IInv
  <1>1. /\ prog \in IntProgram \cup PtrProgram /\ pc = 1 /\ DOMAIN e = Fields
        /\ t = IF IsInt THEN InitTable ELSE Ptr!InitTable
    BY DEF Init, Fields, IsInt
  <1>2. Typed
    <2>1. CASE IsInt
      BY <1>1, <2>1, InitTableType DEF Typed, IsTable
    <2>2. CASE ~ IsInt
      BY <1>1, <2>2 DEF Typed, IsTable, Ptr!Table, Ptr!InitTable, Ptr!INVALID_IPC_MSG_ID
    <2> QED  BY <2>1, <2>2
  <1>3. IsInt => t.active = {} /\ sea_ht_get_cookie(t, 2) = NULL
    BY <1>1, IntHandles DEF InitTable, sea_ht_get_cookie, Handle
  <1>4. ASSUME prog \in Serving \cup CookieProgram
        PROVE  Open /\ Waited /\ Served /\ Cookied
    <2>1. /\ ~ Connected /\ WaitAt > 2 /\ AcceptAt > 5 /\ WaitAt \in Nat /\ AcceptAt \in Nat
      BY <1>1, <1>4, Positions DEF Connected
    <2>2. Open
      BY <1>1, <1>3, <2>1 DEF Open, CookieOf
    <2>3. Waited
      BY <1>1, <2>1 DEF Waited
    <2>4. Served
      BY <1>1, <2>1 DEF Served
    <2> QED  BY <1>1, <2>2, <2>3, <2>4 DEF Cookied
  <1>5. /\ prog = "int_port_create"  => IntCreated
        /\ prog = "int_port_close"   => IntClosed
        /\ prog = "int_port_accept"  => IntAccepted
        /\ prog = "int_port_connect" => IntConnected
    BY <1>1, <1>3 DEF IntCreated, IntClosed, IntAccepted, IntConnected, IsInt, IntProgram
  <1>6. PtrCreated /\ PtrClosed /\ PtrAccepted /\ PtrConnected
    BY <1>1 DEF PtrCreated, PtrClosed, PtrAccepted, PtrConnected
  <1> QED  BY <1>1, <1>2, <1>4, <1>5, <1>6 DEF IInv

LEMMA NextInvariant ==
    ASSUME IInv, Next
    PROVE  IInv'
  <1>1. prog' = prog /\ pc' \in Nat \ {0} /\ prog \in IntProgram \cup PtrProgram
    BY Stepped DEF IInv, Typed
  <1> USE <1>1 DEF IInv
  <1>2. CASE prog \in Serving
    <2>1. prog \notin CookieProgram
      BY <1>2 DEF Serving, ServeProgram, WaitProgram, GetProgram, PutProgram, ReadProgram,
         SendProgram, CookieProgram
    <2>2. prog \notin {"int_port_create", "int_port_close", "int_port_accept",
                       "int_port_connect", "ptr_port_create", "ptr_port_close",
                       "ptr_port_accept", "ptr_port_connect"}
      BY <1>2 DEF Serving, ServeProgram, WaitProgram, GetProgram, PutProgram, ReadProgram,
         SendProgram
    <2> QED  BY <1>2, <2>1, <2>2, ServingStep
  <1>3. CASE prog \in CookieProgram
    BY <1>3, CookieStep DEF CookieProgram, Serving, ServeProgram, WaitProgram,
       GetProgram, PutProgram, ReadProgram, SendProgram
  <1>4. CASE prog \notin Serving \cup CookieProgram
    BY <1>4, Programs, IntCreateStep, IntCloseStep, IntAcceptStep, IntConnectStep,
       PtrCreateStep, PtrCloseStep, PtrAcceptStep, PtrConnectStep
  <1> QED  BY <1>2, <1>3, <1>4

LEMMA StutterInvariant ==
    ASSUME IInv, UNCHANGED vars
    PROVE  IInv'
  <1>1. prog' = prog /\ pc' = pc /\ t' = t /\ e' = e
    BY DEF vars
  <1>2. WaitAt' = WaitAt /\ AcceptAt' = AcceptAt /\ Size' = Size /\ IsInt' = IsInt
    BY <1>1, SamePositions
  <1>3. Typed'
    BY <1>1, <1>2 DEF IInv, Typed, IsTable
  <1>4. Open' = Open
    BY <1>1, <1>2 DEF Open, PortUp, ChanUp, CookieOf, Connected
  <1>5. Waited' = Waited
    BY <1>1, <1>2 DEF Waited, Connected, EventIsPort
  <1>6. Served' = Served
    BY <1>1, <1>2 DEF Served, MsgIdOf
  <1>7. Cookied' = Cookied
    BY <1>1 DEF Cookied
  <1>8. /\ IntCreated' = IntCreated /\ IntClosed' = IntClosed
        /\ IntAccepted' = IntAccepted /\ IntConnected' = IntConnected
    BY <1>1 DEF IntCreated, IntClosed, IntAccepted, IntConnected
  <1>9. /\ PtrCreated' = PtrCreated /\ PtrClosed' = PtrClosed
        /\ PtrAccepted' = PtrAccepted /\ PtrConnected' = PtrConnected
    BY <1>1 DEF PtrCreated, PtrClosed, PtrAccepted, PtrConnected, OpenAs
  <1> QED  BY <1>1, <1>3, <1>4, <1>5, <1>6, <1>7, <1>8, <1>9 DEF IInv

LEMMA Invariance == Spec => []IInv
  <1>1. Init => IInv
    BY InitInvariant
  <1>2. IInv /\ [Next]_vars => IInv'
    BY NextInvariant, StutterInvariant
  <1> QED  BY <1>1, <1>2, PTL DEF Spec

LEMMA FineHolds ==
    ASSUME IInv
    PROVE  AssertionsHold
  <1>1. SUFFICES ASSUME pc \in DOMAIN Code, NEW i, i = Code[pc]
                 PROVE  /\ i.op = "sassert" => i.holds
                        /\ prog \in PtrProgram =>
                              /\ i.op = "connect"  => Ptr!math_port_asserts(t, i.arg)
                              /\ i.op = "wait_any" => Ptr!choose_active_asserts(t)
    BY DEF AssertionsHold
  <1>2. Fine(i)
    BY <1>1, EveryFine
  <1> QED  BY <1>2 DEF Fine, Holds, TableHolds

\* No program under proof/ of either build fails an assertion, its own or the
\* table's, whatever its calls return: for messages of any identifier and length,
\* any events, paths and cookies, and any addresses of the pointer build.
THEOREM ProgramsAssertionsHold == Spec => []AssertionsHold
  BY Invariance, FineHolds, PTL

===============================================================================
