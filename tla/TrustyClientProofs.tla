-------------------------- MODULE TrustyClientProofs --------------------------
(***************************************************************************)
(* The properties of TrustyClient for every size of the table and of a     *)
(* counter, all cookies, paths and messages.  The invariant IInv adds to   *)
(* the properties only that the message of a retired channel is gone.      *)
(***************************************************************************)
EXTENDS TrustyClient, TrustySyscallsProofs

RetiredHasNoMsg == \A c \in retired : t.msg_id[c] = INVALID_IPC_MSG_ID

IInv ==
    /\ TypeOK
    /\ CountersExact
    /\ OwnedIsActive
    /\ ParityIsFlags
    /\ RetiredHasNoMsg
    /\ RetiredUnreadable

LEMMA IInvGood ==
    ASSUME IInv
    PROVE  /\ GoodTable(t)
           /\ owned = t.active
           /\ owned \subseteq Handle
  BY DEF IInv, TypeOK, CountersExact, OwnedIsActive, GoodTable

LEMMA InitIInv == ASSUME Init PROVE IInv
  BY InitTableType, InitTableCounts
  DEF Init, IInv, TypeOK, CountersExact, OwnedIsActive, ParityIsFlags,
      RetiredHasNoMsg, RetiredUnreadable, NoCall, Call, InitTable

\* A call that changed neither the ports held nor their flags, and did not
\* read, keeps ParityIsFlags and RetiredUnreadable.
LEMMA ChannelStep ==
    ASSUME IInv, GoodTable(t'), owned' = t'.active,
           owned' \cap Port \subseteq owned, flags' = flags,
           retired' \subseteq Chan,
           \A c \in retired' : t'.msg_id[c] = INVALID_IPC_MSG_ID,
           last'.op # "read_msg"
    PROVE  IInv'
  <1>1. TypeOK'
    BY DEF IInv, TypeOK, GoodTable, Table
  <1>2. CountersExact' /\ OwnedIsActive'
    BY DEF CountersExact, OwnedIsActive, GoodTable
  <1>3. ParityIsFlags'
    BY DEF IInv, ParityIsFlags
  <1>4. RetiredHasNoMsg' /\ RetiredUnreadable'
    BY DEF RetiredHasNoMsg, RetiredUnreadable
  <1> QED  BY <1>1, <1>2, <1>3, <1>4 DEF IInv

LEMMA OpenStep ==
    ASSUME IInv, NEW h, ChannelOpened(t, h, t'),
           owned' = IF h \in Handle THEN owned \cup {h} ELSE owned,
           flags' = flags, retired' = retired \ {h}, last'.op # "read_msg"
    PROVE  IInv'
  <1>1. GoodTable(t') /\ owned' = t'.active
    BY IInvGood, HandleFacts DEF ChannelOpened, Handle
  <1>2. owned' \cap Port \subseteq owned
    BY HandleFacts DEF ChannelOpened, Handle
  <1>3. /\ retired' \subseteq Chan
        /\ \A c \in retired' : t'.msg_id[c] = INVALID_IPC_MSG_ID
    BY DEF IInv, TypeOK, RetiredHasNoMsg, ChannelOpened
  <1> QED  BY <1>1, <1>2, <1>3, ChannelStep

LEMMA PortCreateStep ==
    ASSUME IInv, NEW path \in Char \cup {NUL, NULL}, NEW fl \in FlagSets,
           PortCreate(path, fl)
    PROVE  IInv'
  <1>1. PICK r \in trusty_port_create(t, path, fl) :
           /\ t' = r.tab
           /\ owned' = IF r.rc \in Handle THEN owned \cup {r.rc} ELSE owned
           /\ flags' = IF r.rc \in Port THEN [flags EXCEPT ![r.rc] = fl] ELSE flags
           /\ last' = Call("port_create", INVALID_IPC_HANDLE, r.rc, "none", <<0, 0>>)
           /\ retired' = retired
    BY DEF PortCreate
  <1>2. last'.op # "read_msg"
    BY <1>1 DEF Call
  <1>3. fl \in SUBSET PortFlag
    BY ClientConstants
  <1>4. CASE r.rc \notin Handle /\ r.tab = t
    <2>1. t' = t /\ owned' = owned /\ flags' = flags /\ retired' = retired
      BY <1>1, <1>4 DEF Handle
    <2> QED  BY <1>2, <2>1, IInvGood, ChannelStep
          DEF IInv, TypeOK, RetiredHasNoMsg
  <1>5. CASE /\ r.rc \in Port
             /\ r.rc \notin t.active
             /\ IS_SECURE_IPC_HANDLE(r.rc) = IsSecurePort(fl)
             /\ GoodTable(r.tab)
             /\ r.tab.active = t.active \cup {r.rc}
             /\ r.tab.cookie = t.cookie
             /\ r.tab.msg_id = t.msg_id
    <2>1. /\ owned' = owned \cup {r.rc}
          /\ flags' = [flags EXCEPT ![r.rc] = fl]
      BY <1>1, <1>5 DEF Handle
    <2>2. TypeOK'
      BY <1>1, <1>3, <1>5, <2>1 DEF IInv, TypeOK, GoodTable, Handle
    <2>3. CountersExact' /\ OwnedIsActive'
      BY <1>1, <1>5, <2>1, IInvGood DEF CountersExact, OwnedIsActive, GoodTable
    <2>4. ParityIsFlags'
      <3>1. IsSecurePort(fl) <=> fl = {"NS"}
        BY <1>3 DEF IsSecurePort, PortFlag
      <3>2. IS_SECURE_IPC_HANDLE(r.rc) <=> fl = {"NS"}
        BY <1>5, <3>1
      <3>3. ASSUME NEW p \in owned' \cap Port
            PROVE  IS_SECURE_IPC_HANDLE(p) <=> flags'[p] = {"NS"}
        <4>1. CASE p = r.rc
          BY <1>5, <2>1, <3>2, <4>1 DEF IInv, TypeOK
        <4>2. CASE p # r.rc
          BY <1>5, <2>1, <4>2 DEF IInv, TypeOK, ParityIsFlags
        <4> QED  BY <4>1, <4>2
      <3> QED  BY <3>3 DEF ParityIsFlags
    <2>5. RetiredHasNoMsg' /\ RetiredUnreadable'
      BY <1>1, <1>2, <1>5 DEF IInv, RetiredHasNoMsg, RetiredUnreadable
    <2> QED  BY <2>2, <2>3, <2>4, <2>5 DEF IInv
  <1> QED  BY <1>4, <1>5, IInvGood, PortCreateResult

LEMMA CloseStep ==
    ASSUME IInv, NEW h \in owned \cup {INVALID_IPC_HANDLE}, Close(h)
    PROVE  IInv'
  <1>1. /\ t' = trusty_close(t, h).tab
        /\ owned' = owned \ {h}
        /\ retired' = retired \ {h}
        /\ flags' = flags
        /\ last'.op # "read_msg"
    BY DEF Close, Call
  <1>2. /\ GoodTable(t')
        /\ owned' = t'.active
        /\ t'.msg_id = t.msg_id
    <2>1. CASE h \in owned
      BY <1>1, <2>1, IInvGood, CloseResult
    <2>2. CASE h = INVALID_IPC_HANDLE
      BY <1>1, <2>2, IInvGood, CloseInvalid, HandleFacts
    <2> QED  BY <2>1, <2>2
  <1>3. /\ owned' \cap Port \subseteq owned
        /\ retired' \subseteq Chan
        /\ \A c \in retired' : t'.msg_id[c] = INVALID_IPC_MSG_ID
    BY <1>1, <1>2 DEF IInv, TypeOK, RetiredHasNoMsg
  <1> QED  BY <1>1, <1>2, <1>3, ChannelStep

LEMMA SetCookieStep ==
    ASSUME IInv, NEW h \in owned, NEW cookie \in Cookie \cup {NULL},
           SetCookie(h, cookie)
    PROVE  IInv'
  <1>1. /\ t' = trusty_set_cookie(t, h, cookie).tab
        /\ owned' = owned /\ flags' = flags /\ retired' = retired
        /\ last'.op # "read_msg"
    BY DEF SetCookie, Reported
  <1>2. GoodTable(t) /\ owned = t.active /\ h \in Handle
    BY IInvGood
  <1> DEFINE u == trusty_set_cookie(t, h, cookie).tab
  <1>3. GoodTable(u) /\ u.active = t.active /\ u.msg_id = t.msg_id
    BY <1>2, SetCookieResult
  <1>4. /\ GoodTable(t')
        /\ owned' = t'.active
        /\ t'.msg_id = t.msg_id
    BY <1>1, <1>2, <1>3
  <1> QED  BY <1>1, <1>4, ChannelStep DEF IInv, TypeOK, RetiredHasNoMsg

\* wait and wait_any, for an active handle.
LEMMA EventStep ==
    ASSUME IInv, NEW h \in t.active, NEW bits, NEW id \in Nat, NEW len \in Nat,
           t' = EventOn(t, h, bits, id, len).tab,
           retired' = IF "MSG" \in bits THEN retired \ {h} ELSE retired,
           owned' = owned, flags' = flags, last'.op # "read_msg"
    PROVE  IInv'
  <1>1. GoodTable(t) /\ owned = t.active /\ h \in Handle
    BY IInvGood
  <1> DEFINE u == EventOn(t, h, bits, id, len).tab
  <1>2. /\ GoodTable(u)
        /\ SameHandles(t, u)
        /\ \A c \in Chan : (c # h \/ "MSG" \notin bits) => u.msg_id[c] = t.msg_id[c]
    BY <1>1, EventResult
  <1>3. t' = u
    OBVIOUS
  <1> HIDE DEF u
  <1>4. owned' = t'.active /\ GoodTable(t')
    BY <1>1, <1>2, <1>3 DEF SameHandles
  <1>5. /\ retired' \subseteq Chan
        /\ \A c \in retired' : t'.msg_id[c] = INVALID_IPC_MSG_ID
    BY <1>2, <1>3 DEF IInv, TypeOK, RetiredHasNoMsg
  <1> QED  BY <1>4, <1>5, ChannelStep

LEMMA PutMsgStep ==
    ASSUME IInv, NEW h \in owned \cap Chan, PutMsg(h)
    PROVE  IInv'
  <1>1. PICK r \in trusty_put_msg(t, h) :
           /\ t' = r.tab
           /\ retired' = IF r.rc = NO_ERROR THEN retired \cup {h} ELSE retired
           /\ owned' = owned /\ flags' = flags /\ last'.op # "read_msg"
    BY DEF PutMsg, Call
  <1>2. /\ GoodTable(t')
        /\ SameHandles(t, t')
        /\ \A c \in Chan : c # h => t'.msg_id[c] = t.msg_id[c]
        /\ r.rc = NO_ERROR => t'.msg_id[h] = INVALID_IPC_MSG_ID
    BY <1>1, IInvGood, PutResult
  <1>3. h \in retired => t'.msg_id[h] = INVALID_IPC_MSG_ID
    <2>1. CASE r.rc = NO_ERROR
      BY <1>2, <2>1
    <2>2. CASE r.rc # NO_ERROR
      <3>1. t' = t
        BY <1>1, <2>2 DEF trusty_put_msg
      <3> QED  BY <3>1 DEF IInv, RetiredHasNoMsg
    <2> QED  BY <2>1, <2>2
  <1>4. owned' = t'.active
    BY <1>1, <1>2, IInvGood DEF SameHandles
  <1>5. /\ retired' \subseteq Chan
        /\ \A c \in retired' : t'.msg_id[c] = INVALID_IPC_MSG_ID
    BY <1>1, <1>2, <1>3 DEF IInv, TypeOK, RetiredHasNoMsg
  <1>6. last'.op # "read_msg"
    BY <1>1
  <1> QED  BY <1>1, <1>2, <1>4, <1>5, <1>6, ChannelStep

LEMMA ReadMsgStep ==
    ASSUME IInv, NEW h \in owned \cap Chan, NEW id \in MsgId, NEW iov \in Iov,
           ReadMsg(h, id, iov)
    PROVE  IInv'
  <1>1. /\ last' = Call("read_msg", h, trusty_read_msg(t, h, id, 0, iov).rc, "none",
                        trusty_read_msg(t, h, id, 0, iov).stored)
        /\ t' = t /\ owned' = owned /\ flags' = flags /\ retired' = retired
    BY DEF ReadMsg
  <1>2. last'.handle = h /\ last'.rc = trusty_read_msg(t, h, id, 0, iov).rc
    BY <1>1 DEF Call
  <1>3. id \in Nat /\ id # INVALID_IPC_MSG_ID
    BY ClientConstants
  <1>4. h \in retired => last'.rc < NO_ERROR
    BY <1>2, <1>3, ReadAbsent DEF IInv, RetiredHasNoMsg
  <1>5. RetiredUnreadable'
    BY <1>1, <1>2, <1>4 DEF RetiredUnreadable
  <1>6. /\ TypeOK' /\ CountersExact' /\ OwnedIsActive' /\ ParityIsFlags'
        /\ RetiredHasNoMsg'
    BY <1>1 DEF IInv, TypeOK, CountersExact, OwnedIsActive, ParityIsFlags,
                RetiredHasNoMsg
  <1> QED  BY <1>5, <1>6 DEF IInv

LEMMA GetMsgStep ==
    ASSUME IInv, NEW h, GetMsg(h)
    PROVE  IInv'
  <1>1. /\ last'.op # "read_msg"
        /\ t' = t /\ owned' = owned /\ flags' = flags /\ retired' = retired
    BY DEF GetMsg, Call
  <1> QED  BY <1>1, IInvGood, ChannelStep DEF IInv, TypeOK, RetiredHasNoMsg

LEMMA StutterStep == ASSUME IInv, UNCHANGED vars PROVE IInv'
  BY DEF vars, IInv, TypeOK, CountersExact, OwnedIsActive, ParityIsFlags,
         RetiredHasNoMsg, RetiredUnreadable

LEMMA NextIInv == ASSUME IInv, [Next]_vars PROVE IInv'
  <1>1. ASSUME NEW path \in Char \cup {NUL, NULL}, NEW fl \in FlagSets,
               PortCreate(path, fl)
        PROVE  IInv'
    BY <1>1, PortCreateStep
  <1>2. ASSUME NEW path, Connect(path) PROVE IInv'
    <2>1. PICK r \in trusty_connect(t, path) :
             /\ t' = r.tab
             /\ owned' = IF r.rc \in Handle THEN owned \cup {r.rc} ELSE owned
             /\ retired' = retired \ {r.rc} /\ flags' = flags
             /\ last' = Call("connect", INVALID_IPC_HANDLE, r.rc, "none", <<0, 0>>)
      BY <1>2 DEF Connect
    <2>2. last'.op # "read_msg"
      BY <2>1 DEF Call
    <2>3. ChannelOpened(t, r.rc, t')
      BY <2>1, IInvGood, ConnectResult
    <2> QED  BY <2>1, <2>2, <2>3, OpenStep
  <1>3. ASSUME NEW p, Accept(p) PROVE IInv'
    <2>1. PICK r \in trusty_accept(t, p) :
             /\ t' = r.tab
             /\ owned' = IF r.rc \in Handle THEN owned \cup {r.rc} ELSE owned
             /\ retired' = retired \ {r.rc} /\ flags' = flags
             /\ last' = Call("accept", p, r.rc, r.peer, <<0, 0>>)
      BY <1>3 DEF Accept
    <2>2. last'.op # "read_msg"
      BY <2>1 DEF Call
    <2>3. ChannelOpened(t, r.rc, t')
      BY <2>1, IInvGood, AcceptResult
    <2> QED  BY <2>1, <2>2, <2>3, OpenStep
  <1>4. ASSUME NEW h \in owned \cup {INVALID_IPC_HANDLE}, Close(h) PROVE IInv'
    BY <1>4, CloseStep
  <1>5. ASSUME NEW h \in owned, NEW cookie \in Cookie \cup {NULL},
               SetCookie(h, cookie)
        PROVE  IInv'
    BY <1>5, SetCookieStep
  <1>6. ASSUME NEW h \in owned, NEW bits \in WaitBits, NEW id \in MsgId,
               NEW len \in MsgLen, Wait(h, bits, id, len)
        PROVE  IInv'
    <2>1. id \in Nat /\ len \in Nat /\ h \in t.active
      BY ClientConstants, IInvGood
    <2>2. /\ t' = EventOn(t, h, bits, id, len).tab
          /\ retired' = IF "MSG" \in bits THEN retired \ {h} ELSE retired
          /\ owned' = owned /\ flags' = flags /\ last'.op # "read_msg"
      BY <1>6 DEF Wait, Reported
    <2> QED  BY <2>1, <2>2, EventStep
  <1>7. ASSUME NEW bits \in WaitBits, NEW id \in MsgId, NEW len \in MsgLen,
               WaitAny(bits, id, len)
        PROVE  IInv'
    <2>1. PICK h \in t.active :
             /\ t' = EventOn(t, h, bits, id, len).tab
             /\ retired' = IF "MSG" \in bits THEN retired \ {h} ELSE retired
             /\ last' = Reported("wait_any", EventOn(t, h, bits, id, len).handle,
                                 EventOn(t, h, bits, id, len).cookie)
             /\ owned' = owned /\ flags' = flags
      BY <1>7 DEF WaitAny, sea_ht_choose_active_handle
    <2>2. last'.op # "read_msg"
      BY <2>1 DEF Reported
    <2>3. id \in Nat /\ len \in Nat
      BY ClientConstants
    <2> QED  BY <2>1, <2>2, <2>3, EventStep
  <1>8. ASSUME NEW c \in owned \cap Chan, GetMsg(c) PROVE IInv'
    BY <1>8, GetMsgStep
  <1>9. ASSUME NEW c \in owned \cap Chan, NEW id \in MsgId, NEW iov \in Iov,
               ReadMsg(c, id, iov)
        PROVE  IInv'
    BY <1>9, ReadMsgStep
  <1>10. ASSUME NEW c \in owned \cap Chan, PutMsg(c) PROVE IInv'
    BY <1>10, PutMsgStep
  <1>11. ASSUME UNCHANGED vars PROVE IInv'
    BY <1>11, StutterStep
  <1> QED
    BY <1>1, <1>2, <1>3, <1>4, <1>5, <1>6, <1>7, <1>8, <1>9, <1>10, <1>11 DEF Next

-------------------------------------------------------------------------------
(* The theorems.                                                           *)

\* The inductive invariant.
THEOREM Invariance == Spec => []IInv
  <1>1. Init => IInv
    BY InitIInv
  <1>2. IInv /\ [Next]_vars => IInv'
    BY NextIInv
  <1> QED  BY <1>1, <1>2, PTL DEF Spec

\* The state of TrustyClient has its type.
THEOREM ClientTypeOK == Spec => []TypeOK
  <1>1. IInv => TypeOK
    BY DEF IInv
  <1> QED  BY <1>1, Invariance, PTL

\* The counters of the handle table are exact under every sequence of calls of
\* a program that closes each handle once: they neither drift nor wrap.
THEOREM ClientCountersExact == Spec => []CountersExact
  <1>1. IInv => CountersExact
    BY DEF IInv
  <1> QED  BY <1>1, Invariance, PTL

\* A handle is active in the table exactly while the program holds it.
THEOREM ClientOwnedIsActive == Spec => []OwnedIsActive
  <1>1. IInv => OwnedIsActive
    BY DEF IInv
  <1> QED  BY <1>1, Invariance, PTL

\* The parity of a port handle tells whether only the non-secure world may
\* connect, for as long as the port is open.
THEOREM ClientParityIsFlags == Spec => []ParityIsFlags
  <1>1. IInv => ParityIsFlags
    BY DEF IInv
  <1> QED  BY <1>1, Invariance, PTL

\* A message that was put back is never read again.
THEOREM ClientRetiredUnreadable == Spec => []RetiredUnreadable
  <1>1. IInv => RetiredUnreadable
    BY DEF IInv
  <1> QED  BY <1>1, Invariance, PTL

-------------------------------------------------------------------------------
(* FreshHandles, an action property.                                       *)

Allocating == {"port_create", "connect", "accept"}

Fresh == \A h \in Handle : (last'.op \in Allocating /\ last'.rc = h) => h \notin owned

LEMMA NextFresh ==
    ASSUME IInv, Next
    PROVE  Fresh
  <1>0. GoodTable(t) /\ owned = t.active
    BY IInvGood
  <1>1. ASSUME NEW path \in Char \cup {NUL, NULL}, NEW fl \in FlagSets,
               PortCreate(path, fl)
        PROVE  Fresh
    <2>1. PICK r \in trusty_port_create(t, path, fl) :
             last' = Call("port_create", INVALID_IPC_HANDLE, r.rc, "none", <<0, 0>>)
      BY <1>1 DEF PortCreate
    <2>2. last'.rc = r.rc
      BY <2>1 DEF Call
    <2>3. r.rc \notin Handle \/ r.rc \notin t.active
      BY <1>0, PortCreateResult
    <2> QED  BY <1>0, <2>2, <2>3 DEF Fresh
  <1>2. ASSUME NEW path, Connect(path) PROVE Fresh
    <2>1. PICK r \in trusty_connect(t, path) :
             last' = Call("connect", INVALID_IPC_HANDLE, r.rc, "none", <<0, 0>>)
      BY <1>2 DEF Connect
    <2>2. last'.rc = r.rc
      BY <2>1 DEF Call
    <2>3. r.rc \notin Handle \/ r.rc \notin t.active
      BY <1>0, ConnectResult, HandleFacts DEF ChannelOpened, Handle
    <2> QED  BY <1>0, <2>2, <2>3 DEF Fresh
  <1>3. ASSUME NEW p, Accept(p) PROVE Fresh
    <2>1. PICK r \in trusty_accept(t, p) :
             last' = Call("accept", p, r.rc, r.peer, <<0, 0>>)
      BY <1>3 DEF Accept
    <2>2. last'.rc = r.rc
      BY <2>1 DEF Call
    <2>3. r.rc \notin Handle \/ r.rc \notin t.active
      BY <1>0, AcceptResult, HandleFacts DEF ChannelOpened, Handle
    <2> QED  BY <1>0, <2>2, <2>3 DEF Fresh
  <1>4. CASE last'.op \notin Allocating
    BY <1>4 DEF Fresh
  <1>5. ASSUME NEW h, Close(h) PROVE Fresh
    BY <1>4, <1>5 DEF Close, Call, Allocating
  <1>6. ASSUME NEW h, NEW cookie, SetCookie(h, cookie) PROVE Fresh
    BY <1>4, <1>6 DEF SetCookie, Reported, Allocating
  <1>7. ASSUME NEW h, NEW bits, NEW id, NEW len, Wait(h, bits, id, len)
        PROVE  Fresh
    BY <1>4, <1>7 DEF Wait, Reported, Allocating
  <1>8. ASSUME NEW bits, NEW id, NEW len, WaitAny(bits, id, len) PROVE Fresh
    <2>1. PICK h \in sea_ht_choose_active_handle(t) :
             last' = Reported("wait_any", EventOn(t, h, bits, id, len).handle,
                              EventOn(t, h, bits, id, len).cookie)
      BY <1>8 DEF WaitAny
    <2> QED  BY <1>4, <2>1 DEF Reported, Allocating
  <1>9. ASSUME NEW h, GetMsg(h) PROVE Fresh
    BY <1>4, <1>9 DEF GetMsg, Call, Allocating
  <1>10. ASSUME NEW h, NEW id, NEW iov, ReadMsg(h, id, iov) PROVE Fresh
    BY <1>4, <1>10 DEF ReadMsg, Call, Allocating
  <1>11. ASSUME NEW h, PutMsg(h) PROVE Fresh
    BY <1>4, <1>11 DEF PutMsg, Call, Allocating
  <1> QED
    BY <1>1, <1>2, <1>3, <1>5, <1>6, <1>7, <1>8, <1>9, <1>10, <1>11 DEF Next

\* No call hands out a handle that the program already holds.
THEOREM ClientFreshHandles == Spec => FreshHandles
  <1>1. IInv /\ [Next]_vars => [Fresh]_<<t, last>>
    BY NextFresh DEF vars
  <1>2. [][Fresh]_<<t, last>> => FreshHandles
    BY PTL DEF Fresh, Allocating, FreshHandles
  <1> QED  BY <1>1, <1>2, Invariance, PTL DEF Spec

-------------------------------------------------------------------------------
(* OthersKept, an action property.                                         *)

Kept == \A h \in owned \cap owned' :
          owned # owned' =>
             /\ sea_ht_get_cookie(t', h) = sea_ht_get_cookie(t, h)
             /\ sea_ht_get_msg_id(t', h) = sea_ht_get_msg_id(t, h)

\* Only the calls that open and close change what the program holds, and they
\* set no cookie and no message.
LEMMA NextKept ==
    ASSUME IInv, Next
    PROVE  Kept
  <1>0. GoodTable(t) /\ owned = t.active
    BY IInvGood
  <1>1. ASSUME t'.cookie = t.cookie, t'.msg_id = t.msg_id PROVE Kept
    BY <1>1 DEF Kept, sea_ht_get_cookie, sea_ht_get_msg_id
  <1>2. ASSUME owned' = owned PROVE Kept
    BY <1>2 DEF Kept
  <1>3. ASSUME NEW path \in Char \cup {NUL, NULL}, NEW fl \in FlagSets,
               PortCreate(path, fl)
        PROVE  Kept
    <2>1. PICK r \in trusty_port_create(t, path, fl) : t' = r.tab
      BY <1>3 DEF PortCreate
    <2>2. t'.cookie = t.cookie /\ t'.msg_id = t.msg_id
      <3>1. r.tab = t \/ (r.tab.cookie = t.cookie /\ r.tab.msg_id = t.msg_id)
        BY <1>0, PortCreateResult
      <3> QED  BY <2>1, <3>1
    <2> QED  BY <2>2, <1>1
  <1>4. ASSUME NEW path, Connect(path) PROVE Kept
    <2>1. PICK r \in trusty_connect(t, path) : t' = r.tab
      BY <1>4 DEF Connect
    <2>2. t'.cookie = t.cookie /\ t'.msg_id = t.msg_id
      BY <1>0, <2>1, ConnectResult DEF ChannelOpened
    <2> QED  BY <2>2, <1>1
  <1>5. ASSUME NEW p, Accept(p) PROVE Kept
    <2>1. PICK r \in trusty_accept(t, p) : t' = r.tab
      BY <1>5 DEF Accept
    <2>2. t'.cookie = t.cookie /\ t'.msg_id = t.msg_id
      BY <1>0, <2>1, AcceptResult DEF ChannelOpened
    <2> QED  BY <2>2, <1>1
  <1>6. ASSUME NEW h \in owned \cup {INVALID_IPC_HANDLE}, Close(h) PROVE Kept
    <2>1. t' = trusty_close(t, h).tab
      BY <1>6 DEF Close
    <2>2. CASE h \in t.active
      BY <1>0, <1>1, <2>1, <2>2, CloseResult
    <2>3. CASE h = INVALID_IPC_HANDLE
      BY <1>1, <2>1, <2>3, CloseInvalid
    <2> QED  BY <1>0, <2>2, <2>3
  <1>7. ASSUME NEW h, NEW cookie, SetCookie(h, cookie) PROVE Kept
    BY <1>2, <1>7 DEF SetCookie
  <1>8. ASSUME NEW h, NEW bits, NEW id, NEW len, Wait(h, bits, id, len)
        PROVE  Kept
    BY <1>2, <1>8 DEF Wait
  <1>9. ASSUME NEW bits, NEW id, NEW len, WaitAny(bits, id, len) PROVE Kept
    BY <1>2, <1>9 DEF WaitAny
  <1>10. ASSUME NEW h, GetMsg(h) PROVE Kept
    BY <1>2, <1>10 DEF GetMsg
  <1>11. ASSUME NEW h, NEW id, NEW iov, ReadMsg(h, id, iov) PROVE Kept
    BY <1>2, <1>11 DEF ReadMsg
  <1>12. ASSUME NEW h, PutMsg(h) PROVE Kept
    BY <1>2, <1>12 DEF PutMsg
  <1> QED
    BY <1>3, <1>4, <1>5, <1>6, <1>7, <1>8, <1>9, <1>10, <1>11, <1>12 DEF Next

\* An allocation or a release leaves the cookies and messages of the other
\* handles as they were (sea_ht_new_port, sea_ht_new_channel, sea_ht_free).
THEOREM ClientOthersKept == Spec => OthersKept
  <1>1. IInv /\ [Next]_vars => [Kept]_<<t, owned>>
    BY NextKept DEF vars
  <1>2. [][Kept]_<<t, owned>> => OthersKept
    BY PTL DEF Kept, OthersKept
  <1> QED  BY <1>1, <1>2, Invariance, PTL DEF Spec

-------------------------------------------------------------------------------
(* The refinement of TrustyIpc: each call is one step of it.               *)

\* The mapped variables.
MappedCookie == [h \in Handle |-> IF h \in t.active THEN t.cookie[h] ELSE NULL]
MappedHasMsg == {c \in t.active : sea_ht_has_msg(t, c)}

Seen(l) ==
    [op     |-> l.op,
     handle |-> l.handle,
     new    |-> IF l.rc \in Handle /\ l.op \in {"port_create", "connect", "accept"}
                THEN l.rc ELSE INVALID_IPC_HANDLE,
     ok     |-> IF l.op \in {"port_create", "connect", "accept"}
                THEN l.rc \in Handle ELSE l.rc >= NO_ERROR,
     cookie |-> l.cookie]

\* What the program sees of a call that opens a handle.
LEMMA SeenOpens ==
    ASSUME NEW op \in Allocating, NEW from, NEW rc, NEW peer, NEW stored
    PROVE  /\ rc \in Handle => Seen(Call(op, from, rc, peer, stored))
                                 = Ipc!Result(op, from, rc, TRUE, NULL)
           /\ rc \notin Handle => Seen(Call(op, from, rc, peer, stored))
                                 = Ipc!Result(op, from, INVALID_IPC_HANDLE, FALSE, NULL)
  <1> DEFINE l == Call(op, from, rc, peer, stored)
  <1>1. l.op = op /\ l.handle = from /\ l.rc = rc /\ l.cookie = NULL
    BY DEF Call
  <1>2. op \in {"port_create", "connect", "accept"}
    BY DEF Allocating
  <1> HIDE DEF l
  <1>3. ASSUME rc \in Handle PROVE (l.rc \in Handle) = TRUE
    BY <1>1, <1>3
  <1>4. ASSUME rc \notin Handle PROVE (l.rc \in Handle) = FALSE
    BY <1>1, <1>4
  <1>5. ASSUME rc \in Handle PROVE Seen(l) = Ipc!Result(op, from, rc, TRUE, NULL)
    BY <1>1, <1>2, <1>3, <1>5 DEF Seen, Ipc!Result
  <1>6. ASSUME rc \notin Handle
        PROVE  Seen(l) = Ipc!Result(op, from, INVALID_IPC_HANDLE, FALSE, NULL)
    BY <1>1, <1>2, <1>4, <1>6 DEF Seen, Ipc!Result
  <1> QED  BY <1>5, <1>6 DEF l

\* What it sees of the other calls.
LEMMA SeenCall ==
    ASSUME NEW op, op \notin Allocating, NEW h, NEW rc \in Int, NEW peer, NEW stored
    PROVE  /\ rc >= 0 => Seen(Call(op, h, rc, peer, stored))
                           = Ipc!Result(op, h, INVALID_IPC_HANDLE, TRUE, NULL)
           /\ rc < 0 => Seen(Call(op, h, rc, peer, stored))
                           = Ipc!Result(op, h, INVALID_IPC_HANDLE, FALSE, NULL)
  <1> DEFINE l == Call(op, h, rc, peer, stored)
  <1>1. l.op = op /\ l.handle = h /\ l.rc = rc /\ l.cookie = NULL
    BY DEF Call
  <1>2. op \notin {"port_create", "connect", "accept"}
    BY DEF Allocating
  <1> HIDE DEF l
  <1>3. ASSUME rc >= 0 PROVE (l.rc >= NO_ERROR) = TRUE
    BY <1>1, <1>3 DEF NO_ERROR
  <1>4. ASSUME rc < 0 PROVE (l.rc >= NO_ERROR) = FALSE
    BY <1>1, <1>4 DEF NO_ERROR
  <1>5. ASSUME rc >= 0
        PROVE  Seen(l) = Ipc!Result(op, h, INVALID_IPC_HANDLE, TRUE, NULL)
    BY <1>1, <1>2, <1>3, <1>5, Zenon DEF Seen, Ipc!Result
  <1>6. ASSUME rc < 0
        PROVE  Seen(l) = Ipc!Result(op, h, INVALID_IPC_HANDLE, FALSE, NULL)
    BY <1>1, <1>2, <1>4, <1>6, Zenon DEF Seen, Ipc!Result
  <1> QED  BY <1>5, <1>6 DEF l

LEMMA SeenReported ==
    ASSUME NEW op, op \notin Allocating, NEW h, NEW cookie
    PROVE  Seen(Reported(op, h, cookie))
             = Ipc!Result(op, h, INVALID_IPC_HANDLE, TRUE, cookie)
  <1> DEFINE l == Reported(op, h, cookie)
  <1>1. l.op = op /\ l.handle = h /\ l.rc = NO_ERROR /\ l.cookie = cookie
    BY DEF Reported
  <1>2. op \notin {"port_create", "connect", "accept"}
    BY DEF Allocating
  <1> HIDE DEF l
  <1>3. (l.rc >= NO_ERROR) = TRUE
    BY <1>1 DEF NO_ERROR
  <1>4. Seen(l) = Ipc!Result(op, h, INVALID_IPC_HANDLE, TRUE, cookie)
    BY <1>1, <1>2, <1>3, Zenon DEF Seen, Ipc!Result
  <1> QED  BY <1>4 DEF l

\* The empty table maps to no open handles.
LEMMA InitMapped == ASSUME Init PROVE Ipc!Init
  <1>1. t.active = {} /\ t.active \cap Port = {} /\ t.active \cap Chan = {}
    BY DEF Init, InitTable
  <1>2. MappedCookie = [h \in Handle |-> NULL] /\ MappedHasMsg = {}
    BY <1>1 DEF MappedCookie, MappedHasMsg
  <1>3. "none" \notin Allocating
    BY DEF Allocating
  <1>4. Seen(last) = Ipc!NoResult
    <2>1. last = Call("none", INVALID_IPC_HANDLE, 0, "none", <<0, 0>>)
      BY DEF Init, NoCall
    <2>2. Seen(last) = Ipc!Result("none", INVALID_IPC_HANDLE, INVALID_IPC_HANDLE, TRUE, NULL)
      <3>1. 0 \in Int /\ 0 >= 0
        OBVIOUS
      <3> QED  BY <1>3, <2>1, <3>1, SeenCall, Zenon
    <2> QED  BY <2>2 DEF Ipc!NoResult
  <1> QED  BY <1>1, <1>2, <1>4 DEF Ipc!Init, MappedCookie, MappedHasMsg, Seen

\* What the mapping makes of a step that opens a handle and changes no message.
LEMMA MappedOpen ==
    ASSUME IInv, NEW h \in Handle, h \notin t.active,
           GoodTable(t'), t'.active = t.active \cup {h},
           t'.cookie = t.cookie, t'.msg_id = t.msg_id
    PROVE  /\ \E c \in Cookie \cup {NULL} :
                 MappedCookie' = [MappedCookie EXCEPT ![h] = c]
           /\ MappedHasMsg' \in {MappedHasMsg, MappedHasMsg \cup {h}}
  <1>1. t.cookie[h] \in Cookie \cup {NULL}
    BY DEF IInv, TypeOK, Table
  <1>2. MappedCookie' = [MappedCookie EXCEPT ![h] = t.cookie[h]]
    BY DEF MappedCookie
  <1>3. \A c : sea_ht_has_msg(t', c) <=> sea_ht_has_msg(t, c)
    BY DEF sea_ht_has_msg
  <1>4. ASSUME sea_ht_has_msg(t, h) PROVE MappedHasMsg' = MappedHasMsg \cup {h}
    BY <1>3, <1>4 DEF MappedHasMsg
  <1>5. ASSUME ~ sea_ht_has_msg(t, h) PROVE MappedHasMsg' = MappedHasMsg
    BY <1>3, <1>5 DEF MappedHasMsg
  <1> QED  BY <1>1, <1>2, <1>4, <1>5

\* port_create is PortCreate: it fails, or opens a port.
LEMMA PortCreateMapped ==
    ASSUME IInv, NEW path \in Char \cup {NUL, NULL}, NEW fl \in FlagSets,
           PortCreate(path, fl)
    PROVE  Ipc!PortCreate
  <1>1. PICK r \in trusty_port_create(t, path, fl) :
           /\ t' = r.tab
           /\ last' = Call("port_create", INVALID_IPC_HANDLE, r.rc, "none", <<0, 0>>)
    BY DEF PortCreate
  <1>2. "port_create" \in Allocating
    BY DEF Allocating
  <1>3. CASE r.rc \notin Handle /\ r.tab = t
    <2>1. Seen(last') = Ipc!Result("port_create", INVALID_IPC_HANDLE,
                                   INVALID_IPC_HANDLE, FALSE, NULL)
      BY <1>1, <1>2, <1>3, SeenOpens, Zenon
    <2>2. t' = t
      BY <1>1, <1>3
    <2>3. Ipc!OpenFails("port_create", INVALID_IPC_HANDLE)
      BY <2>1, <2>2 DEF Ipc!OpenFails, Seen, sea_ht_has_msg
    <2> QED  BY <2>3 DEF Ipc!PortCreate
  <1>4. CASE /\ r.rc \in Port
             /\ r.rc \notin t.active
             /\ GoodTable(r.tab)
             /\ r.tab.active = t.active \cup {r.rc}
             /\ r.tab.cookie = t.cookie
             /\ r.tab.msg_id = t.msg_id
    <2>1. r.rc \in Handle
      BY <1>4 DEF Handle
    <2>2. Seen(last') = Ipc!Result("port_create", INVALID_IPC_HANDLE, r.rc, TRUE, NULL)
      BY <1>1, <1>2, <2>1, SeenOpens, Zenon
    <2>3. /\ \E c \in Cookie \cup {NULL} :
                MappedCookie' = [MappedCookie EXCEPT ![r.rc] = c]
          /\ MappedHasMsg' \in {MappedHasMsg, MappedHasMsg \cup {r.rc}}
      BY <1>1, <1>4, <2>1, MappedOpen
    <2>4. r.rc \notin (t.active \cap Port) \cup (t.active \cap Chan)
      BY <1>4
    <2>5. Ipc!Opened("port_create", INVALID_IPC_HANDLE, r.rc)
      BY <2>2, <2>3, <2>4 DEF Ipc!Opened, Ipc!open, Seen, MappedCookie, MappedHasMsg
    <2>6. /\ t'.active \cap Port = (t.active \cap Port) \cup {r.rc}
          /\ t'.active \cap Chan = t.active \cap Chan
      BY <1>1, <1>4, HandleFacts
    <2> QED  BY <2>1, <2>5, <2>6 DEF Ipc!PortCreate
  <1> QED  BY <1>3, <1>4, IInvGood, PortCreateResult

\* connect and accept are OpenChannel.
LEMMA OpenChannelMapped ==
    ASSUME IInv, NEW op \in {"connect", "accept"}, NEW from, NEW rc, NEW peer,
           ChannelOpened(t, rc, t'), last' = Call(op, from, rc, peer, <<0, 0>>)
    PROVE  Ipc!OpenChannel(op, from)
  <1>1. op \in Allocating
    BY DEF Allocating
  <1>2. CASE rc = INVALID_IPC_HANDLE /\ t' = t
    <2>1. rc \notin Handle
      BY <1>2, HandleFacts
    <2>2. Seen(last') = Ipc!Result(op, from, INVALID_IPC_HANDLE, FALSE, NULL)
      BY <1>1, <2>1, SeenOpens, Zenon
    <2>3. Ipc!OpenFails(op, from)
      BY <1>2, <2>2 DEF Ipc!OpenFails, Seen, sea_ht_has_msg
    <2> QED  BY <2>3 DEF Ipc!OpenChannel
  <1>3. CASE /\ rc \in Chan
             /\ rc \notin t.active
             /\ GoodTable(t')
             /\ t'.active = t.active \cup {rc}
             /\ t'.cookie = t.cookie
             /\ t'.msg_id = t.msg_id
    <2>1. rc \in Handle
      BY <1>3 DEF Handle
    <2>2. Seen(last') = Ipc!Result(op, from, rc, TRUE, NULL)
      BY <1>1, <2>1, SeenOpens, Zenon
    <2>3. /\ \E c \in Cookie \cup {NULL} :
                MappedCookie' = [MappedCookie EXCEPT ![rc] = c]
          /\ MappedHasMsg' \in {MappedHasMsg, MappedHasMsg \cup {rc}}
      BY <1>3, <2>1, MappedOpen
    <2>4. rc \notin (t.active \cap Port) \cup (t.active \cap Chan)
      BY <1>3
    <2>5. Ipc!Opened(op, from, rc)
      BY <2>2, <2>3, <2>4 DEF Ipc!Opened, Ipc!open, Seen, MappedCookie, MappedHasMsg
    <2>6. /\ t'.active \cap Chan = (t.active \cap Chan) \cup {rc}
          /\ t'.active \cap Port = t.active \cap Port
      BY <1>3, HandleFacts
    <2> QED  BY <2>1, <2>5, <2>6 DEF Ipc!OpenChannel
  <1> QED  BY <1>2, <1>3 DEF ChannelOpened

\* close is Close, of INVALID_IPC_HANDLE also.
LEMMA CloseMapped ==
    ASSUME IInv, NEW h \in owned \cup {INVALID_IPC_HANDLE}, Close(h)
    PROVE  Ipc!Close(h)
  <1>1. t' = trusty_close(t, h).tab /\ last' = Call("close", h, NO_ERROR, "none", <<0, 0>>)
    BY DEF Close
  <1>2. t'.active = t.active \ {h} /\ t'.cookie = t.cookie /\ t'.msg_id = t.msg_id
    <2>1. CASE h \in owned
      BY <1>1, <2>1, IInvGood, CloseResult
    <2>2. CASE h = INVALID_IPC_HANDLE
      BY <1>1, <2>2, IInvGood, CloseInvalid, HandleFacts
    <2> QED  BY <2>1, <2>2
  <1>3. Seen(last') = Ipc!Result("close", h, INVALID_IPC_HANDLE, TRUE, NULL)
    <2>1. "close" \notin Allocating
      BY DEF Allocating
    <2>2. NO_ERROR \in Int /\ NO_ERROR >= 0
      BY DEF NO_ERROR
    <2> QED  BY <1>1, <2>1, <2>2, SeenCall, Zenon
  <1>4. /\ t'.active \cap Port = (t.active \cap Port) \ {h}
        /\ t'.active \cap Chan = (t.active \cap Chan) \ {h}
    BY <1>2
  <1>5. MappedHasMsg' = MappedHasMsg \ {h}
    BY <1>2 DEF MappedHasMsg, sea_ht_has_msg
  <1>6. MappedCookie' = [k \in Handle |-> IF k = h THEN NULL ELSE MappedCookie[k]]
    BY <1>2 DEF MappedCookie
  <1> QED
    BY <1>3, <1>4, <1>5, <1>6 DEF Ipc!Close, Seen, MappedCookie, MappedHasMsg

\* set_cookie is SetCookie.
LEMMA SetCookieMapped ==
    ASSUME IInv, NEW h \in owned, NEW cookie \in Cookie \cup {NULL},
           SetCookie(h, cookie)
    PROVE  Ipc!SetCookie(h, cookie)
  <1>1. GoodTable(t) /\ owned = t.active /\ h \in Handle
    BY IInvGood
  <1> DEFINE u == trusty_set_cookie(t, h, cookie).tab
  <1>2. /\ u.active = t.active
        /\ u.cookie = [t.cookie EXCEPT ![h] = cookie]
        /\ u.msg_id = t.msg_id
    BY <1>1, SetCookieResult
  <1>3. t' = u /\ last' = Reported("set_cookie", h, cookie)
    BY DEF SetCookie
  <1> HIDE DEF u
  <1>4. Seen(last') = Ipc!Result("set_cookie", h, INVALID_IPC_HANDLE, TRUE, cookie)
    <2>1. "set_cookie" \notin Allocating
      BY DEF Allocating
    <2> QED  BY <1>3, <2>1, SeenReported, Zenon
  <1>5. MappedHasMsg' = MappedHasMsg
    BY <1>2, <1>3 DEF MappedHasMsg, sea_ht_has_msg
  <1>6. MappedCookie' = [MappedCookie EXCEPT ![h] = cookie]
    BY <1>1, <1>2, <1>3 DEF MappedCookie, GoodTable, Table
  <1> QED
    BY <1>2, <1>3, <1>4, <1>5, <1>6 DEF Ipc!SetCookie, Seen, MappedCookie, MappedHasMsg

\* A message that arrives adds its channel to those that have one.
LEMMA WaitMapped ==
    ASSUME IInv, NEW op \in {"wait", "wait_any"}, NEW h \in t.active, NEW bits,
           NEW id \in MsgId, NEW len \in MsgLen,
           t' = EventOn(t, h, bits, id, len).tab,
           last' = Reported(op, EventOn(t, h, bits, id, len).handle,
                            EventOn(t, h, bits, id, len).cookie)
    PROVE  Ipc!Wait(op, h)
  <1>0. id \in Nat /\ id > 0 /\ len \in Nat
    BY ClientConstants DEF INVALID_IPC_MSG_ID
  <1>1. GoodTable(t) /\ h \in Handle
    BY IInvGood
  <1> DEFINE u == EventOn(t, h, bits, id, len).tab
  <1>2. /\ GoodTable(u)
        /\ SameHandles(t, u)
        /\ \A c \in Chan : (c # h \/ "MSG" \notin bits) => u.msg_id[c] = t.msg_id[c]
    <2>1. id \in Nat /\ len \in Nat
      BY <1>0
    <2> QED  BY <1>1, <2>1, EventResult
  <1>3. h \in Chan /\ "MSG" \in bits => u.msg_id[h] > 0
    <2> SUFFICES ASSUME h \in Chan, "MSG" \in bits PROVE u.msg_id[h] > 0
      OBVIOUS
    <2>1. u = [t EXCEPT !.msg_id[h] = id, !.msg_len[h] = len]
      BY DEF EventOn, sea_ht_new_nd_msg
    <2>2. u.msg_id[h] = id
      BY <2>1, <1>0, <1>1 DEF GoodTable, Table
    <2> QED  BY <2>2, <1>0
  <1>4. last' = Reported(op, h, t.cookie[h])
    BY <1>1 DEF EventOn, sea_ht_get_cookie
  <1>5. t' = u
    OBVIOUS
  <1> HIDE DEF u
  <1>6. /\ t'.active = t.active /\ t'.cookie = t.cookie
        /\ \A c \in Chan : (c # h \/ "MSG" \notin bits) => t'.msg_id[c] = t.msg_id[c]
        /\ h \in Chan /\ "MSG" \in bits => t'.msg_id[h] > 0
    BY <1>2, <1>3, <1>5 DEF SameHandles
  <1>7. Seen(last') = Ipc!Result(op, h, INVALID_IPC_HANDLE, TRUE, MappedCookie[h])
    <2>1. op \notin Allocating
      BY DEF Allocating
    <2>2. MappedCookie[h] = t.cookie[h]
      BY <1>1 DEF MappedCookie
    <2> QED  BY <1>4, <2>1, <2>2, SeenReported, Zenon
  <1>8. ASSUME h \in Chan, "MSG" \in bits
        PROVE  MappedHasMsg' = MappedHasMsg \cup {h}
    BY <1>6, <1>8 DEF MappedHasMsg, sea_ht_has_msg
  <1>9. ASSUME h \notin Chan \/ "MSG" \notin bits
        PROVE  MappedHasMsg' = MappedHasMsg
    BY <1>6, <1>9 DEF MappedHasMsg, sea_ht_has_msg
  <1>10. MappedHasMsg' \in {MappedHasMsg, MappedHasMsg \cup {h}}
    BY <1>8, <1>9
  <1>11. MappedCookie' = MappedCookie
    BY <1>6 DEF MappedCookie
  <1> QED
    BY <1>6, <1>7, <1>10, <1>11 DEF Ipc!Wait, Seen, MappedCookie, MappedHasMsg

\* get_msg and read_msg change nothing, and succeed only if there is a message.
LEMMA InspectMapped ==
    ASSUME IInv, NEW op \in {"get_msg", "read_msg"}, NEW h, NEW rc \in Int, NEW stored,
           t' = t, last' = Call(op, h, rc, "none", stored),
           rc >= 0 => h \in MappedHasMsg
    PROVE  Ipc!Inspect(op, h)
  <1>1. op \notin Allocating
    BY DEF Allocating
  <1>2. MappedCookie' = MappedCookie /\ MappedHasMsg' = MappedHasMsg
    BY DEF MappedCookie, MappedHasMsg, sea_ht_has_msg
  <1>3. \E ok \in BOOLEAN :
           /\ Seen(last') = Ipc!Result(op, h, INVALID_IPC_HANDLE, ok, NULL)
           /\ ok => h \in MappedHasMsg
    <2>1. CASE rc >= 0
      <3>1. Seen(last') = Ipc!Result(op, h, INVALID_IPC_HANDLE, TRUE, NULL)
        BY <1>1, <2>1, SeenCall, Zenon
      <3> QED  BY <2>1, <3>1
    <2>2. CASE rc < 0
      <3>1. Seen(last') = Ipc!Result(op, h, INVALID_IPC_HANDLE, FALSE, NULL)
        BY <1>1, <2>2, SeenCall, Zenon
      <3> QED  BY <3>1
    <2> QED  BY <2>1, <2>2
  <1> QED  BY <1>2, <1>3 DEF Ipc!Inspect, Seen, MappedCookie, MappedHasMsg

\* get_msg reports success only for a message that is there.
LEMMA GetMsgMapped ==
    ASSUME IInv, NEW h \in owned \cap Chan, GetMsg(h)
    PROVE  Ipc!Inspect("get_msg", h)
  <1>1. PICK r \in trusty_get_msg(t, h) :
           t' = t /\ last' = Call("get_msg", h, r.rc, "none", <<0, 0>>)
    BY DEF GetMsg
  <1>2. t.msg_id[h] \in Nat /\ h \in t.active
    BY IInvGood DEF GoodTable, Table
  <1>3. /\ r.rc \in Int
        /\ r.rc >= 0 => t.msg_id[h] # 0
    <2>1. CASE \E e \in IpcErr : r.rc = e
      BY <2>1 DEF IpcErr, ERR_GENERIC, ERR_NO_MSG
    <2>2. CASE r.rc = IF sea_ht_get_msg_id(t, h) # INVALID_IPC_MSG_ID
                      THEN NO_ERROR ELSE ERR_GENERIC
      BY <2>2 DEF sea_ht_get_msg_id, INVALID_IPC_MSG_ID, NO_ERROR, ERR_GENERIC
    <2>3. \/ \E e \in IpcErr : r.rc = e
          \/ r.rc = IF sea_ht_get_msg_id(t, h) # INVALID_IPC_MSG_ID
                    THEN NO_ERROR ELSE ERR_GENERIC
      BY DEF trusty_get_msg
    <2> QED  BY <2>1, <2>2, <2>3
  <1>4. r.rc >= 0 => h \in MappedHasMsg
    BY <1>2, <1>3 DEF MappedHasMsg, sea_ht_has_msg
  <1> QED  BY <1>1, <1>3, <1>4, InspectMapped

\* read_msg succeeds only with the identifier of a message that is there.
LEMMA ReadMsgMapped ==
    ASSUME IInv, NEW h \in owned \cap Chan, NEW id \in MsgId, NEW iov \in Iov,
           ReadMsg(h, id, iov)
    PROVE  Ipc!Inspect("read_msg", h)
  <1> DEFINE r == trusty_read_msg(t, h, id, 0, iov)
  <1>1. t' = t /\ last' = Call("read_msg", h, r.rc, "none", r.stored)
    BY DEF ReadMsg
  <1>2. id \in Nat /\ id # 0 /\ iov \in [1..1 -> Nat] \cup [1..2 -> Nat]
    BY ClientConstants DEF INVALID_IPC_MSG_ID
  <1>3. r.rc \in Int
    BY <1>2, IInvGood, ReadReturnsInt
  <1>4. r.rc >= 0 => t.msg_id[h] = id
    BY <1>2, <1>3, ReadAbsent DEF NO_ERROR
  <1>5. h \in t.active
    BY IInvGood
  <1>6. r.rc >= 0 => h \in MappedHasMsg
    BY <1>2, <1>4, <1>5 DEF MappedHasMsg, sea_ht_has_msg
  <1> HIDE DEF r
  <1> QED  BY <1>1, <1>3, <1>6, InspectMapped

\* put_msg retires the message exactly when it reports success.
LEMMA PutMsgMapped ==
    ASSUME IInv, NEW h \in owned \cap Chan, PutMsg(h)
    PROVE  Ipc!PutMsg(h)
  <1>1. PICK r \in trusty_put_msg(t, h) :
           t' = r.tab /\ last' = Call("put_msg", h, r.rc, "none", <<0, 0>>)
    BY DEF PutMsg
  <1>2. /\ SameHandles(t, t')
        /\ \A c \in Chan : c # h => t'.msg_id[c] = t.msg_id[c]
        /\ r.rc = NO_ERROR => t'.msg_id[h] = INVALID_IPC_MSG_ID
    BY <1>1, IInvGood, PutResult
  <1>3. MappedCookie' = MappedCookie
    BY <1>2 DEF MappedCookie, SameHandles
  <1>4. "put_msg" \notin Allocating
    BY DEF Allocating
  <1>5. \E ok \in BOOLEAN :
           /\ Seen(last') = Ipc!Result("put_msg", h, INVALID_IPC_HANDLE, ok, NULL)
           /\ MappedHasMsg' = IF ok THEN MappedHasMsg \ {h} ELSE MappedHasMsg
    <2>1. CASE r.rc = NO_ERROR
      <3>1. r.rc \in Int /\ r.rc >= 0
        BY <2>1 DEF NO_ERROR
      <3>2. Seen(last') = Ipc!Result("put_msg", h, INVALID_IPC_HANDLE, TRUE, NULL)
        BY <1>1, <1>4, <3>1, SeenCall, Zenon
      <3>3. MappedHasMsg' = MappedHasMsg \ {h}
        BY <1>2, <2>1 DEF MappedHasMsg, sea_ht_has_msg, SameHandles, INVALID_IPC_MSG_ID
      <3> QED  BY <3>2, <3>3
    <2>2. CASE r.rc # NO_ERROR
      <3>1. t' = t /\ r.rc \in IpcErr
        BY <1>1, <2>2 DEF trusty_put_msg
      <3>2. r.rc \in Int /\ r.rc < 0
        BY <3>1 DEF IpcErr, ERR_GENERIC, ERR_NO_MSG
      <3>3. Seen(last') = Ipc!Result("put_msg", h, INVALID_IPC_HANDLE, FALSE, NULL)
        BY <1>1, <1>4, <3>2, SeenCall, Zenon
      <3>4. MappedHasMsg' = MappedHasMsg
        BY <3>1 DEF MappedHasMsg, sea_ht_has_msg
      <3> QED  BY <3>3, <3>4
    <2> QED  BY <2>1, <2>2
  <1> QED
    BY <1>2, <1>3, <1>5 DEF Ipc!PutMsg, Seen, MappedCookie, MappedHasMsg, SameHandles

\* Every step of the program is a step of TrustyIpc, one case for each call.
LEMMA NextMapped ==
    ASSUME IInv, Next
    PROVE  Ipc!Next
  <1> DEFINE open == (t.active \cap Port) \cup (t.active \cap Chan)
  <1>0. owned = t.active /\ open = t.active
    BY IInvGood DEF Handle
  <1>1. ASSUME NEW path \in Char \cup {NUL, NULL}, NEW fl \in FlagSets,
               PortCreate(path, fl)
        PROVE  Ipc!Next
    BY <1>1, PortCreateMapped DEF Ipc!Next
  <1>2. ASSUME NEW path, Connect(path) PROVE Ipc!Next
    <2>1. PICK r \in trusty_connect(t, path) :
             /\ t' = r.tab
             /\ last' = Call("connect", INVALID_IPC_HANDLE, r.rc, "none", <<0, 0>>)
      BY <1>2 DEF Connect
    <2>2. ChannelOpened(t, r.rc, t')
      BY <2>1, IInvGood, ConnectResult
    <2>3. Ipc!OpenChannel("connect", INVALID_IPC_HANDLE)
      BY <2>1, <2>2, OpenChannelMapped
    <2> QED  BY <2>3 DEF Ipc!Next, Ipc!Connect
  <1>3. ASSUME NEW p \in owned \cap Port, Accept(p) PROVE Ipc!Next
    <2>1. PICK r \in trusty_accept(t, p) :
             t' = r.tab /\ last' = Call("accept", p, r.rc, r.peer, <<0, 0>>)
      BY <1>3 DEF Accept
    <2>2. ChannelOpened(t, r.rc, t')
      BY <2>1, IInvGood, AcceptResult
    <2>3. Ipc!OpenChannel("accept", p)
      BY <2>1, <2>2, OpenChannelMapped
    <2>4. p \in t.active \cap Port
      BY <1>0
    <2> QED  BY <2>3, <2>4 DEF Ipc!Next, Ipc!Accept
  <1>4. ASSUME NEW h \in owned \cup {INVALID_IPC_HANDLE}, Close(h) PROVE Ipc!Next
    <2>1. h \in open \cup {INVALID_IPC_HANDLE}
      BY <1>0
    <2> QED  BY <1>4, <2>1, CloseMapped DEF Ipc!Next, Ipc!open
  <1>5. ASSUME NEW h \in owned, NEW cookie \in Cookie \cup {NULL},
               SetCookie(h, cookie)
        PROVE  Ipc!Next
    <2>1. h \in open
      BY <1>0
    <2> QED  BY <1>5, <2>1, SetCookieMapped DEF Ipc!Next, Ipc!open
  <1>6. ASSUME NEW op \in {"wait", "wait_any"}, NEW h \in t.active, NEW bits,
               NEW id \in MsgId, NEW len \in MsgLen,
               t' = EventOn(t, h, bits, id, len).tab,
               last' = Reported(op, EventOn(t, h, bits, id, len).handle,
                                EventOn(t, h, bits, id, len).cookie)
        PROVE  Ipc!Next
    <2>1. h \in open
      BY <1>0
    <2>2. Ipc!Wait(op, h)
      BY <1>6, WaitMapped
    <2> QED  BY <2>1, <2>2 DEF Ipc!Next, Ipc!open
  <1>7. ASSUME NEW h \in owned, NEW bits \in WaitBits, NEW id \in MsgId,
               NEW len \in MsgLen, Wait(h, bits, id, len)
        PROVE  Ipc!Next
    BY <1>0, <1>6, <1>7 DEF Wait
  <1>8. ASSUME NEW bits \in WaitBits, NEW id \in MsgId, NEW len \in MsgLen,
               WaitAny(bits, id, len)
        PROVE  Ipc!Next
    BY <1>6, <1>8 DEF WaitAny, sea_ht_choose_active_handle
  <1>9. ASSUME NEW c \in owned \cap Chan, GetMsg(c) PROVE Ipc!Next
    <2>1. c \in t.active \cap Chan
      BY <1>0
    <2> QED  BY <1>9, <2>1, GetMsgMapped DEF Ipc!Next
  <1>10. ASSUME NEW c \in owned \cap Chan, NEW id \in MsgId, NEW iov \in Iov,
                ReadMsg(c, id, iov)
         PROVE  Ipc!Next
    <2>1. c \in t.active \cap Chan
      BY <1>0
    <2> QED  BY <1>10, <2>1, ReadMsgMapped DEF Ipc!Next
  <1>11. ASSUME NEW c \in owned \cap Chan, PutMsg(c) PROVE Ipc!Next
    <2>1. c \in t.active \cap Chan
      BY <1>0
    <2> QED  BY <1>11, <2>1, PutMsgMapped DEF Ipc!Next
  <1> QED
    BY <1>1, <1>2, <1>3, <1>4, <1>5, <1>7, <1>8, <1>9, <1>10, <1>11 DEF Next

\* The integer table and its system calls keep the promises of TrustyIpc to
\* every program that keeps their discipline.
THEOREM ClientImplementsTrustyIpc == Spec => ImplementsTrustyIpc
  <1>1. Init => Ipc!Init
    BY InitMapped
  <1>2. IInv /\ [Next]_vars => [Ipc!Next]_(Ipc!vars)
    <2> SUFFICES ASSUME IInv, [Next]_vars PROVE [Ipc!Next]_(Ipc!vars)
      OBVIOUS
    <2>1. CASE Next
      BY <2>1, NextMapped
    <2>2. CASE UNCHANGED vars
      BY <2>2 DEF vars, Ipc!vars, sea_ht_has_msg
    <2> QED  BY <2>1, <2>2
  <1> QED  BY <1>1, <1>2, Invariance, PTL DEF Spec, ImplementsTrustyIpc, Ipc!Spec

===============================================================================
