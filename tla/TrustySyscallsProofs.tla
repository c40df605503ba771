------------------------- MODULE TrustySyscallsProofs -------------------------
(***************************************************************************)
(* What each system call returns and does to the table, for every size of  *)
(* the table.                                                              *)
(***************************************************************************)
EXTENDS TrustySyscalls, SeaHandleTableProofs

\* A predicate on tables: right type, right counters.
GoodTable(t) == t \in Table /\ CountersAgree(t)

\* u differs from t only in messages.
SameHandles(t, u) ==
    /\ u.active = t.active
    /\ u.cookie = t.cookie
    /\ u.g_active_phandles = t.g_active_phandles
    /\ u.g_active_chandles = t.g_active_chandles

LEMMA SameHandlesGood ==
    ASSUME NEW t, NEW u \in Table, GoodTable(t), SameHandles(t, u)
    PROVE  GoodTable(u)
  BY DEF GoodTable, SameHandles, CountersAgree

\* port_create fails and changes nothing, or opens a port that was not
\* active, of the parity its flags ask for.
LEMMA PortCreateResult ==
    ASSUME NEW t, GoodTable(t), NEW path \in Char \cup {NUL, NULL}, NEW fl,
           NEW r \in trusty_port_create(t, path, fl)
    PROVE  \/ r.rc \notin Handle /\ r.tab = t
           \/ /\ r.rc \in Port
              /\ r.rc \notin t.active
              /\ IS_SECURE_IPC_HANDLE(r.rc) = IsSecurePort(fl)
              /\ GoodTable(r.tab)
              /\ r.tab.active = t.active \cup {r.rc}
              /\ r.tab.cookie = t.cookie
              /\ r.tab.msg_id = t.msg_id
  <1>1. CASE path = NULL
    <2>1. r.rc = -3 /\ r.tab = t
      BY <1>1 DEF trusty_port_create, ERR_BAD_PATH
    <2>2. -3 \notin Handle
      BY HandleFacts DEF Handle
    <2> QED  BY <2>1, <2>2
  <1>2. CASE path # NULL
    <2>1. PICK h \in s_first_available_port_handle(t, IsSecurePort(fl)) :
             r = [rc |-> h, tab |-> sea_ht_new_port(t, h, path)]
      BY <1>2 DEF trusty_port_create
    <2>2. r.rc = h /\ r.tab = sea_ht_new_port(t, h, path)
      BY <2>1
    <2>3. CASE h = INVALID_IPC_HANDLE
      BY <2>2, <2>3, NewInvalid, HandleFacts
    <2>4. CASE h # INVALID_IPC_HANDLE
      <3>1. h \in Port /\ h \notin t.active
              /\ IS_SECURE_IPC_HANDLE(h) = IsSecurePort(fl)
        BY <2>4, FreePort
      <3>2. path \in Char \cup {NUL}
        BY <1>2
      <3>3. GoodTable(r.tab)
        BY <2>2, <3>1, <3>2, NewPort, NewPortCounts DEF GoodTable
      <3>4. /\ r.tab.active = t.active \cup {h}
            /\ r.tab.cookie = t.cookie
            /\ r.tab.msg_id = t.msg_id
        BY <2>2, <3>1, <3>2, NewPort DEF GoodTable
      <3> QED  BY <2>2, <3>1, <3>3, <3>4
    <2> QED  BY <2>3, <2>4
  <1> QED  BY <1>1, <1>2

\* A path that is not NULL is no error.
LEMMA PortCreateHandle ==
    ASSUME NEW t, NEW path, path # NULL, NEW fl,
           NEW r \in trusty_port_create(t, path, fl)
    PROVE  r.rc \in Port \cup {INVALID_IPC_HANDLE}
  <1>1. PICK h \in s_first_available_port_handle(t, IsSecurePort(fl)) :
           r = [rc |-> h, tab |-> sea_ht_new_port(t, h, path)]
    BY DEF trusty_port_create
  <1>2. r.rc = h
    BY <1>1
  <1> QED  BY <1>2, FreePort

\* A call that opens a channel finds the table full and changes nothing, or
\* opens one that was not active.
ChannelOpened(t, h, u) ==
    \/ h = INVALID_IPC_HANDLE /\ u = t
    \/ /\ h \in Chan
       /\ h \notin t.active
       /\ GoodTable(u)
       /\ u.active = t.active \cup {h}
       /\ u.cookie = t.cookie
       /\ u.msg_id = t.msg_id

LEMMA NewChannelResult ==
    ASSUME NEW t, GoodTable(t), NEW h \in s_first_available_channel_handle(t)
    PROVE  ChannelOpened(t, h, sea_ht_new_channel(t, h))
  <1>1. CASE h = INVALID_IPC_HANDLE
    BY <1>1, NewInvalid DEF ChannelOpened
  <1>2. CASE h # INVALID_IPC_HANDLE
    <2>1. h \in Chan /\ h \notin t.active
      BY <1>2, FreeChannel
    <2> DEFINE u == sea_ht_new_channel(t, h)
    <2>2. /\ u.active = t.active \cup {h}
          /\ u.cookie = t.cookie
          /\ u.msg_id = t.msg_id
          /\ u \in Table
      BY <2>1, NewChannel DEF GoodTable
    <2>3. GoodTable(u)
      BY <2>1, <2>2, NewChannelCounts DEF GoodTable
    <2> QED  BY <2>1, <2>2, <2>3 DEF ChannelOpened
  <1> QED  BY <1>1, <1>2

LEMMA ConnectResult ==
    ASSUME NEW t, GoodTable(t), NEW path, NEW r \in trusty_connect(t, path)
    PROVE  ChannelOpened(t, r.rc, r.tab)
  <1>1. CASE r = [rc |-> INVALID_IPC_HANDLE, tab |-> t]
    BY <1>1 DEF ChannelOpened
  <1>2. ASSUME NEW h \in s_first_available_channel_handle(t),
               r = [rc |-> h, tab |-> sea_ht_new_channel(t, h)]
        PROVE  ChannelOpened(t, r.rc, r.tab)
    BY <1>2, NewChannelResult
  <1> QED  BY <1>1, <1>2 DEF trusty_connect

LEMMA AcceptResult ==
    ASSUME NEW t, GoodTable(t), NEW p, NEW r \in trusty_accept(t, p)
    PROVE  ChannelOpened(t, r.rc, r.tab)
  <1>1. PICK h \in s_first_available_channel_handle(t), u \in {"zeros", "nonzero"} :
           r = [rc |-> h, tab |-> sea_ht_new_channel(t, h), peer |-> u]
    BY DEF trusty_accept
  <1> QED  BY <1>1, NewChannelResult

\* close releases an active handle, and does nothing to INVALID_IPC_HANDLE.
LEMMA CloseResult ==
    ASSUME NEW t, GoodTable(t), NEW h \in t.active
    PROVE  LET u == trusty_close(t, h).tab
           IN  /\ GoodTable(u)
               /\ u.active = t.active \ {h}
               /\ u.cookie = t.cookie
               /\ u.msg_id = t.msg_id
  <1>1. trusty_close(t, h).tab = sea_ht_free(t, h)
    BY DEF trusty_close
  <1>2. h \in Port \/ h \in Chan
    BY DEF GoodTable, Table, Handle
  <1>3. /\ sea_ht_free(t, h) \in Table
        /\ sea_ht_free(t, h).active = t.active \ {h}
        /\ sea_ht_free(t, h).cookie = t.cookie
        /\ sea_ht_free(t, h).msg_id = t.msg_id
    BY <1>2, FreePortHandle, FreeChannelHandle DEF GoodTable
  <1>4. GoodTable(sea_ht_free(t, h))
    BY <1>3, FreeCounts DEF GoodTable
  <1> QED  BY <1>1, <1>3, <1>4

LEMMA CloseInvalid ==
    ASSUME NEW t
    PROVE  trusty_close(t, INVALID_IPC_HANDLE).tab = t
  BY FreeInvalid DEF trusty_close

LEMMA SetCookieResult ==
    ASSUME NEW t, GoodTable(t), NEW h \in Handle, NEW cookie \in Cookie \cup {NULL}
    PROVE  LET u == trusty_set_cookie(t, h, cookie).tab
           IN  /\ GoodTable(u)
               /\ u.active = t.active
               /\ u.cookie = [t.cookie EXCEPT ![h] = cookie]
               /\ u.msg_id = t.msg_id
  <1> DEFINE u == sea_ht_set_cookie(t, h, cookie)
  <1>1. trusty_set_cookie(t, h, cookie).tab = u
    BY DEF trusty_set_cookie
  <1>2. /\ u \in Table
        /\ u.active = t.active
        /\ u.cookie = [t.cookie EXCEPT ![h] = cookie]
        /\ u.g_active_phandles = t.g_active_phandles
        /\ u.g_active_chandles = t.g_active_chandles
        /\ u.msg_id = t.msg_id
    BY SetCookieEffect DEF GoodTable
  <1> QED  BY <1>1, <1>2 DEF GoodTable, CountersAgree

\* The event of a handle names the handle and carries its cookie.
LEMMA EventResult ==
    ASSUME NEW t, GoodTable(t), NEW h \in Handle, NEW bits, NEW id \in Nat,
           NEW len \in Nat
    PROVE  LET e == EventOn(t, h, bits, id, len)
           IN  /\ e.handle = h
               /\ e.cookie = t.cookie[h]
               /\ e.event = bits
               /\ GoodTable(e.tab)
               /\ SameHandles(t, e.tab)
               /\ \A c \in Chan : (c # h \/ "MSG" \notin bits)
                     => e.tab.msg_id[c] = t.msg_id[c]
  <1> DEFINE e == EventOn(t, h, bits, id, len)
             u == IF "MSG" \in bits THEN sea_ht_new_nd_msg(t, h, id, len) ELSE t
  <1>1. /\ e.handle = h
        /\ e.cookie = t.cookie[h]
        /\ e.event = bits
        /\ e.tab = u
    BY DEF EventOn, sea_ht_get_cookie
  <1>2. u \in Table /\ SameHandles(t, u)
    <2>1. CASE "MSG" \in bits
      <3>1. u = sea_ht_new_nd_msg(t, h, id, len)
        BY <2>1
      <3> QED  BY <3>1, NewMsgEffect DEF GoodTable, SameHandles
    <2>2. CASE "MSG" \notin bits
      BY <2>2 DEF GoodTable, SameHandles
    <2> QED  BY <2>1, <2>2
  <1>3. \A c \in Chan : (c # h \/ "MSG" \notin bits) => u.msg_id[c] = t.msg_id[c]
    BY DEF sea_ht_new_nd_msg, GoodTable, Table
  <1>4. GoodTable(u)
    BY <1>2, SameHandlesGood
  <1> HIDE DEF u
  <1> QED  BY <1>1, <1>2, <1>3, <1>4

\* put_msg fails and changes nothing, or retires the message.
LEMMA PutResult ==
    ASSUME NEW t, GoodTable(t), NEW h \in Chan, NEW r \in trusty_put_msg(t, h)
    PROVE  /\ GoodTable(r.tab)
           /\ SameHandles(t, r.tab)
           /\ \A c \in Chan : c # h => r.tab.msg_id[c] = t.msg_id[c]
           /\ r.rc = NO_ERROR => r.tab.msg_id[h] = INVALID_IPC_MSG_ID
  <1>1. CASE \E e \in IpcErr : r = [rc |-> e, tab |-> t]
    <2>1. r.tab = t /\ r.rc # NO_ERROR
      BY <1>1 DEF IpcErr, ERR_GENERIC, ERR_NO_MSG, NO_ERROR
    <2> QED  BY <2>1 DEF SameHandles
  <1>2. CASE r = [rc |-> NO_ERROR,
                  tab |-> sea_ht_set_msg_id(t, h, INVALID_IPC_MSG_ID)]
    <2>1. r.tab = sea_ht_set_msg_id(t, h, INVALID_IPC_MSG_ID)
      BY <1>2
    <2>2. r.tab = [t EXCEPT !.msg_id[h] = INVALID_IPC_MSG_ID]
      BY <2>1 DEF sea_ht_set_msg_id
    <2>3. INVALID_IPC_MSG_ID \in Nat
      BY DEF INVALID_IPC_MSG_ID
    <2>4. r.tab \in Table /\ SameHandles(t, r.tab)
      BY <2>1, <2>3, SetMsgIdEffect DEF GoodTable, SameHandles
    <2>5. /\ \A c \in Chan : c # h => r.tab.msg_id[c] = t.msg_id[c]
          /\ r.tab.msg_id[h] = INVALID_IPC_MSG_ID
      BY <2>2 DEF GoodTable, Table
    <2> QED  BY <2>4, <2>5, SameHandlesGood
  <1> QED  BY <1>1, <1>2 DEF trusty_put_msg

\* A message that is not there cannot be read.
LEMMA ReadAbsent ==
    ASSUME NEW t, NEW h \in Chan, NEW id \in Nat, NEW iov,
           t.msg_id[h] # id
    PROVE  trusty_read_msg(t, h, id, 0, iov).rc < NO_ERROR
  BY DEF trusty_read_msg, sea_ht_get_msg_id, ERR_GENERIC, NO_ERROR

\* What read_msg returns is a number, for one buffer and for two.
LEMMA ReadReturnsInt ==
    ASSUME NEW t, GoodTable(t), NEW h, NEW id,
           NEW iov \in [1..1 -> Nat] \cup [1..2 -> Nat]
    PROVE  trusty_read_msg(t, h, id, 0, iov).rc \in Int
  <1> DEFINE len  == sea_ht_get_msg_len(t, h) - 0
             rest == len - iov[1]
  <1>1. len \in Int
    BY DEF sea_ht_get_msg_len, GoodTable, Table
  <1>2. iov[1] \in Int /\ (DOMAIN iov # {1} => iov[2] \in Int)
    <2>1. CASE iov \in [1..1 -> Nat]
      <3>1. DOMAIN iov = {1} /\ 1 \in 1..1
        BY <2>1
      <3> QED  BY <2>1, <3>1
    <2>2. CASE iov \in [1..2 -> Nat]
      BY <2>2
    <2> QED  BY <2>1, <2>2
  <1> DEFINE rc == trusty_read_msg(t, h, id, 0, iov).rc
  <1>3. \/ rc = ERR_GENERIC
        \/ rc = len
        \/ rc = iov[1]
        \/ DOMAIN iov # {1} /\ (rc = iov[1] + rest \/ rc = iov[1] + iov[2])
    BY DEF trusty_read_msg
  <1> HIDE DEF rc, len
  <1>4. ERR_GENERIC \in Int
    BY DEF ERR_GENERIC
  <1> QED  BY <1>1, <1>2, <1>3, <1>4 DEF rc

===============================================================================
