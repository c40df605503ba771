------------------------- MODULE SeaHandleTableProofs -------------------------
(***************************************************************************)
(* What the operations of the handle table preserve and change, for every  *)
(* size of the table.  The proofs about the programs that use the table    *)
(* cite these lemmas instead of the definitions of the operations.         *)
(***************************************************************************)
EXTENDS SeaHandleTable, FiniteSetTheorems, TLAPS

\* Ports and channels are disjoint sets of positive numbers.
LEMMA HandleFacts ==
    /\ Port \subseteq Nat \ {0}
    /\ Chan \subseteq Nat \ {0}
    /\ Port \cap Chan = {}
    /\ INVALID_IPC_HANDLE \notin Handle
  BY HandleRanges, InvalidIsNoHandle DEF Port, Chan, Handle

\* What a scan for a free handle finds: a handle of the set scanned, or
\* INVALID_IPC_HANDLE.
LEMMA FirstFound ==
    ASSUME NEW S, NEW h \in First(S)
    PROVE  h = INVALID_IPC_HANDLE \/ h \in S
  BY DEF First

\* port_create finds a port that is not active, of the kind asked for.
LEMMA FreePort ==
    ASSUME NEW t, NEW secure, NEW h \in s_first_available_port_handle(t, secure)
    PROVE  \/ h = INVALID_IPC_HANDLE
           \/ h \in Port /\ h \notin t.active /\ IS_SECURE_IPC_HANDLE(h) = secure
  BY FirstFound DEF s_first_available_port_handle

\* accept and connect find a channel that is not active.
LEMMA FreeChannel ==
    ASSUME NEW t, NEW h \in s_first_available_channel_handle(t)
    PROVE  h = INVALID_IPC_HANDLE \/ (h \in Chan /\ h \notin t.active)
  BY FirstFound DEF s_first_available_channel_handle

-------------------------------------------------------------------------------
(* The initial table, and each operation: type and effect.                 *)

LEMMA InitTableType == InitTable \in Table
  BY HandleRanges, WordHoldsTable DEF InitTable, Table, INVALID_IPC_MSG_ID

LEMMA StepTypes ==
    ASSUME NEW n \in 0 .. WORD - 1
    PROVE  Increment(n) \in 0 .. WORD - 1 /\ Decrement(n) \in 0 .. WORD - 1
  BY WordHoldsTable DEF Increment, Decrement

LEMMA NewPort ==
    ASSUME NEW t \in Table, NEW h \in Port, NEW path \in Char \cup {NUL}
    PROVE  LET u == sea_ht_new_port(t, h, path)
           IN  /\ u \in Table
               /\ u.active = t.active \cup {h}
               /\ u.cookie = t.cookie
               /\ u.g_active_phandles = Increment(t.g_active_phandles)
               /\ u.g_active_chandles = t.g_active_chandles
               /\ u.msg_id = t.msg_id
  BY HandleFacts, StepTypes DEF sea_ht_new_port, Table, Handle

LEMMA NewChannel ==
    ASSUME NEW t \in Table, NEW h \in Chan
    PROVE  LET u == sea_ht_new_channel(t, h)
           IN  /\ u \in Table
               /\ u.active = t.active \cup {h}
               /\ u.cookie = t.cookie
               /\ u.g_active_phandles = t.g_active_phandles
               /\ u.g_active_chandles = Increment(t.g_active_chandles)
               /\ u.msg_id = t.msg_id
  BY HandleFacts, StepTypes DEF sea_ht_new_channel, Table, Handle

LEMMA NewInvalid ==
    ASSUME NEW t, NEW path
    PROVE  /\ sea_ht_new_port(t, INVALID_IPC_HANDLE, path) = t
           /\ sea_ht_new_channel(t, INVALID_IPC_HANDLE) = t
  BY DEF sea_ht_new_port, sea_ht_new_channel

LEMMA FreePortHandle ==
    ASSUME NEW t \in Table, NEW h \in Port
    PROVE  LET u == sea_ht_free(t, h)
           IN  /\ u \in Table
               /\ u.active = t.active \ {h}
               /\ u.cookie = t.cookie
               /\ u.g_active_phandles = Decrement(t.g_active_phandles)
               /\ u.g_active_chandles = t.g_active_chandles
               /\ u.msg_id = t.msg_id
  <1>1. sea_ht_free(t, h) = [t EXCEPT !.active = @ \ {h},
                                      !.g_active_phandles = Decrement(@)]
    BY HandleFacts DEF sea_ht_free
  <1> QED  BY <1>1, StepTypes DEF Table

LEMMA FreeChannelHandle ==
    ASSUME NEW t \in Table, NEW h \in Chan
    PROVE  LET u == sea_ht_free(t, h)
           IN  /\ u \in Table
               /\ u.active = t.active \ {h}
               /\ u.cookie = t.cookie
               /\ u.g_active_phandles = t.g_active_phandles
               /\ u.g_active_chandles = Decrement(t.g_active_chandles)
               /\ u.msg_id = t.msg_id
  <1>1. sea_ht_free(t, h) = [t EXCEPT !.active = @ \ {h},
                                      !.g_active_chandles = Decrement(@)]
    BY HandleFacts DEF sea_ht_free
  <1> QED  BY <1>1, StepTypes DEF Table

LEMMA FreeInvalid ==
    ASSUME NEW t
    PROVE  sea_ht_free(t, INVALID_IPC_HANDLE) = t
  BY HandleFacts DEF sea_ht_free, Handle

LEMMA SetCookieEffect ==
    ASSUME NEW t \in Table, NEW h \in Handle, NEW cookie \in Cookie \cup {NULL}
    PROVE  LET u == sea_ht_set_cookie(t, h, cookie)
           IN  /\ u \in Table
               /\ u.active = t.active
               /\ u.cookie = [t.cookie EXCEPT ![h] = cookie]
               /\ u.g_active_phandles = t.g_active_phandles
               /\ u.g_active_chandles = t.g_active_chandles
               /\ u.msg_id = t.msg_id
  BY DEF sea_ht_set_cookie, Table

\* Messages come and go without touching handles, cookies and counters.
LEMMA NewMsgEffect ==
    ASSUME NEW t \in Table, NEW h, NEW id \in Nat, NEW len \in Nat
    PROVE  LET u == sea_ht_new_nd_msg(t, h, id, len)
           IN  /\ u \in Table
               /\ u.active = t.active
               /\ u.cookie = t.cookie
               /\ u.g_active_phandles = t.g_active_phandles
               /\ u.g_active_chandles = t.g_active_chandles
  <1>1. CASE h \in Chan
    BY <1>1 DEF sea_ht_new_nd_msg, Table
  <1>2. CASE h \notin Chan
    BY <1>2 DEF sea_ht_new_nd_msg
  <1> QED  BY <1>1, <1>2

LEMMA SetMsgIdEffect ==
    ASSUME NEW t \in Table, NEW h, NEW id \in Nat
    PROVE  LET u == sea_ht_set_msg_id(t, h, id)
           IN  /\ u \in Table
               /\ u.active = t.active
               /\ u.cookie = t.cookie
               /\ u.g_active_phandles = t.g_active_phandles
               /\ u.g_active_chandles = t.g_active_chandles
  <1>1. CASE h \in Chan
    BY <1>1 DEF sea_ht_set_msg_id, Table
  <1>2. CASE h \notin Chan
    BY <1>2 DEF sea_ht_set_msg_id
  <1> QED  BY <1>1, <1>2

-------------------------------------------------------------------------------
(* The counters.                                                           *)

\* The table never holds as many handles as a counter has values.
LEMMA TableFitsWord ==
    ASSUME NEW S \in SUBSET Handle
    PROVE  /\ IsFiniteSet(S)
           /\ Cardinality(S \cap Port) \in Nat
           /\ Cardinality(S \cap Port) < WORD
           /\ Cardinality(S \cap Chan) \in Nat
           /\ Cardinality(S \cap Chan) < WORD
           /\ IsFiniteSet(S \cap Port)
           /\ IsFiniteSet(S \cap Chan)
  <1>1. /\ IsFiniteSet(Port) /\ Cardinality(Port) < WORD
        /\ IsFiniteSet(Chan) /\ Cardinality(Chan) < WORD
    <2>1. /\ PORT_HANDLE_MIN \in Int /\ PORT_HANDLE_MAX \in Int
          /\ CHAN_HANDLE_MIN \in Int /\ CHAN_HANDLE_MAX \in Int
      BY HandleRanges
    <2>2. /\ IsFiniteSet(Port)
          /\ Cardinality(Port) = PORT_HANDLE_MAX - PORT_HANDLE_MIN + 1
      BY <2>1, HandleRanges, FS_Interval DEF Port
    <2>3. /\ IsFiniteSet(Chan)
          /\ Cardinality(Chan) = CHAN_HANDLE_MAX - CHAN_HANDLE_MIN + 1
      BY <2>1, HandleRanges, FS_Interval DEF Chan
    <2> QED  BY <2>2, <2>3, HandleRanges, WordHoldsTable
  <1>2. /\ IsFiniteSet(S \cap Port) /\ Cardinality(S \cap Port) <= Cardinality(Port)
        /\ IsFiniteSet(S \cap Chan) /\ Cardinality(S \cap Chan) <= Cardinality(Chan)
    <2>1. S \cap Port \in SUBSET Port /\ S \cap Chan \in SUBSET Chan
      OBVIOUS
    <2> QED  BY <1>1, <2>1, FS_Subset
  <1>3. S \subseteq Port \cup Chan /\ IsFiniteSet(Port \cup Chan)
    BY <1>1, FS_Union DEF Handle
  <1>4. /\ Cardinality(S \cap Port) \in Nat /\ Cardinality(S \cap Chan) \in Nat
        /\ Cardinality(Port) \in Nat /\ Cardinality(Chan) \in Nat
    BY <1>1, <1>2, FS_CardinalityType
  <1> QED  BY <1>1, <1>2, <1>3, <1>4, FS_Subset, WordHoldsTable

\* An empty table has counters 0.
LEMMA InitTableCounts == CountersAgree(InitTable)
  BY FS_EmptySet DEF CountersAgree, InitTable

\* The next and the previous value of a counter that stays in its range.
LEMMA NoWrap ==
    ASSUME NEW n \in Nat
    PROVE  /\ n + 1 < WORD => Increment(n) = n + 1
           /\ n - 1 \in Nat => Decrement(n) = n - 1
  BY WordHoldsTable DEF Increment, Decrement

\* Counting one handle more is right if the handle was not active.
LEMMA CountAddPort ==
    ASSUME NEW A \in SUBSET Handle, NEW h \in Port, h \notin A
    PROVE  /\ Cardinality((A \cup {h}) \cap Port) = Increment(Cardinality(A \cap Port))
           /\ (A \cup {h}) \cap Chan = A \cap Chan
  <1> DEFINE n == Cardinality(A \cap Port)
  <1>1. A \cup {h} \in SUBSET Handle
    BY DEF Handle
  <1>2. (A \cup {h}) \cap Port = (A \cap Port) \cup {h}
    OBVIOUS
  <1>3. Cardinality((A \cup {h}) \cap Port) = n + 1
    BY <1>2, TableFitsWord, FS_AddElement
  <1>4. n \in Nat /\ n + 1 < WORD
    BY <1>1, <1>3, TableFitsWord
  <1>5. Increment(n) = n + 1
    BY <1>4, NoWrap
  <1> QED  BY <1>3, <1>5, HandleFacts

LEMMA CountAddChan ==
    ASSUME NEW A \in SUBSET Handle, NEW h \in Chan, h \notin A
    PROVE  /\ Cardinality((A \cup {h}) \cap Chan) = Increment(Cardinality(A \cap Chan))
           /\ (A \cup {h}) \cap Port = A \cap Port
  <1> DEFINE n == Cardinality(A \cap Chan)
  <1>1. A \cup {h} \in SUBSET Handle
    BY DEF Handle
  <1>2. (A \cup {h}) \cap Chan = (A \cap Chan) \cup {h}
    OBVIOUS
  <1>3. Cardinality((A \cup {h}) \cap Chan) = n + 1
    BY <1>2, TableFitsWord, FS_AddElement
  <1>4. n \in Nat /\ n + 1 < WORD
    BY <1>1, <1>3, TableFitsWord
  <1>5. Increment(n) = n + 1
    BY <1>4, NoWrap
  <1> QED  BY <1>3, <1>5, HandleFacts

\* Counting one handle less is right if the handle was active.
LEMMA CountRemovePort ==
    ASSUME NEW A \in SUBSET Handle, NEW h \in Port, h \in A
    PROVE  /\ Cardinality((A \ {h}) \cap Port) = Decrement(Cardinality(A \cap Port))
           /\ (A \ {h}) \cap Chan = A \cap Chan
  <1> DEFINE n == Cardinality(A \cap Port)
  <1>1. A \ {h} \in SUBSET Handle
    OBVIOUS
  <1>2. (A \ {h}) \cap Port = (A \cap Port) \ {h}
    OBVIOUS
  <1>3. Cardinality((A \ {h}) \cap Port) = n - 1
    BY <1>2, TableFitsWord, FS_RemoveElement
  <1>4. n \in Nat /\ n - 1 \in Nat
    BY <1>1, <1>3, TableFitsWord
  <1>5. Decrement(n) = n - 1
    BY <1>4, NoWrap
  <1> QED  BY <1>3, <1>5, HandleFacts

LEMMA CountRemoveChan ==
    ASSUME NEW A \in SUBSET Handle, NEW h \in Chan, h \in A
    PROVE  /\ Cardinality((A \ {h}) \cap Chan) = Decrement(Cardinality(A \cap Chan))
           /\ (A \ {h}) \cap Port = A \cap Port
  <1> DEFINE n == Cardinality(A \cap Chan)
  <1>1. A \ {h} \in SUBSET Handle
    OBVIOUS
  <1>2. (A \ {h}) \cap Chan = (A \cap Chan) \ {h}
    OBVIOUS
  <1>3. Cardinality((A \ {h}) \cap Chan) = n - 1
    BY <1>2, TableFitsWord, FS_RemoveElement
  <1>4. n \in Nat /\ n - 1 \in Nat
    BY <1>1, <1>3, TableFitsWord
  <1>5. Decrement(n) = n - 1
    BY <1>4, NoWrap
  <1> QED  BY <1>3, <1>5, HandleFacts

\* Allocation of an inactive handle keeps the counters exact.
LEMMA NewPortCounts ==
    ASSUME NEW t \in Table, CountersAgree(t), NEW path \in Char \cup {NUL},
           NEW h \in Port, h \notin t.active
    PROVE  CountersAgree(sea_ht_new_port(t, h, path))
  <1>1. t.active \in SUBSET Handle
    BY DEF Table
  <1> DEFINE u == sea_ht_new_port(t, h, path)
  <1>2. /\ u.active = t.active \cup {h}
        /\ u.g_active_phandles = Increment(t.g_active_phandles)
        /\ u.g_active_chandles = t.g_active_chandles
    BY NewPort
  <1>3. /\ Cardinality((t.active \cup {h}) \cap Port)
              = Increment(Cardinality(t.active \cap Port))
        /\ (t.active \cup {h}) \cap Chan = t.active \cap Chan
    BY <1>1, CountAddPort
  <1> QED  BY <1>2, <1>3 DEF CountersAgree

LEMMA NewChannelCounts ==
    ASSUME NEW t \in Table, CountersAgree(t), NEW h \in Chan, h \notin t.active
    PROVE  CountersAgree(sea_ht_new_channel(t, h))
  <1>1. t.active \in SUBSET Handle
    BY DEF Table
  <1> DEFINE u == sea_ht_new_channel(t, h)
  <1>2. /\ u.active = t.active \cup {h}
        /\ u.g_active_chandles = Increment(t.g_active_chandles)
        /\ u.g_active_phandles = t.g_active_phandles
    BY NewChannel
  <1>3. /\ Cardinality((t.active \cup {h}) \cap Chan)
              = Increment(Cardinality(t.active \cap Chan))
        /\ (t.active \cup {h}) \cap Port = t.active \cap Port
    BY <1>1, CountAddChan
  <1> QED  BY <1>2, <1>3 DEF CountersAgree

\* So does the release of an active handle.
LEMMA FreeCounts ==
    ASSUME NEW t \in Table, CountersAgree(t), NEW h \in t.active
    PROVE  CountersAgree(sea_ht_free(t, h))
  <1>1. t.active \in SUBSET Handle
    BY DEF Table
  <1> DEFINE u == sea_ht_free(t, h)
  <1>2. CASE h \in Port
    <2>1. /\ u.active = t.active \ {h}
          /\ u.g_active_phandles = Decrement(t.g_active_phandles)
          /\ u.g_active_chandles = t.g_active_chandles
      BY <1>2, FreePortHandle
    <2>2. /\ Cardinality((t.active \ {h}) \cap Port)
                = Decrement(Cardinality(t.active \cap Port))
          /\ (t.active \ {h}) \cap Chan = t.active \cap Chan
      BY <1>2, <1>1, CountRemovePort
    <2> QED  BY <2>1, <2>2 DEF CountersAgree
  <1>3. CASE h \in Chan
    <2>1. /\ u.active = t.active \ {h}
          /\ u.g_active_chandles = Decrement(t.g_active_chandles)
          /\ u.g_active_phandles = t.g_active_phandles
      BY <1>3, FreeChannelHandle
    <2>2. /\ Cardinality((t.active \ {h}) \cap Chan)
                = Decrement(Cardinality(t.active \cap Chan))
          /\ (t.active \ {h}) \cap Port = t.active \cap Port
      BY <1>3, <1>1, CountRemoveChan
    <2> QED  BY <2>1, <2>2 DEF CountersAgree
  <1> QED  BY <1>1, <1>2, <1>3 DEF Handle

===============================================================================
