------------------------ MODULE KeymasterCommandsProofs ------------------------
(***************************************************************************)
(* Proofs about KeymasterCommands: type correctness, the life cycle of the *)
(* device, and the STOP bit, for every size of buffers and responses.      *)
(*                                                                         *)
(* The life cycle is inductive together with the fact that the device's    *)
(* own record of configure agrees with what Configure returned.  For the   *)
(* STOP bit the strengthening says that while there is more to send, no    *)
(* message has it yet, and that the command carries it only when the next  *)
(* chunk is the last one.  That the messages are the whole response needs  *)
(* that they join up, and end where the next chunk begins.                 *)
(***************************************************************************)
EXTENDS KeymasterCommands, TLAPS

DeviceInv ==
    /\ configured = configure_error
    /\ configure_error \in {"none", "OK", "FAILED"}
    /\ ran \in [op : Dispatched \cup {"none"}, after : {"none", "OK", "FAILED"}]
    /\ DeviceLifecycle

Messages == [from : Nat, len : 0..max_msg_size, stop : BOOLEAN]

ResponseType ==
    /\ pc \in {"idle", "send", "wait"}
    /\ stop \in BOOLEAN
    /\ out_buf_size \in Nat
    /\ bytes_remaining \in 0..out_buf_size
    /\ received \in Seq(Messages)
    /\ skipped \in BOOLEAN
    /\ rc \in Result

StopInv ==
    /\ \A i \in DOMAIN received : received[i].stop => i = Len(received)
    /\ pc # "idle" => /\ \A i \in DOMAIN received : ~ received[i].stop
                      /\ stop => bytes_remaining <= max_msg_size

JoinInv ==
    /\ ~ skipped => /\ Contiguous
                    /\ IF received = <<>> THEN bytes_sent = 0
                       ELSE End(received[Len(received)]) = bytes_sent
    /\ (received # <<>> /\ received[Len(received)].stop) => bytes_remaining = 0

ResponseInv == ResponseType /\ StopInv /\ JoinInv /\ SentMeansEnded

IInv == DeviceInv /\ ResponseInv

-------------------------------------------------------------------------------

\* A dispatch runs an operation only if MayDispatch lets it, notes a configure
\* on the device exactly when the operation ran, and gives a size.
LEMMA Dispatches ==
    ASSUME NEW cmd \in KeymasterCommand,
           NEW r \in keymaster_dispatch_secure(cmd) \cup keymaster_dispatch_non_secure(cmd)
    PROVE  /\ r.size \in Nat
           /\ r.error \in {"OK", "FAILED"}
           /\ r.ran => MayDispatch(cmd) = "NO_ERROR" /\ cmd \in Dispatched
           /\ r.noted = (r.ran /\ cmd = "KM_CONFIGURE")
           /\ r.rc = "NO_ERROR" => cmd # "OTHER|STOP"
<1> USE CommandConstants
<1>1. CASE r \in keymaster_dispatch_secure(cmd)
  <2>1. CASE \E err \in {"ERR_GENERIC", "ERR_NOT_ENOUGH_BUFFER", "ERR_NO_MEMORY",
                         "ERR_NOT_IMPLEMENTED"} : r = Refused(err)
    <3>1. r.size = 0 /\ r.error = "OK" /\ r.ran = FALSE /\ r.noted = FALSE
      BY <2>1 DEF Refused
    <3>2. r.rc # "NO_ERROR"
      BY <2>1 DEF Refused
    <3>3. r.noted = (r.ran /\ cmd = "KM_CONFIGURE")
      BY <3>1, Zenon
    <3>4. r.size \in Nat /\ ~ r.ran
      BY <3>1
    <3> QED
      BY <3>1, <3>2, <3>3, <3>4, Zenon
  <2>2. CASE /\ cmd = "KM_GET_AUTH_TOKEN_KEY"
             /\ \E n \in ResponseSize : r = [Refused("NO_ERROR") EXCEPT !.size = n]
    BY <2>2 DEF Refused
  <2> QED
    BY <1>1, <2>1, <2>2 DEF keymaster_dispatch_secure, get_auth_token_key
<1>2. CASE r \in keymaster_dispatch_non_secure(cmd)
  <2>1. CASE r = Refused(MayDispatch(cmd)) /\ MayDispatch(cmd) # "NO_ERROR"
    BY <2>1 DEF Refused
  <2>2. CASE r = Refused("ERR_NOT_IMPLEMENTED")
    BY <2>2 DEF Refused
  <2>3. CASE MayDispatch(cmd) = "NO_ERROR" /\ cmd \in Dispatched /\ r \in do_dispatch(cmd)
    <3>1. cmd # "OTHER|STOP"
      BY <2>3 DEF Dispatched, Bootloader
    <3>2. PICK err \in deserialize_request(cmd), s \in serialize_response, e \in {"OK", "FAILED"} :
             r = IF err # "NO_ERROR" THEN Refused(err)
                 ELSE [rc |-> s.rc, size |-> s.size, ran |-> TRUE, error |-> e,
                       noted |-> cmd = "KM_CONFIGURE"]
      BY <2>3 DEF do_dispatch
    <3>3. s.size \in Nat
      BY DEF serialize_response
    <3> QED
      BY <2>3, <3>1, <3>2, <3>3 DEF Refused
  <2> QED
    BY <1>2, <2>1, <2>2, <2>3 DEF keymaster_dispatch_non_secure
<1> QED
  BY <1>1, <1>2

\* What a step of handle_msg leads to.
LEMMA Handled ==
    ASSUME NEW cmd \in KeymasterCommand,
           \/ HandleMsg(cmd, keymaster_dispatch_secure(cmd))
           \/ HandleMsg(cmd, keymaster_dispatch_non_secure(cmd))
    PROVE  \E r \in keymaster_dispatch_secure(cmd) \cup keymaster_dispatch_non_secure(cmd) :
              HandleMsg(cmd, {r})
BY DEF HandleMsg

LEMMA DeviceKept ==
    ASSUME DeviceInv, NEW cmd \in KeymasterCommand,
           NEW r \in keymaster_dispatch_secure(cmd) \cup keymaster_dispatch_non_secure(cmd),
           HandleMsg(cmd, {r})
    PROVE  DeviceInv'
<1>1. /\ r.error \in {"OK", "FAILED"}
      /\ r.ran => MayDispatch(cmd) = "NO_ERROR" /\ cmd \in Dispatched
      /\ r.noted = (r.ran /\ cmd = "KM_CONFIGURE")
  BY Dispatches
<1>2. /\ ran' = IF r.ran THEN [op |-> cmd, after |-> configured] ELSE ran
      /\ configured' = IF r.ran /\ cmd = "KM_CONFIGURE" THEN r.error ELSE configured
      /\ configure_error' = IF r.noted THEN r.error ELSE configure_error
  BY DEF HandleMsg
<1>3. /\ (configured = configure_error)'
      /\ (configure_error \in {"none", "OK", "FAILED"})'
  BY <1>1, <1>2 DEF DeviceInv
<1>4. CASE ~ r.ran
  BY <1>2, <1>3, <1>4 DEF DeviceInv, DeviceLifecycle
<1>5. CASE r.ran
  <2>1. ran' = [op |-> cmd, after |-> configure_error]
    BY <1>2, <1>5 DEF DeviceInv
  <2>2. (ran \in [op : Dispatched \cup {"none"}, after : {"none", "OK", "FAILED"}])'
    BY <1>1, <1>5, <2>1 DEF DeviceInv
  <2>3. MayDispatch(cmd) = "NO_ERROR"
    BY <1>1, <1>5
  <2>4. CASE cmd = "KM_GET_VERSION"
    BY <1>3, <2>1, <2>2, <2>4 DEF DeviceInv, DeviceLifecycle, Bootloader
  <2>5. CASE cmd # "KM_GET_VERSION"
    <3>1. configure_error = "none" => cmd \in Bootloader \cup {"KM_CONFIGURE"}
      BY <2>3, <2>5 DEF MayDispatch, cmd_allowed_before_configure, cmd_is_from_bootloader
    <3>2. configure_error # "FAILED"
      BY <2>3, <2>5 DEF MayDispatch
    <3>3. configure_error = "OK" => cmd \notin Bootloader
      BY <2>3, <2>5 DEF MayDispatch, cmd_is_from_bootloader
    <3> QED
      BY <1>3, <2>1, <2>2, <3>1, <3>2, <3>3 DEF DeviceInv, DeviceLifecycle
  <2> QED
    BY <2>4, <2>5
<1> QED
  BY <1>4, <1>5

LEMMA ResponseStarts ==
    ASSUME NEW cmd \in KeymasterCommand, ResponseInv,
           NEW r \in keymaster_dispatch_secure(cmd) \cup keymaster_dispatch_non_secure(cmd),
           HandleMsg(cmd, {r})
    PROVE  ResponseInv'
<1> DEFINE size == IF r.rc = "NO_ERROR" THEN r.size ELSE ERROR_SIZE
<1>1. size \in Nat /\ (cmd = "OTHER|STOP" => size <= max_msg_size)
  BY Dispatches, CommandConstants DEF max_msg_size
<1>2. StartResponse(cmd, size)
  BY DEF HandleMsg
<1>3. /\ pc' = "send" /\ stop' = (cmd = "OTHER|STOP")
      /\ out_buf_size' = size /\ bytes_remaining' = size
      /\ received' = <<>> /\ skipped' = FALSE /\ rc' = rc
  BY <1>2 DEF StartResponse
<1> HIDE DEF size
<1>4. ResponseType'
  <2>1. received' \in Seq(Messages')
    BY <1>3
  <2>2. out_buf_size' \in Nat /\ bytes_remaining' \in 0..out_buf_size'
    <3>1. out_buf_size' = size /\ bytes_remaining' = size
      BY <1>3
    <3> QED
      BY <1>1, <3>1
  <2>3. rc \in Result
    BY DEF ResponseInv, ResponseType
  <2> QED
    BY <1>3, <2>1, <2>2, <2>3, Zenon DEF ResponseType
<1>5. StopInv'
  <2>1. \A i \in DOMAIN received' : FALSE
    BY <1>3
  <2> QED
    BY <1>1, <1>3, <2>1 DEF StopInv, max_msg_size
<1>6. SentMeansEnded'
  BY <1>3 DEF SentMeansEnded
<1>7. JoinInv'
  <2>1. \A i \in DOMAIN received' : FALSE
    BY <1>3
  <2>2. Contiguous'
    BY <2>1 DEF Contiguous
  <2>3. (bytes_sent = 0)'
    BY <1>1, <1>3 DEF bytes_sent
  <2> QED
    BY <1>3, <2>2, <2>3 DEF JoinInv
<1> QED
  BY <1>4, <1>5, <1>6, <1>7 DEF ResponseInv

-------------------------------------------------------------------------------
(* The steps of send_response.                                             *)

\* The size of a chunk; it is the rest exactly when STOP is due.
LEMMA ChunkSize ==
    ASSUME ResponseType
    PROVE  /\ max_msg_size \in Nat
           /\ msg_size \in 0..max_msg_size
           /\ bytes_remaining - msg_size \in 0..out_buf_size
           /\ bytes_remaining - msg_size = 0 <=> msg_size = bytes_remaining
           /\ msg_size = bytes_remaining <=> bytes_remaining <= max_msg_size
           /\ bytes_sent \in Nat
           /\ StopBit \in BOOLEAN
           /\ Chunk \in Messages
<1>1. max_msg_size \in Nat
  BY CommandConstants DEF max_msg_size
<1>2. bytes_remaining \in Nat /\ out_buf_size \in Nat /\ bytes_remaining <= out_buf_size
  BY DEF ResponseType
<1>3. /\ msg_size \in 0..max_msg_size
      /\ bytes_remaining - msg_size \in 0..out_buf_size
      /\ bytes_remaining - msg_size = 0 <=> msg_size = bytes_remaining
      /\ msg_size = bytes_remaining <=> bytes_remaining <= max_msg_size
  BY <1>1, <1>2 DEF msg_size
<1>4. StopBit \in BOOLEAN
  BY DEF StopBit, ResponseType
<1>5. bytes_sent \in Nat
  BY <1>2 DEF bytes_sent
<1> QED
  BY <1>1, <1>3, <1>4, <1>5 DEF Chunk, Messages

LEMMA ChunkSent ==
    ASSUME ResponseInv, pc # "idle", SendChunk,
           stop' = StopBit \/ (stop' = stop /\ pc = "wait"),
           UNCHANGED out_buf_size
    PROVE  ResponseInv'
<1>1. ResponseType /\ StopInv
  BY DEF ResponseInv
<1>2. /\ received' = Append(received, Chunk)
      /\ bytes_remaining' = bytes_remaining - msg_size
      /\ skipped' = skipped
      /\ IF bytes_remaining' = 0 THEN pc' = "idle" /\ rc' = "NO_ERROR"
         ELSE pc' = "send" /\ rc' = rc
  BY DEF SendChunk, NextChunk
<1>3. stop' \in BOOLEAN
  BY <1>1, ChunkSize DEF ResponseType
<1>4. ResponseType'
  BY <1>1, <1>2, <1>3, ChunkSize DEF ResponseType, Result
<1>5. /\ received \in Seq(Messages) /\ received' \in Seq(Messages)
      /\ Len(received') = Len(received) + 1
      /\ DOMAIN received' = 1..Len(received) + 1
      /\ \A i \in 1..Len(received) : received'[i] = received[i]
      /\ received'[Len(received) + 1] = Chunk
  BY <1>1, <1>2, <1>4 DEF ResponseType
<1>6. \A i \in DOMAIN received : ~ received[i].stop
  BY <1>1 DEF StopInv
<1>7. \A i \in DOMAIN received' : received'[i].stop => i = Len(received')
  BY <1>5, <1>6
<1>8. bytes_remaining' # 0 => ~ StopBit
  BY <1>1, <1>2, ChunkSize DEF StopBit, StopInv, ResponseType
<1>9. StopInv'
  <2>1. CASE bytes_remaining' = 0
    BY <1>2, <1>7, <2>1 DEF StopInv
  <2>2. CASE bytes_remaining' # 0
    <3>1. \A i \in DOMAIN received' : ~ received'[i].stop
      BY <1>5, <1>6, <1>8, <2>2 DEF Chunk
    <3>2. ~ stop'
      BY <1>8, <2>2 DEF StopBit
    <3> QED
      BY <1>7, <3>1, <3>2 DEF StopInv, max_msg_size
  <2> QED
    BY <2>1, <2>2
<1>10. SentMeansEnded'
  <2>1. CASE bytes_remaining' = 0
    <3>1. StopBit
      BY <1>1, <1>2, <2>1, ChunkSize DEF StopBit
    <3>2. received' # <<>> /\ Last(received') = Chunk
      BY <1>5 DEF Last
    <3> QED
      BY <3>1, <3>2 DEF SentMeansEnded, Chunk
  <2>2. CASE bytes_remaining' # 0
    BY <1>2, <2>2 DEF SentMeansEnded
  <2> QED
    BY <2>1, <2>2
<1>11. JoinInv'
  <2>1. received'[Len(received')] = Chunk /\ received' # <<>>
    BY <1>5
  <2>2. Chunk.from = bytes_sent /\ Chunk.len = msg_size /\ Chunk.stop = StopBit
    BY DEF Chunk
  <2>3. (bytes_sent)' = bytes_sent + msg_size
    BY <1>1, <1>2, ChunkSize DEF bytes_sent, ResponseType
  <2>4. End(Chunk) = (bytes_sent)'
    BY <2>2, <2>3 DEF End
  <2>5. StopBit => bytes_remaining' = 0
    BY <1>8
  <2>6. ASSUME ~ skipped PROVE Contiguous'
    <3>1. /\ Contiguous
          /\ IF received = <<>> THEN bytes_sent = 0
             ELSE End(received[Len(received)]) = bytes_sent
      BY <2>6 DEF ResponseInv, JoinInv
    <3> SUFFICES ASSUME NEW i \in 1..Len(received) + 1
                 PROVE  received'[i].from = IF i = 1 THEN 0 ELSE End(received'[i - 1])
      BY <1>5 DEF Contiguous, End
    <3>2. Len(received) \in Nat /\ DOMAIN received = 1..Len(received)
      BY <1>5
    <3>3. CASE i \in 1..Len(received)
      <4>1. received'[i] = received[i]
        BY <1>5, <3>3
      <4>2. i # 1 => received'[i - 1] = received[i - 1]
        BY <1>5, <3>2, <3>3
      <4> QED
        BY <3>1, <3>2, <3>3, <4>1, <4>2 DEF Contiguous
    <3>4. CASE i = Len(received) + 1
      <4>1. received'[i].from = bytes_sent
        BY <1>5, <2>2, <3>4
      <4>2. CASE received = <<>>
        BY <3>1, <3>4, <4>1, <4>2
      <4>3. CASE received # <<>>
        <5>1. i # 1 /\ i - 1 = Len(received) /\ Len(received) \in 1..Len(received)
          BY <1>5, <3>2, <3>4, <4>3
        <5>2. received'[i - 1] = received[Len(received)]
          BY <1>5, <5>1
        <5> QED
          BY <3>1, <4>1, <4>3, <5>1, <5>2
      <4> QED
        BY <4>2, <4>3
    <3> QED
      BY <3>2, <3>3, <3>4
  <2> QED
    BY <1>2, <2>1, <2>2, <2>4, <2>5, <2>6 DEF JoinInv, End
<1> QED
  BY <1>4, <1>9, <1>10, <1>11 DEF ResponseInv

LEMMA Failed ==
    ASSUME ResponseInv, NEW err \in Result \ {"NO_ERROR"}, Fail(err),
           stop' \in BOOLEAN, UNCHANGED out_buf_size
    PROVE  ResponseInv'
<1>1. /\ pc' = "idle" /\ rc' = err
      /\ UNCHANGED <<bytes_remaining, received, skipped>>
  BY DEF Fail
<1>2. ResponseType' /\ StopInv' /\ SentMeansEnded'
  BY <1>1 DEF ResponseInv, ResponseType, StopInv, SentMeansEnded
<1>3. JoinInv'
  BY <1>1 DEF ResponseInv, JoinInv, Contiguous, End, bytes_sent
<1> QED
  BY <1>2, <1>3 DEF ResponseInv

LEMMA SendKeeps ==
    ASSUME ResponseInv, Send
    PROVE  ResponseInv'
<1>1. ResponseType /\ StopInv /\ StopBit \in BOOLEAN
  BY ChunkSize DEF ResponseInv
<1>2. pc = "send" /\ stop' = StopBit /\ UNCHANGED out_buf_size
  BY DEF Send
<1>3. CASE SendChunk
  BY <1>2, <1>3, ChunkSent
<1>4. CASE pc' = "wait" /\ UNCHANGED <<bytes_remaining, received, skipped, rc>>
  <2>1. stop' => bytes_remaining <= max_msg_size
    BY <1>1, <1>2, ChunkSize DEF StopBit, StopInv
  <2>2. ResponseType'
    BY <1>1, <1>2, <1>4 DEF ResponseType
  <2>3. StopInv'
    BY <1>1, <1>2, <1>4, <2>1 DEF StopInv, max_msg_size
  <2>4. SentMeansEnded'
    BY <1>4 DEF SentMeansEnded
  <2>5. JoinInv'
    BY <1>2, <1>4 DEF ResponseInv, JoinInv, Contiguous, End, bytes_sent
  <2> QED
    BY <2>2, <2>3, <2>4, <2>5 DEF ResponseInv
<1>5. CASE Fail("ERR_GENERIC")
  BY <1>1, <1>2, <1>5, Failed DEF Result
<1> QED
  BY <1>3, <1>4, <1>5 DEF Send

LEMMA WaitKeeps ==
    ASSUME ResponseInv, Wait
    PROVE  ResponseInv'
<1>1. pc = "wait" /\ stop' = stop /\ UNCHANGED out_buf_size
  BY DEF Wait
<1>2. ResponseType /\ StopInv /\ stop' \in BOOLEAN
  BY <1>1 DEF ResponseInv, ResponseType
<1>3. ASSUME NEW err \in {"ERR_GENERIC", "ERR_NOT_ENOUGH_BUFFER", "ERR_BUSY",
                          "ERR_CHANNEL_CLOSED"}, Fail(err)
      PROVE  ResponseInv'
  BY <1>1, <1>2, <1>3, Failed DEF Result
<1>4. CASE SendChunk
  BY <1>1, <1>4, ChunkSent
<1>5. CASE skipped' = TRUE /\ UNCHANGED received /\ NextChunk
  <2>1. /\ bytes_remaining' = bytes_remaining - msg_size
        /\ IF bytes_remaining' = 0 THEN pc' = "idle" /\ rc' = "NO_ERROR"
           ELSE pc' = "send" /\ rc' = rc
    BY <1>5 DEF NextChunk
  <2>2. ResponseType'
    BY <1>1, <1>2, <1>5, <2>1, ChunkSize DEF ResponseType, Result
  <2>3. bytes_remaining' # 0 => ~ stop'
    BY <1>1, <1>2, <2>1, ChunkSize DEF StopInv, ResponseType
  <2>4. StopInv'
    BY <1>1, <1>2, <1>5, <2>1, <2>3 DEF StopInv, max_msg_size
  <2>5. SentMeansEnded'
    BY <1>5 DEF SentMeansEnded
  <2>6. received # <<>> => ~ received[Len(received)].stop
    <3>1. \A i \in DOMAIN received : ~ received[i].stop
      BY <1>1, <1>2 DEF StopInv
    <3> QED
      BY <1>2, <3>1 DEF ResponseType
  <2>7. JoinInv'
    BY <1>5, <2>6 DEF JoinInv
  <2> QED
    BY <2>2, <2>4, <2>5, <2>7 DEF ResponseInv
<1> QED
  BY <1>3, <1>4, <1>5 DEF Wait, wait_to_send

-------------------------------------------------------------------------------

LEMMA Unchanged ==
    ASSUME IInv, UNCHANGED vars
    PROVE  IInv'
BY DEF IInv, DeviceInv, DeviceLifecycle, ResponseInv, ResponseType, StopInv,
       JoinInv, Contiguous, End, bytes_sent, SentMeansEnded, vars, device, response,
       max_msg_size

\* The inductive invariant: the device's record of configure is that of
\* Configure, what it ran follows its life cycle, and the STOP bit is where it
\* belongs at every point of send_response.
THEOREM Invariance == Spec => []IInv
<1>1. Init => IInv
  <2> SUFFICES ASSUME Init PROVE IInv
    OBVIOUS
  <2>1. DeviceInv
    BY DEF Init, DeviceInv, DeviceLifecycle
  <2>2. ResponseType
    <3>1. received \in Seq(Messages)
      BY DEF Init
    <3>2. out_buf_size = 0 /\ bytes_remaining = 0
      BY DEF Init
    <3>3. out_buf_size \in Nat /\ bytes_remaining \in 0..out_buf_size
      BY <3>2
    <3> QED
      BY <3>1, <3>3, Zenon DEF Init, Result, ResponseType
  <2>3. StopInv
    BY DEF Init, StopInv
  <2>4. SentMeansEnded
    BY DEF Init, SentMeansEnded
  <2>5. JoinInv
    BY DEF Init, JoinInv, Contiguous, bytes_sent
  <2> QED
    BY <2>1, <2>2, <2>3, <2>4, <2>5 DEF IInv, ResponseInv
<1>2. IInv /\ [Next]_vars => IInv'
  <2> SUFFICES ASSUME IInv, [Next]_vars PROVE IInv'
    OBVIOUS
  <2>1. CASE \E cmd \in KeymasterCommand :
               \/ HandleMsg(cmd, keymaster_dispatch_secure(cmd))
               \/ HandleMsg(cmd, keymaster_dispatch_non_secure(cmd))
    BY <2>1, Handled, DeviceKept, ResponseStarts DEF IInv
  <2>2. CASE Send
    BY <2>2, SendKeeps DEF IInv, Send, device, DeviceInv, DeviceLifecycle
  <2>3. CASE Wait
    BY <2>3, WaitKeeps DEF IInv, Wait, device, DeviceInv, DeviceLifecycle
  <2>4. CASE UNCHANGED vars
    BY <2>4, Unchanged
  <2> QED
    BY <2>1, <2>2, <2>3, <2>4 DEF Next
<1> QED
  BY <1>1, <1>2, PTL DEF Spec

\* The state of the module has its type, for buffers and responses of any size.
THEOREM CommandsTypeOK == Spec => []TypeOK
<1>1. IInv => TypeOK
  BY DEF IInv, DeviceInv, ResponseInv, ResponseType, Messages, TypeOK
<1> QED
  BY <1>1, Invariance, PTL

\* keymaster_dispatch_non_secure lets the device run what its life cycle
\* allows: bootloader commands before a configure, key operations after a
\* successful one, GET_VERSION alone after a failed one.
THEOREM CommandsDeviceLifecycle == Spec => []DeviceLifecycle
<1>1. IInv => DeviceLifecycle
  BY DEF IInv, DeviceInv
<1> QED
  BY <1>1, Invariance, PTL

\* send_response puts nothing on the channel after a message with STOP, no
\* message is larger than what the ports were created for, and the messages up
\* to the one with STOP are the response, each byte once and in order, unless
\* wait_to_send passed over a chunk.
THEOREM CommandsStopEndsResponse == Spec => []StopEndsResponse
<1>1. IInv => StopIsLast
  <2> SUFFICES ASSUME IInv, NEW i \in DOMAIN received
               PROVE  /\ received[i].len + HEADER <= KEYMASTER_MAX_BUFFER_LENGTH
                      /\ received[i].stop => i = Len(received)
    BY DEF StopIsLast
  <2>1. received[i] \in Messages
    BY DEF IInv, ResponseInv, ResponseType
  <2> QED
    BY <2>1, CommandConstants DEF IInv, ResponseInv, StopInv, Messages, max_msg_size
<1>2. IInv => WholeAtStop
  <2> SUFFICES ASSUME IInv, received # <<>>, Last(received).stop, ~ skipped
               PROVE  Contiguous /\ End(Last(received)) = out_buf_size
    BY DEF WholeAtStop
  <2>1. Last(received) = received[Len(received)]
    BY DEF Last
  <2>2. Contiguous /\ End(received[Len(received)]) = bytes_sent /\ bytes_remaining = 0
    BY <2>1 DEF IInv, ResponseInv, JoinInv
  <2>3. bytes_sent = out_buf_size
    BY <2>2 DEF IInv, ResponseInv, ResponseType, bytes_sent
  <2> QED
    BY <2>1, <2>2, <2>3
<1>3. IInv => StopEndsResponse
  BY <1>1, <1>2 DEF StopEndsResponse
<1> QED
  BY <1>3, Invariance, PTL

\* When send_response returns NO_ERROR, its last message has the STOP bit and is
\* on the channel, unless wait_to_send passed over a chunk.
THEOREM CommandsSentMeansEnded == Spec => []SentMeansEnded
<1>1. IInv => SentMeansEnded
  BY DEF IInv, ResponseInv
<1> QED
  BY <1>1, Invariance, PTL

-------------------------------------------------------------------------------
(* The end of a response.                                                  *)

\* How far send_response is from its end: two steps, a send and a wait, for every
\* byte that remains, and the send of a pass that has not waited yet.
Unwaited == IF pc = "send" THEN 1 ELSE 0

Left == 2 * bytes_remaining + Unwaited

\* Every step of a response ends it or brings it nearer to its end.
ResponseShrinks == [][pc # "idle" => pc' = "idle" \/ Left' < Left]_vars

LEMMA FewerBytes ==
    ASSUME NEW b \in Nat, NEW c \in Nat, c < b, NEW x \in {0, 1}, NEW y \in {0, 1}
    PROVE  2 * c + y < 2 * b + x
  OBVIOUS

LEMMA ChunkShrinks ==
    ASSUME bytes_remaining \in Nat, NextChunk
    PROVE  pc' = "idle" \/ (bytes_remaining' \in Nat /\ bytes_remaining' < bytes_remaining)
<1>1. max_msg_size \in Nat /\ max_msg_size > 0
  BY CommandConstants DEF max_msg_size
<1>2. bytes_remaining' = bytes_remaining - msg_size
  BY DEF NextChunk
<1>3. msg_size \in Nat /\ msg_size <= bytes_remaining
  BY <1>1 DEF msg_size
<1>4. CASE bytes_remaining = 0
  BY <1>2, <1>3, <1>4 DEF NextChunk
<1>5. CASE bytes_remaining > 0
  <2>1. msg_size > 0
    BY <1>1, <1>5 DEF msg_size
  <2> QED  BY <1>2, <1>3, <2>1
<1> QED  BY <1>4, <1>5

\* What ResponseEnds rests on: send_response cannot go round its loop for ever,
\* since no pass leaves as much to send as it found.
THEOREM CommandsResponseShrinks == Spec => ResponseShrinks
<1>1. ASSUME IInv, [Next]_vars
      PROVE  [pc # "idle" => pc' = "idle" \/ Left' < Left]_vars
  <2>1. SUFFICES ASSUME Next, pc # "idle", pc' # "idle"
                 PROVE  Left' < Left
    BY <1>1
  <2>2. bytes_remaining \in Nat
    BY <1>1 DEF IInv, ResponseInv, ResponseType
  <2>3. ASSUME NextChunk
        PROVE  Left' < Left
    <3>1. bytes_remaining' \in Nat /\ bytes_remaining' < bytes_remaining
      BY <2>1, <2>2, <2>3, ChunkShrinks
    <3>2. Unwaited \in {0, 1} /\ Unwaited' \in {0, 1}
      BY DEF Unwaited
    <3> QED  BY <2>2, <3>1, <3>2, FewerBytes DEF Left
  <2>4. CASE Send
    <3>1. NextChunk \/ (pc = "send" /\ pc' = "wait" /\ bytes_remaining' = bytes_remaining)
      BY <2>1, <2>4 DEF Send, SendChunk, Fail
    <3>2. CASE NextChunk
      BY <2>3, <3>2
    <3>3. CASE pc = "send" /\ pc' = "wait" /\ bytes_remaining' = bytes_remaining
      BY <2>2, <3>3 DEF Left, Unwaited
    <3> QED  BY <3>1, <3>2, <3>3
  <2>5. CASE Wait
    <3>1. NextChunk
      BY <2>1, <2>5 DEF Wait, wait_to_send, SendChunk, Fail
    <3> QED  BY <2>3, <3>1
  <2> QED  BY <2>1, <2>4, <2>5 DEF Next, HandleMsg
<1> QED
  BY <1>1, Invariance, PTL DEF Spec, ResponseShrinks

===============================================================================
