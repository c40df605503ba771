--------------------------- MODULE KeymasterCommands ---------------------------
(***************************************************************************)
(* The commands of the keymaster application (keymaster_ipc.cpp): which of *)
(* them reach the device, and how a response travels back in chunks.       *)
(*                                                                         *)
(* In this revision the end of handle_msg, which calls ctx->dispatch and   *)
(* sends its answer, is a comment; HandleMsg composes the functions as it  *)
(* says.  TrustyKeymaster, the device, is not in the repository: it keeps  *)
(* the error that set_configure_error is given, and its operations return  *)
(* anything.                                                               *)
(***************************************************************************)
EXTENDS Integers, SequencesExt

CONSTANTS
    KEYMASTER_MAX_BUFFER_LENGTH,
    MARGIN,         \* the 64 bytes of a message that a chunk leaves free
    HEADER,         \* sizeof(keymaster_message)
    ERROR_SIZE,     \* sizeof(keymaster_error_t)
    ResponseSize    \* the sizes of serialized responses

ASSUME CommandConstants ==
    /\ {KEYMASTER_MAX_BUFFER_LENGTH, MARGIN, HEADER, ERROR_SIZE} \subseteq Nat
    /\ MARGIN < KEYMASTER_MAX_BUFFER_LENGTH
    /\ HEADER <= MARGIN
    /\ ERROR_SIZE <= KEYMASTER_MAX_BUFFER_LENGTH - MARGIN
    /\ ResponseSize \subseteq Nat

VARIABLES
    configure_error,   \* of the device; "none" before the first configure
    configured,        \* history: what Configure last returned on the device
    ran,               \* history: the last operation the device ran, and when
    pc,                \* "idle", or where send_response is: "send", "wait"
    stop,              \* km_msg.cmd has KEYMASTER_STOP_BIT
    out_buf_size,
    bytes_remaining,
    received,          \* the messages of the response that are on the channel
    skipped,           \* history: wait_to_send has passed over a chunk
    rc                 \* what the last handle_msg returned, or "none"

device   == <<configure_error, configured, ran>>
response == <<pc, stop, out_buf_size, bytes_remaining, received, skipped, rc>>
vars     == <<device, response>>

Bootloader == {
    "KM_SET_BOOT_PARAMS", "KM_SET_ATTESTATION_KEY",
    "KM_APPEND_ATTESTATION_CERT_CHAIN", "KM_ATAP_GET_CA_REQUEST",
    "KM_ATAP_SET_CA_RESPONSE_BEGIN", "KM_ATAP_SET_CA_RESPONSE_UPDATE",
    "KM_ATAP_SET_CA_RESPONSE_FINISH", "KM_ATAP_READ_UUID", "KM_SET_PRODUCT_ID" }

\* The commands that keymaster_dispatch_non_secure has a case for.
Dispatched == Bootloader \cup {
    "KM_GENERATE_KEY", "KM_BEGIN_OPERATION", "KM_UPDATE_OPERATION",
    "KM_FINISH_OPERATION", "KM_ABORT_OPERATION", "KM_IMPORT_KEY", "KM_EXPORT_KEY",
    "KM_GET_VERSION", "KM_ADD_RNG_ENTROPY", "KM_GET_SUPPORTED_ALGORITHMS",
    "KM_GET_SUPPORTED_BLOCK_MODES", "KM_GET_SUPPORTED_PADDING_MODES",
    "KM_GET_SUPPORTED_DIGESTS", "KM_GET_SUPPORTED_IMPORT_FORMATS",
    "KM_GET_SUPPORTED_EXPORT_FORMATS", "KM_GET_KEY_CHARACTERISTICS",
    "KM_ATTEST_KEY", "KM_UPGRADE_KEY", "KM_CONFIGURE",
    "KM_GET_HMAC_SHARING_PARAMETERS", "KM_COMPUTE_SHARED_HMAC",
    "KM_VERIFY_AUTHORIZATION", "KM_DELETE_KEY", "KM_DELETE_ALL_KEYS",
    "KM_IMPORT_WRAPPED_KEY" }

\* What a client may send: any number.  No command has the two low bits, and a
\* number that is none may have them.
KeymasterCommand == Dispatched \cup
    {"KM_DESTROY_ATTESTATION_IDS", "KM_GET_AUTH_TOKEN_KEY", "OTHER", "OTHER|STOP"}

Init ==
    /\ configure_error = "none"
    /\ configured = "none"
    /\ ran = [op |-> "none", after |-> "none"]
    /\ pc = "idle"
    /\ stop = FALSE
    /\ out_buf_size = 0
    /\ bytes_remaining = 0
    /\ received = <<>>
    /\ skipped = FALSE
    /\ rc = "none"

-------------------------------------------------------------------------------
(* Dispatch: the possible outcomes of a command.  rc and size are what the *)
(* caller gets, ran whether the device ran the operation, error what the   *)
(* operation reported, and noted whether the device was told so.           *)

Refused(err) ==
    [rc |-> err, size |-> 0, ran |-> FALSE, error |-> "OK", noted |-> FALSE]

deserialize_request(cmd) ==
    {"NO_ERROR"} \cup (IF cmd = "KM_GET_HMAC_SHARING_PARAMETERS" THEN {}
                       ELSE {"ERR_NOT_VALID"})

\* The size goes back to 0 when there is no memory.
serialize_response ==
    {[rc |-> "ERR_NO_MEMORY", size |-> 0]} \cup
    {[rc |-> "NO_ERROR", size |-> n] : n \in ResponseSize}

\* Mutant: the device is told of a configure only after its response was
\* serialized.
do_dispatch_NotedLate(cmd) ==
    {IF err # "NO_ERROR" THEN Refused(err)
     ELSE [rc |-> s.rc, size |-> s.size, ran |-> TRUE, error |-> e,
           noted |-> cmd = "KM_CONFIGURE" /\ s.rc = "NO_ERROR"] :
        err \in deserialize_request(cmd), s \in serialize_response,
        e \in {"OK", "FAILED"}}

do_dispatch(cmd) ==
    {IF err # "NO_ERROR" THEN Refused(err)
     ELSE [rc |-> s.rc, size |-> s.size, ran |-> TRUE, error |-> e,
           noted |-> cmd = "KM_CONFIGURE"] :
        err \in deserialize_request(cmd), s \in serialize_response,
        e \in {"OK", "FAILED"}}

\* The key itself is read from the device, whatever configure did.
get_auth_token_key ==
    {Refused(err) : err \in {"ERR_GENERIC", "ERR_NOT_ENOUGH_BUFFER", "ERR_NO_MEMORY"}}
    \cup
    {[Refused("NO_ERROR") EXCEPT !.size = n] :
        n \in {m \in ResponseSize : m <= KEYMASTER_MAX_BUFFER_LENGTH}}

keymaster_dispatch_secure(cmd) ==
    IF cmd = "KM_GET_AUTH_TOKEN_KEY" THEN get_auth_token_key
    ELSE {Refused("ERR_NOT_IMPLEMENTED")}

cmd_is_from_bootloader(cmd) == cmd \in Bootloader

cmd_allowed_before_configure(cmd) ==
    cmd \in {"KM_CONFIGURE", "KM_GET_VERSION"} \/ cmd_is_from_bootloader(cmd)

\* The tests before the switch.
MayDispatch(cmd) ==
    CASE cmd = "KM_GET_VERSION" -> "NO_ERROR"
      [] configure_error = "none" /\ ~ cmd_allowed_before_configure(cmd)
            -> "ERR_NOT_CONFIGURED"
      [] configure_error = "FAILED" /\ cmd # "KM_GET_VERSION"
            -> "ERR_NOT_CONFIGURED"
      [] configure_error = "OK" /\ cmd_is_from_bootloader(cmd)
            -> "ERR_NOT_IMPLEMENTED"
      [] OTHER -> "NO_ERROR"

keymaster_dispatch_non_secure(cmd) ==
    IF MayDispatch(cmd) # "NO_ERROR" THEN {Refused(MayDispatch(cmd))}
    ELSE IF cmd \in Dispatched THEN do_dispatch(cmd)
    ELSE {Refused("ERR_NOT_IMPLEMENTED")}

-------------------------------------------------------------------------------
(* send_response.                                                          *)

max_msg_size == KEYMASTER_MAX_BUFFER_LENGTH - MARGIN

\* Mutant: the rest of the response is not looked at.
msg_size_Longest == max_msg_size

msg_size == IF max_msg_size < bytes_remaining THEN max_msg_size ELSE bytes_remaining

\* Its start.  An answer other than a response is one error code.
StartResponse(cmd, size) ==
    /\ pc' = "send"
    /\ stop' = (cmd = "OTHER|STOP")
    /\ out_buf_size' = size
    /\ bytes_remaining' = size
    /\ received' = <<>>
    /\ skipped' = FALSE
    /\ UNCHANGED rc

\* handle_msg, when it has read a command: a dispatch and what it leads to.
HandleMsg(cmd, dispatch) ==
    /\ pc = "idle"
    /\ \E r \in dispatch :
          /\ ran' = IF r.ran THEN [op |-> cmd, after |-> configured] ELSE ran
          /\ configured' = IF r.ran /\ cmd = "KM_CONFIGURE" THEN r.error ELSE configured
          /\ configure_error' = IF r.noted THEN r.error ELSE configure_error
          /\ StartResponse(cmd, IF r.rc = "NO_ERROR" THEN r.size ELSE ERROR_SIZE)

\* Mutant: STOP marks a chunk that is shorter than the longest.
StopBit_ShortChunk == stop \/ msg_size < max_msg_size

StopBit == stop \/ msg_size = bytes_remaining

bytes_sent == out_buf_size - bytes_remaining

\* A message: which part of the response it carries, and its STOP bit.
Chunk == [from |-> bytes_sent, len |-> msg_size, stop |-> StopBit]

\* The end of a pass of the loop, after a send that did not fail.
NextChunk ==
    /\ bytes_remaining' = bytes_remaining - msg_size
    /\ IF bytes_remaining' = 0 THEN pc' = "idle" /\ rc' = "NO_ERROR"
       ELSE pc' = "send" /\ UNCHANGED rc

SendChunk ==
    /\ received' = Append(received, Chunk)
    /\ NextChunk
    /\ UNCHANGED skipped

\* The caller of handle_msg closes the channel.
Fail(err) ==
    /\ pc' = "idle"
    /\ rc' = err
    /\ UNCHANGED <<bytes_remaining, received, skipped>>

Send ==
    /\ pc = "send"
    /\ stop' = StopBit
    /\ \/ SendChunk
       \/ /\ pc' = "wait"                \* ERR_NOT_ENOUGH_BUFFER
          /\ UNCHANGED <<bytes_remaining, received, skipped, rc>>
       \/ Fail("ERR_GENERIC")
    /\ UNCHANGED <<device, out_buf_size>>

\* Mutant: a message on the channel does not end the response.
wait_to_send_NotBusy(bits) ==
    \/ "SEND_UNBLOCKED" \in bits /\ (SendChunk \/ Fail("ERR_NOT_ENOUGH_BUFFER"))
    \/ "SEND_UNBLOCKED" \notin bits /\ "HUP" \in bits /\ Fail("ERR_CHANNEL_CLOSED")
    \/ /\ bits \cap {"SEND_UNBLOCKED", "HUP"} = {}
       /\ skipped' = (skipped \/ bits = {})
       /\ UNCHANGED received
       /\ NextChunk

\* Mutant: a chunk that still does not fit goes round the loop again.
wait_to_send_Again(bits) ==
    \/ /\ "SEND_UNBLOCKED" \in bits
       /\ \/ SendChunk
          \/ /\ pc' = "send"
             /\ UNCHANGED <<bytes_remaining, received, skipped, rc>>
    \/ "SEND_UNBLOCKED" \notin bits /\ "MSG" \in bits /\ Fail("ERR_BUSY")
    \/ bits = {"HUP"} /\ Fail("ERR_CHANNEL_CLOSED")
    \/ /\ bits = {}
       /\ skipped' = TRUE
       /\ UNCHANGED received
       /\ NextChunk

\* What becomes of the chunk when wait reports an event with these bits of the
\* three.  With none of them the chunk is not sent, and nobody told.
wait_to_send(bits) ==
    \/ "SEND_UNBLOCKED" \in bits /\ (SendChunk \/ Fail("ERR_NOT_ENOUGH_BUFFER"))
    \/ "SEND_UNBLOCKED" \notin bits /\ "MSG" \in bits /\ Fail("ERR_BUSY")
    \/ bits = {"HUP"} /\ Fail("ERR_CHANNEL_CLOSED")
    \/ /\ bits = {}
       /\ skipped' = TRUE
       /\ UNCHANGED received
       /\ NextChunk

Wait ==
    /\ pc = "wait"
    /\ \/ \E bits \in SUBSET {"SEND_UNBLOCKED", "MSG", "HUP"} : wait_to_send(bits)
       \/ Fail("ERR_GENERIC")
    /\ UNCHANGED <<device, stop, out_buf_size>>

Next ==
    \/ \E cmd \in KeymasterCommand :
          \/ HandleMsg(cmd, keymaster_dispatch_secure(cmd))
          \/ HandleMsg(cmd, keymaster_dispatch_non_secure(cmd))
    \/ Send
    \/ Wait

Spec == Init /\ [][Next]_vars

\* send_msg does not block; wait may, for ever, and nothing is assumed of it.
FairSpec == Spec /\ WF_vars(Send)

-------------------------------------------------------------------------------
(* Properties.                                                             *)

Result == {"none", "NO_ERROR", "ERR_GENERIC", "ERR_NOT_ENOUGH_BUFFER", "ERR_BUSY",
           "ERR_CHANNEL_CLOSED"}

\* The state has its type.
TypeOK ==
    /\ configure_error \in {"none", "OK", "FAILED"}
    /\ configured \in {"none", "OK", "FAILED"}
    /\ ran \in [op : Dispatched \cup {"none"}, after : {"none", "OK", "FAILED"}]
    /\ pc \in {"idle", "send", "wait"}
    /\ stop \in BOOLEAN
    /\ out_buf_size \in Nat
    /\ bytes_remaining \in 0..out_buf_size
    /\ received \in Seq([from : Nat, len : 0..max_msg_size, stop : BOOLEAN])
    /\ skipped \in BOOLEAN
    /\ rc \in Result

\* The device runs key operations only when it is configured, bootloader
\* commands only before it is configured, and nothing but GET_VERSION once a
\* configure has failed: counted from the run of Configure on the device, also
\* when its response could not be serialized and the client was told of an error.
DeviceLifecycle ==
    /\ ran.after = "none" =>
          ran.op \in Bootloader \cup {"KM_CONFIGURE", "KM_GET_VERSION", "none"}
    /\ ran.after = "OK" => ran.op \notin Bootloader
    /\ ran.after = "FAILED" => ran.op = "KM_GET_VERSION"

StopIsLast ==
    \A i \in DOMAIN received :
        /\ received[i].len + HEADER <= KEYMASTER_MAX_BUFFER_LENGTH
        /\ received[i].stop => i = Len(received)

\* Where the part of the response that a message carries ends.
End(chunk) == chunk.from + chunk.len

Contiguous ==
    \A i \in DOMAIN received :
        received[i].from = IF i = 1 THEN 0 ELSE End(received[i - 1])

WholeAtStop ==
    (received # <<>> /\ Last(received).stop /\ ~ skipped) =>
        Contiguous /\ End(Last(received)) = out_buf_size

\* A client that reads up to the message with STOP has read the whole response
\* and leaves none of it behind, unless a chunk was skipped: nothing follows a
\* message with STOP, and the messages up to it carry the response from its
\* first byte to its last, in order and each byte once.  Each fits, with its
\* header, in what the ports were created for.
StopEndsResponse == StopIsLast /\ WholeAtStop

\* A response that send_response reports as sent has reached the channel with
\* its last message, unless a chunk was skipped: in every other case the caller
\* gets an error and closes the channel.  It holds for a response without bytes
\* and for one that is a multiple of the longest chunk.
SentMeansEnded ==
    (pc = "idle" /\ rc = "NO_ERROR" /\ ~ skipped) =>
        received # <<>> /\ Last(received).stop

\* send_response ends for every response, whatever is blocked, retried or passed
\* over on the way, unless one of its waits never does: a chunk that still does not
\* fit when the channel says there is room is an error, and not tried for ever, and
\* what is left shrinks with every chunk.
ResponseEnds == []<>(pc = "idle") \/ <>[](pc = "wait")

===============================================================================
