----------------------------- MODULE MCStorageIpc -----------------------------
(***************************************************************************)
(* StorageIpc for TLC: two ports, one for each kind of port handle, with   *)
(* different buffer sizes; as many channel contexts as the table has       *)
(* channels and one more, so that freed addresses are used again; messages *)
(* that are empty, as large as allowed and larger.  Clients of the second  *)
(* port are served by sync_ipc_msg_handler; its waits report each of the   *)
(* events that wait_to_send tells apart, or none of them.                  *)
(***************************************************************************)
EXTENDS StorageIpc, TLC

CONSTANTS p1, p2, c1, c2, c3, a, b

MCPortCtx    == {p1, p2}
MCChanCtx    == {c1, c2, c3}
MCCookie     == MCPortCtx \cup MCChanCtx
MCPortPath   == (p1 :> a) @@ (p2 :> b)
MCPortFlags  == (p1 :> {"TA", "NS"}) @@ (p2 :> {"NS"})
MCSyncPort   == {p2}
MCSyncBits   == {{}, {"SEND_UNBLOCKED"}, {"MSG"}, {"HUP"}}
MCMaxBufSize == (p1 :> 2) @@ (p2 :> 3)

\* Addresses of channel contexts are interchangeable.
ChanSymmetry == Permutations(MCChanCtx)

\* Fewer addresses and events for liveness, which takes no symmetry.
MCTwoChanCtx  == {c1, c2}
MCTwoSyncBits == {{"SEND_UNBLOCKED"}, {"MSG"}}
MCTwoCookie   == MCPortCtx \cup MCTwoChanCtx

===============================================================================
