------------------------------ MODULE MCPtrClient ------------------------------
(***************************************************************************)
(* PtrClient for TLC: three addresses, so that a port and two channels, or *)
(* two ports and a channel, are in use when malloc fails; a port of each   *)
(* kind.                                                                   *)
(***************************************************************************)
EXTENDS PtrClient, TLC

CONSTANTS h1, h2, h3

MCHandle   == {h1, h2, h3}
MCFlagSets == {{"TA", "NS"}, {"NS"}}
MCWaitBits == {{"READY"}, {"MSG"}}
MCIov      == {<<1>>, <<1, 1>>}

\* malloc may return any address.
HandleSymmetry == Permutations(MCHandle)

===============================================================================
