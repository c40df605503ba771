---------------------------- MODULE MCKeymasterIpc ----------------------------
(***************************************************************************)
(* KeymasterIpc for TLC: the table of the source and three addresses for   *)
(* contexts, so that one can be lost, in either way, while both channels   *)
(* are in use; messages shorter than a header and as long as one.          *)
(***************************************************************************)
EXTENDS KeymasterIpc, TLC

CONSTANTS c1, c2, c3

MCChanCtx == {c1, c2, c3}
MCCookie  == {SECURE, NON_SECURE} \cup MCChanCtx

\* Addresses of channel contexts are interchangeable.
ChanSymmetry == Permutations(MCChanCtx)

===============================================================================
