---------------------------- MODULE MCProofPrograms ----------------------------
(***************************************************************************)
(* ProofPrograms for TLC: every program of both builds, with the handles   *)
(* of the source (ports 1 and 2, channels 16 and 17) and as many addresses *)
(* as a program allocates.  Messages are empty, fit the buffers of 64 and  *)
(* 4096 bytes exactly, or are one byte too long for them.                  *)
(***************************************************************************)
EXTENDS ProofPrograms, TLC

CONSTANTS h1, h2, h3, h4, h5

MCPtrHandle == {h1, h2, h3, h4, h5}
MCMsgLen    == {0, 64, 65, 4096, 4097}
MCWaitBits  == {{}, {"READY"}, {"MSG"}}

\* malloc may return any address.
AddressSymmetry == Permutations(MCPtrHandle)

===============================================================================
