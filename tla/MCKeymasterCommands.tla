-------------------------- MODULE MCKeymasterCommands --------------------------
(***************************************************************************)
(* KeymasterCommands for TLC, with the sizes of the source: every command, *)
(* and responses without bytes, around one and two chunks of 4032 bytes,   *)
(* and as long as the longest key.                                         *)
(***************************************************************************)
EXTENDS KeymasterCommands

MCResponseSize == {0, 4, 4031, 4032, 4033, 4096, 8064, 8065}

===============================================================================
