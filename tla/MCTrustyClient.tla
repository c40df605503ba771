---------------------------- MODULE MCTrustyClient ----------------------------
(***************************************************************************)
(* TrustyClient for TLC: the table of the source (ports 1 and 2, channels  *)
(* 16 and 17), a port of each kind, the empty path (and another one in the *)
(* configurations that expect a violation), and buffers too small for the  *)
(* message, exactly large enough, or split in two.                         *)
(***************************************************************************)
EXTENDS TrustyClient

MCFlagSets == {{"TA", "NS"}, {"NS"}}
MCWaitBits == {{"READY"}, {"MSG"}}
MCIov      == {<<1>>, <<2>>, <<1, 1>>, <<1, 2>>}
MCIovTwo   == {<<1>>, <<1, 2>>}

===============================================================================
