------------------------- MODULE MCRosbridgeClient --------------------------
(***************************************************************************)
(* The owners of the runs: a Publisher, with the default queue_size 1 and  *)
(* a farewell (unadvertise), or a ServiceClient, without farewell, whose   *)
(* negative queue_size makes the queue unbounded.                          *)
(***************************************************************************)
EXTENDS RosbridgeClient, TLC

CONSTANTS pub, cli

MCNobody == {}
MCPub    == {pub}
MCCli    == {cli}

MCQSizePub == (pub :> 1)
MCQSizeCli == (cli :> -1)

=============================================================================
