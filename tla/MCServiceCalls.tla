--------------------------- MODULE MCServiceCalls ---------------------------
(***************************************************************************)
(* A client with room for two messages and the thread that uses it.  The   *)
(* answers to other clients would differ from the requests of a            *)
(* ServiceServer of the same service only in what they are called: both    *)
(* take room in the queue and are passed by in the walk.                   *)
(***************************************************************************)
EXTENDS ServiceCalls, TLC

CONSTANTS client, caller

MCClients  == {client}
MCQSize    == (client :> 2)
MCCallers  == {caller}
MCClientOf == (caller :> client)

=============================================================================
