---------------------------- MODULE MCListeners -----------------------------
(***************************************************************************)
(* A Subscriber with room for all messages and a ServiceServer with room   *)
(* for one, of a topic and a service with the same name.  What arrives is  *)
(* what the Serializers of another client write, or the same with a        *)
(* payload missing.                                                        *)
(***************************************************************************)
EXTENDS Listeners, TLC

CONSTANTS sub, srv

MCOwners  == {sub, srv}
MCServers == {srv}
MCKey     == (sub :> "name") @@ (srv :> "name")
MCLQSize  == (sub :> -1) @@ (srv :> 1)

Request  == SerializerServiceRequest("id", "name", "args")
Answer   == SerializerServiceResponse("id", "name", "values", "true")
NoArgs   == [f \in DOMAIN Request \ {"args"} |-> Request[f]]

MCIncoming == <<{Request}, {Request, NoArgs}, {Request}>>

\* A ServiceServer whose service is also called from its own process.
MCAnswers == <<{Request, Answer}, {Request, Answer}>>

MCSrvKey    == (srv :> "name")
MCSrvLQSize == (srv :> 100)

=============================================================================
