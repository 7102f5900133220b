--------------------------- MODULE OrderedChannel ---------------------------
(***************************************************************************)
(* What the sending half of the client promises to each owner of a queue,  *)
(* whatever happens to the connection: a channel that may lose messages    *)
(* and may repeat the last one, but never reorders them, never goes back   *)
(* to an older one and never makes one up.  Messages are named by the      *)
(* order in which they were handed over.                                   *)
(***************************************************************************)
EXTENDS Naturals

CONSTANT Senders

VARIABLES
    pushed,   \* messages handed over by each sender
    lastSent  \* the last of them that was transmitted, 0 for none

vars == <<pushed, lastSent>>

Init ==
    /\ pushed = [s \in Senders |-> 0]
    /\ lastSent = [s \in Senders |-> 0]

HandOver(s) ==
    /\ pushed' = [pushed EXCEPT ![s] = @ + 1]
    /\ UNCHANGED lastSent

Transmit(s) ==
    /\ \E m \in 1 .. pushed[s] :
          /\ m >= lastSent[s]
          /\ lastSent' = [lastSent EXCEPT ![s] = m]
    /\ UNCHANGED pushed

Next == \E s \in Senders : HandOver(s) \/ Transmit(s)

Spec == Init /\ [][Next]_vars

=============================================================================
