--------------------------- MODULE PeriodicCalls ----------------------------
(***************************************************************************)
(* What the users of a Timer may rely on (utils.h:76): while it is on, its *)
(* function is called again and again, one call at a time; once it is off, *)
(* not at all, and it goes off between two calls only.  A function that    *)
(* has stopped its own timer gives up one of these promises: started again,*)
(* the timer may for a while have two threads, and its calls overlap.      *)
(***************************************************************************)
VARIABLES
    threads, \* the threads of the timer
    calls,   \* those that are in a call of the function
    stopped, \* the function has stopped the timer, and its owner has not since
    ended    \* the process has ended

vars == <<threads, calls, stopped, ended>>

Init ==
    /\ threads = {}
    /\ calls = {}
    /\ stopped = FALSE
    /\ ended = FALSE

AtMostOne(set) == \A v, w \in set : v = w

TurnOn ==
    /\ ~ended
    /\ threads = {} \/ (stopped /\ AtMostOne(threads))
    /\ \E w \in threads' : w \notin threads /\ threads' = threads \cup {w}
    /\ UNCHANGED <<calls, stopped, ended>>

CallBegins ==
    /\ ~ended
    /\ \E w \in threads \ calls : calls' = calls \cup {w}
    /\ UNCHANGED <<threads, stopped, ended>>

CallEnds ==
    /\ ~ended
    /\ \E w \in calls : calls' = calls \ {w}
    /\ UNCHANGED <<threads, stopped, ended>>

CallStops ==
    /\ ~ended
    /\ calls # {}
    /\ stopped' = TRUE
    /\ UNCHANGED <<threads, calls, ended>>

ThreadEnds ==
    /\ ~ended
    /\ \E w \in threads \ calls : threads' = threads \ {w}
    /\ UNCHANGED <<calls, stopped, ended>>

\* The owner's stop() returns when no thread is left.
TurnOff ==
    /\ ~ended
    /\ threads = {}
    /\ stopped' = FALSE
    /\ UNCHANGED <<threads, calls, ended>>

Abort ==
    /\ ~ended
    /\ ended' = TRUE
    /\ UNCHANGED <<threads, calls, stopped>>

Next ==
    TurnOn \/ CallBegins \/ CallEnds \/ CallStops \/ ThreadEnds \/ TurnOff \/ Abort

(***************************************************************************)
(* Calls end, a timer that stays on calls again, two threads do not last.  *)
(***************************************************************************)
Liveness ==
    /\ []<>(ended \/ calls = {})
    /\ []<>(ended \/ calls # {} \/ threads = {})
    /\ []<>(ended \/ AtMostOne(threads))

Spec == Init /\ [][Next]_vars /\ Liveness

=============================================================================
