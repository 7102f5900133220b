----------------------------- MODULE Connection -----------------------------
(***************************************************************************)
(* The Connection class (connection.h): the detached runner thread that    *)
(* dials the server, lives in c.run() while the websocket is up, cleans up *)
(* and dials again, together with the two function objects it publishes    *)
(* to the other threads, active and message_sender.                        *)
(*                                                                         *)
(* The websocket (websocketpp) is external: only the state that get_state  *)
(* returns is kept, with the transitions its handlers make visible.  Its   *)
(* handlers run on the runner thread, inside c.run(); only c.close() of    *)
(* the pong timer changes the state from another thread.                   *)
(*                                                                         *)
(* A std::function that one thread assigns while another calls it is a     *)
(* data race; the caller is taken to see the old or the new target.        *)
(***************************************************************************)

VARIABLES
    runner,         \* where the runner thread is
    ws,             \* connection->get_state()
    alive,          \* the runner's locals c and connection exist
    active,         \* what this->active refers to
    message_sender, \* what this->message_sender refers to
    shutting_down,  \* the atomic flag of ~Connection
    thrown,         \* an exception has left connect() in this round
    user            \* what the user was last told by the two callbacks

connVars ==
    <<runner, ws, alive, active, message_sender, shutting_down, thrown, user>>

(***************************************************************************)
(* Positions of the runner thread:                                         *)
(*   loop          the while test of runner()                              *)
(*   dial          in connect(), before c.run()                            *)
(*   run           in c.run(), between handlers                            *)
(*   on_open       in the open handler, on_connection                      *)
(*   on_close      in the close handler, on_disconnection                  *)
(*   ran           after c.run() and on_disconnection                      *)
(*   ran_cleared   message_sender replaced, active not yet                 *)
(*   sleep         both replaced, sleeping for a second                    *)
(*   unwind        an exception has been thrown; connect() is unwinding     *)
(*   exit          connect() has returned or thrown, c is destroyed        *)
(*   exit_cleared  message_sender replaced once more                       *)
(*   done          runner() has returned                                   *)
(***************************************************************************)
RunnerStates == {"loop", "dial", "run", "on_open", "on_close", "ran",
                 "ran_cleared", "sleep", "unwind", "exit", "exit_cleared", "done"}

WsStates == {"connecting", "open", "closing", "closed"}

ConnTypeOK ==
    /\ runner \in RunnerStates
    /\ ws \in WsStates
    /\ alive \in BOOLEAN
    /\ active \in {"false", "live"}
    /\ message_sender \in {"noop", "live"}
    /\ shutting_down \in BOOLEAN
    /\ thrown \in BOOLEAN
    /\ user \in {"up", "down"}

ConnInit ==
    /\ runner = "loop"
    /\ ws = "closed"
    /\ alive = FALSE
    /\ active = "false"
    /\ message_sender = "noop"
    /\ shutting_down = FALSE
    /\ thrown = FALSE
    /\ user = "down"

-----------------------------------------------------------------------------
(***************************************************************************)
(* What the other threads get from the two function objects.  Calling one  *)
(* that refers to the destroyed locals of runner() is undefined: active()  *)
(* may then return anything, and the message goes nowhere.                 *)
(***************************************************************************)
ActiveResults ==
    IF active = "false" THEN {FALSE}
    ELSE IF alive THEN {ws = "open"} ELSE BOOLEAN

\* The websocket is open and c.run() writes what it is handed.
Serving == alive /\ ws = "open" /\ runner # "unwind"

\* c.send throws unless the state is open; Connection::send swallows it.  A
\* message accepted after an exception has left c.run() is never written.
Transmits == message_sender = "live" /\ Serving

-----------------------------------------------------------------------------
(***************************************************************************)
(* The runner thread outside c.run().                                      *)
(***************************************************************************)
\* Mutants: the while loop is inside the try block, so that an exception ends
\* it; the loop does not test shutting_down.
NewClientUnlessThrown ==
    /\ runner = "loop"
    /\ ~shutting_down /\ ~thrown
    /\ runner' = "dial"
    /\ alive' = TRUE
    /\ ws' = "connecting"
    /\ message_sender' = "live"
    /\ UNCHANGED <<active, shutting_down, thrown, user>>

NewClientForever ==
    /\ runner = "loop"
    /\ runner' = "dial"
    /\ alive' = TRUE
    /\ ws' = "connecting"
    /\ message_sender' = "live"
    /\ thrown' = FALSE
    /\ UNCHANGED <<active, shutting_down, user>>

NewClient ==
    /\ runner = "loop"
    /\ ~shutting_down
    /\ runner' = "dial"
    /\ alive' = TRUE
    /\ ws' = "connecting"
    /\ message_sender' = "live"
    /\ thrown' = FALSE
    /\ UNCHANGED <<active, shutting_down, user>>

RunnerEnds ==
    /\ runner = "loop"
    /\ shutting_down
    /\ runner' = "done"
    /\ UNCHANGED <<ws, alive, active, message_sender, shutting_down, thrown, user>>

Dial ==
    /\ runner = "dial"
    /\ runner' = "run"
    /\ active' = "live"
    /\ UNCHANGED <<ws, alive, message_sender, shutting_down, thrown, user>>

\* Mutant: the wrong callback.
RunReturnsUp ==
    /\ runner = "run"
    /\ ws = "closed"
    /\ runner' = "ran"
    /\ user' = "up"
    /\ UNCHANGED <<ws, alive, active, message_sender, shutting_down, thrown>>

RunReturns ==
    /\ runner = "run"
    /\ ws = "closed"
    /\ runner' = "ran"
    /\ user' = "down"
    /\ UNCHANGED <<ws, alive, active, message_sender, shutting_down, thrown>>

ClearSender ==
    /\ \/ runner = "ran"  /\ runner' = "ran_cleared"
       \/ runner = "exit" /\ runner' = "exit_cleared"
    /\ message_sender' = "noop"
    /\ UNCHANGED <<ws, alive, active, shutting_down, thrown, user>>

\* Mutant: active is left as it was.
ClearActiveForgotten ==
    /\ \/ runner = "ran_cleared"  /\ runner' = "sleep"
       \/ runner = "exit_cleared" /\ runner' = "loop"
    /\ UNCHANGED <<ws, alive, active, message_sender, shutting_down, thrown, user>>

ClearActive ==
    /\ \/ runner = "ran_cleared"  /\ runner' = "sleep"
       \/ runner = "exit_cleared" /\ runner' = "loop"
    /\ active' = "false"
    /\ UNCHANGED <<ws, alive, message_sender, shutting_down, thrown, user>>

ConnectReturns ==
    /\ runner \in {"sleep", "unwind"}
    /\ runner' = "exit"
    /\ alive' = FALSE
    /\ UNCHANGED <<ws, active, message_sender, shutting_down, thrown, user>>

-----------------------------------------------------------------------------
(***************************************************************************)
(* Events that c.run() handles on the runner thread.                       *)
(***************************************************************************)
OpenHandshake ==
    /\ runner = "run"
    /\ ws = "connecting"
    /\ ws' = "open"
    /\ runner' = "on_open"
    /\ UNCHANGED <<alive, active, message_sender, shutting_down, thrown, user>>

\* Refused, unreachable, or one of the connect and handshake timeouts.
OpenFails ==
    /\ runner = "run"
    /\ ws = "connecting"
    /\ ws' = "closed"
    /\ UNCHANGED <<runner, alive, active, message_sender, shutting_down, thrown, user>>

OnConnection ==
    /\ runner = "on_open"
    /\ runner' = "run"
    /\ user' = "up"
    /\ UNCHANGED <<ws, alive, active, message_sender, shutting_down, thrown>>

RemoteClose ==
    /\ runner = "run"
    /\ ws = "open"
    /\ ws' = "closing"
    /\ UNCHANGED <<runner, alive, active, message_sender, shutting_down, thrown, user>>

\* The transport fails, or a closing handshake ends or times out.
Terminate ==
    /\ runner = "run"
    /\ ws \in {"open", "closing"}
    /\ ws' = "closed"
    /\ runner' = "on_close"
    /\ UNCHANGED <<alive, active, message_sender, shutting_down, thrown, user>>

OnClose ==
    /\ runner = "on_close"
    /\ runner' = "run"
    /\ user' = "down"
    /\ UNCHANGED <<ws, alive, active, message_sender, shutting_down, thrown>>

(***************************************************************************)
(* on_message_received throws (Unserializer on a message it cannot read).  *)
(* The exception leaves the handler and c.run(); unwinding connect() joins *)
(* the two timers, unwinding runner() destroys c and connection.           *)
(***************************************************************************)
MessageThrows ==
    /\ runner = "run"
    /\ ws = "open"
    /\ runner' = "unwind"
    /\ thrown' = TRUE
    /\ UNCHANGED <<ws, alive, active, message_sender, shutting_down, user>>

\* connect() fails before c.run(): no thread can be made for one of its timers.
ConnectThrows ==
    /\ runner = "dial"
    /\ runner' = "unwind"
    /\ thrown' = TRUE
    /\ UNCHANGED <<ws, alive, active, message_sender, shutting_down, user>>

\* The user's callback throws: on_connection in the open handler, on_disconnection
\* in the close handler or after c.run().
CallbackThrows ==
    /\ \/ runner \in {"on_open", "on_close"}
       \/ runner = "run" /\ ws = "closed"
    /\ runner' = "unwind"
    /\ thrown' = TRUE
    /\ user' = IF runner = "on_open" THEN "up" ELSE "down"
    /\ UNCHANGED <<ws, alive, active, message_sender, shutting_down>>

-----------------------------------------------------------------------------
(***************************************************************************)
(* Other threads.                                                          *)
(***************************************************************************)

\* handler_ping_pong_check of the pong timer: c.close on an open connection.
PongMissed ==
    /\ alive
    /\ ws = "open"
    /\ ws' = "closing"
    /\ UNCHANGED <<runner, alive, active, message_sender, shutting_down, thrown, user>>

\* ~Connection: only the flag is set; the runner is detached.
Shutdown ==
    /\ ~shutting_down
    /\ shutting_down' = TRUE
    /\ UNCHANGED <<runner, ws, alive, active, message_sender, thrown, user>>

-----------------------------------------------------------------------------
RunnerSteps ==
    NewClient \/ RunnerEnds \/ Dial \/ RunReturns \/ ClearSender \/ ClearActive
    \/ ConnectReturns \/ OnConnection \/ OnClose

NetworkEvents ==
    OpenHandshake \/ OpenFails \/ RemoteClose \/ Terminate \/ MessageThrows

ConnNext ==
    RunnerSteps \/ NetworkEvents \/ ConnectThrows \/ CallbackThrows \/ PongMissed
    \/ Shutdown

(***************************************************************************)
(* The runner thread is scheduled; every connection attempt ends because   *)
(* resolving, connecting and the open handshake have timeouts; a closing   *)
(* handshake ends because it has one (connection.h:130-131).  Nothing      *)
(* forces an open connection to go away.                                   *)
(***************************************************************************)
ConnFairness ==
    /\ WF_connVars(RunnerSteps)
    /\ WF_connVars(OpenHandshake \/ OpenFails)
    /\ WF_connVars(ws = "closing" /\ Terminate)

ConnSafety == ConnInit /\ [][ConnNext]_connVars

ConnSpec == ConnSafety /\ ConnFairness

-----------------------------------------------------------------------------
(***************************************************************************)
(* Properties of the component on its own.                                 *)
(***************************************************************************)

\* The function objects that other threads call refer to the runner's locals
\* only while these exist, except between an exception that leaves connect()
\* and the two assignments after the catch clauses (connection.h:110-117).
DanglingOnlyAfterThrow ==
    ((active = "live" \/ message_sender = "live") /\ ~alive)
        => (thrown /\ runner \in {"exit", "exit_cleared"})

\* rosbridgeclient.h:51 documents on_disconnection_ as "executed every time
\* the connection to the server is dropped".  The only connection whose end is
\* not reported to the user is the one torn down by an exception
\* (connection.h:113-115, 127 and 176).
MissedOnlyByThrow == (runner = "loop" /\ user = "up") => thrown

\* A connection that failed, was dropped or was torn down by an exception is
\* followed by a new attempt, for as long as the object is not destroyed.
Redials ==
    (ws = "closed" \/ ~alive) ~> (runner = "dial" \/ shutting_down)

\* After ~Connection the detached runner thread ends, unless the server keeps
\* the connection open: nothing in the destructor closes it.  The thread goes
\* on using the members of the destroyed object; its storage is taken to be
\* still there (connection.h:42, 59-64, 104).
RunnerEndsAfterShutdown ==
    shutting_down ~> (runner = "done" \/ (alive /\ ws = "open"))

=============================================================================
