-------------------------- MODULE RosbridgeClient ---------------------------
(***************************************************************************)
(* The sending half of RosbridgeClient (rosbridgeclient.h/.cpp): the       *)
(* talker timer's thread runs talk() over the attached TalkerQueues, the   *)
(* runner thread of Connection runs resetTalkers() when a connection       *)
(* opens, and the threads of the application create the owners of the      *)
(* queues (Publisher, Subscriber, ServiceServer, ServiceClient), push      *)
(* messages and destroy the owners.                                        *)
(*                                                                         *)
(* The messages of one queue are named by the order of their push:         *)
(* 0 is the head message, n > 0 the n-th push.                             *)
(***************************************************************************)
EXTENDS Connection, Queues

CONSTANTS
    Talkers,    \* the owners of talker queues
    QSize,      \* the queue_size each owner was created with
    Farewells,  \* the owners whose destructor pushes a message
    MaxPush     \* bound: messages pushed to one queue

ASSUME TalkersAssumption ==
    /\ QSize \in [Talkers -> Int]
    /\ Farewells \subseteq Talkers
    /\ MaxPush \in Nat

HEAD_MSG == 0

VARIABLES
    talkers,     \* the vector of attached queues
    tq,          \* the TalkerQueue of each owner
    owner,       \* the life of each owner
    pushed,      \* messages pushed so far by each owner
    talk_at,     \* where the talker thread is in talk()
    talk_i,      \* its position in talkers
    talk_end,    \* end() of its range-for, taken at the start
    talk_msg,    \* what next() returned to it
    reset_at,    \* where the runner is in resetTalkers()
    reset_i,     \* its position in talkers
    reset_end,   \* end() of its range-for
    \* the server, as far as it can be told from what it is sent:
    registered,  \* the owner's standing on the current connection
    lastSent,    \* the last message, head excepted, ever transmitted
    copies,      \* how often it was transmitted on this connection
    \* history:
    fresh,       \* the queue was created or reset during this connection
    raced,       \* resets that met the talker between next() and pop()
    outage       \* an open connection has been lost, or a callback has thrown

clientVars  == <<talkers, tq, owner, pushed>>
talkVars    == <<talk_at, talk_i, talk_end, talk_msg>>
resetVars   == <<reset_at, reset_i, reset_end>>
serverVars  == <<registered, lastSent, copies>>
historyVars == <<fresh, raced, outage>>

vars == <<connVars, clientVars, talkVars, resetVars, serverVars, historyVars>>

-----------------------------------------------------------------------------
(***************************************************************************)
(* Positions of the talker thread in talk(): idle between two calls, then  *)
(* before active(), empty(), next(), the active() of Connection::send, the *)
(* message_sender, and pop().                                              *)
(***************************************************************************)
TalkStates == {"idle", "active", "empty", "next", "check", "send", "pop"}

TypeOK ==
    /\ ConnTypeOK
    /\ talkers \in Seq(Talkers)
    /\ tq \in [Talkers -> TalkerQueueType(Nat)]
    /\ owner \in [Talkers -> {"none", "attached", "destroyed"}]
    /\ pushed \in [Talkers -> Nat]
    /\ talk_at \in TalkStates
    /\ talk_i \in Nat \ {0}
    /\ talk_end \in Nat
    /\ talk_msg \in Nat
    /\ reset_at \in {"idle", "loop"}
    /\ reset_i \in Nat \ {0}
    /\ reset_end \in Nat
    /\ registered \in [Talkers -> {"unknown", "declared", "gone"}]
    /\ lastSent \in [Talkers -> Nat]
    /\ copies \in [Talkers -> Nat]
    /\ fresh \in [Talkers -> BOOLEAN]
    /\ raced \in [Talkers -> Nat]
    /\ outage \in BOOLEAN

Init ==
    /\ ConnInit
    /\ talkers = << >>
    /\ tq = [t \in Talkers |-> NewTalkerQueue]
    /\ owner = [t \in Talkers |-> "none"]
    /\ pushed = [t \in Talkers |-> 0]
    /\ talk_at = "idle"
    /\ talk_i = 1
    /\ talk_end = 0
    /\ talk_msg = HEAD_MSG
    /\ reset_at = "idle"
    /\ reset_i = 1
    /\ reset_end = 0
    /\ registered = [t \in Talkers |-> "unknown"]
    /\ lastSent = [t \in Talkers |-> 0]
    /\ copies = [t \in Talkers |-> 0]
    /\ fresh = [t \in Talkers |-> FALSE]
    /\ raced = [t \in Talkers |-> 0]
    /\ outage = FALSE

-----------------------------------------------------------------------------
(***************************************************************************)
(* The application.                                                        *)
(***************************************************************************)

\* The constructors: a new TalkerQueue, then attach().
Attach(t) ==
    /\ owner[t] = "none"
    /\ owner' = [owner EXCEPT ![t] = "attached"]
    /\ talkers' = Append(talkers, t)
    /\ fresh' = [fresh EXCEPT ![t] = TRUE]
    /\ UNCHANGED <<connVars, tq, pushed, talkVars, resetVars, serverVars, raced, outage>>

PushMessage(t) ==
    /\ pushed' = [pushed EXCEPT ![t] = @ + 1]
    /\ tq' = [tq EXCEPT ![t] = TQPush(@, QSize[t], pushed[t] + 1)]

\* Publisher::publish, ServiceClient::call, the answer of a ServiceServer.
Push(t) ==
    /\ owner[t] = "attached"
    /\ pushed[t] < MaxPush
    /\ PushMessage(t)
    /\ UNCHANGED <<connVars, talkers, owner, talkVars, resetVars, serverVars, historyVars>>

\* The destructors: the last message, if any, then abandon(), which sets a
\* flag that nothing reads: the queue stays attached.
Destroy(t) ==
    /\ owner[t] = "attached"
    /\ owner' = [owner EXCEPT ![t] = "destroyed"]
    /\ IF t \in Farewells THEN PushMessage(t) ELSE UNCHANGED <<tq, pushed>>
    /\ UNCHANGED <<connVars, talkers, talkVars, resetVars, serverVars, historyVars>>

-----------------------------------------------------------------------------
(***************************************************************************)
(* talk(), called by talker_timer every 5 ms.                              *)
(***************************************************************************)
TalkTo == talkers[talk_i]

\* talk() holds what next() of the queue of t returned and has yet to pop().
Holding(t) == talk_at \in {"check", "send", "pop"} /\ TalkTo = t

\* The loop goes on with the next queue, or talk() returns.
TalkAdvance ==
    /\ talk_i' = talk_i + 1
    /\ talk_at' = IF talk_i < talk_end THEN "active" ELSE "idle"
    /\ UNCHANGED talk_end

\* Mutants: the loop starts before the first queue; it ends before the last.
TalkBeginAtZero ==
    /\ talk_at = "idle"
    /\ talk_i' = 0
    /\ talk_end' = Len(talkers)
    /\ talk_at' = IF talkers = << >> THEN "idle" ELSE "active"
    /\ UNCHANGED <<connVars, clientVars, talk_msg, resetVars, serverVars, historyVars>>

TalkBeginShort ==
    /\ talk_at = "idle"
    /\ talk_i' = 1
    /\ talk_end' = IF talkers = << >> THEN 0 ELSE Len(talkers) - 1
    /\ talk_at' = IF talk_end' = 0 THEN "idle" ELSE "active"
    /\ UNCHANGED <<connVars, clientVars, talk_msg, resetVars, serverVars, historyVars>>

TalkBegin ==
    /\ talk_at = "idle"
    /\ talk_i' = 1
    /\ talk_end' = Len(talkers)
    /\ talk_at' = IF talkers = << >> THEN "idle" ELSE "active"
    /\ UNCHANGED <<connVars, clientVars, talk_msg, resetVars, serverVars, historyVars>>

TalkActive ==
    /\ talk_at = "active"
    /\ \E a \in ActiveResults : talk_at' = IF a THEN "empty" ELSE "idle"
    /\ UNCHANGED <<connVars, clientVars, talk_i, talk_end, talk_msg, resetVars,
                   serverVars, historyVars>>

\* Mutant: talk() does not call empty().
TalkEmptyUntested ==
    /\ talk_at = "empty"
    /\ talk_at' = "next"
    /\ UNCHANGED <<connVars, clientVars, talk_i, talk_end, talk_msg, resetVars,
                   serverVars, historyVars>>

TalkEmpty ==
    /\ talk_at = "empty"
    /\ IF TQEmpty(tq[TalkTo])
       THEN TalkAdvance
       ELSE talk_at' = "next" /\ UNCHANGED <<talk_i, talk_end>>
    /\ UNCHANGED <<connVars, clientVars, talk_msg, resetVars, serverVars, historyVars>>

TalkNext ==
    /\ talk_at = "next"
    /\ talk_msg' = TQNext(tq[TalkTo], HEAD_MSG)
    /\ talk_at' = "check"
    /\ UNCHANGED <<connVars, clientVars, talk_i, talk_end, resetVars, serverVars,
                   historyVars>>

\* Connection::send returns silently when the connection is not active.
TalkCheck ==
    /\ talk_at = "check"
    /\ \E a \in ActiveResults : talk_at' = IF a THEN "send" ELSE "pop"
    /\ UNCHANGED <<connVars, clientVars, talk_i, talk_end, talk_msg, resetVars,
                   serverVars, historyVars>>

\* What the server makes of a message of owner t.
Receive(t, msg) ==
    LET isFarewell == owner[t] = "destroyed" /\ t \in Farewells /\ msg = pushed[t]
    IN  IF msg = HEAD_MSG
        THEN /\ registered' = [registered EXCEPT ![t] = "declared"]
             /\ UNCHANGED <<lastSent, copies>>
        ELSE /\ registered' = IF isFarewell
                              THEN [registered EXCEPT ![t] = "gone"]
                              ELSE registered
             /\ lastSent' = [lastSent EXCEPT ![t] = msg]
             /\ copies' = [copies EXCEPT ![t] =
                               IF msg = lastSent[t] THEN @ + 1 ELSE 1]

TalkSend ==
    /\ talk_at = "send"
    /\ talk_at' = "pop"
    /\ IF Transmits THEN Receive(TalkTo, talk_msg) ELSE UNCHANGED serverVars
    /\ UNCHANGED <<connVars, clientVars, talk_i, talk_end, talk_msg, resetVars,
                   historyVars>>

TalkPop ==
    /\ talk_at = "pop"
    /\ tq' = [tq EXCEPT ![TalkTo] = TQPop(@)]
    /\ TalkAdvance
    /\ talk_msg' = HEAD_MSG  \* the temporary is gone
    /\ UNCHANGED <<connVars, talkers, owner, pushed, resetVars, serverVars,
                   historyVars>>

TalkSteps == TalkBegin \/ TalkActive \/ TalkEmpty \/ TalkNext \/ TalkCheck
             \/ TalkSend \/ TalkPop

-----------------------------------------------------------------------------
(***************************************************************************)
(* on_connection on the runner thread: resetTalkers(), then the user's     *)
(* callback.  The websocket is already open and the talker thread runs.    *)
(***************************************************************************)
ResetBegin ==
    /\ runner = "on_open"
    /\ reset_at = "idle"
    /\ reset_at' = "loop"
    /\ reset_i' = 1
    /\ reset_end' = Len(talkers)
    /\ UNCHANGED <<connVars, clientVars, talkVars, serverVars, historyVars>>

ResetTalker ==
    LET t == talkers[reset_i] IN
    /\ reset_at = "loop"
    /\ reset_i <= reset_end
    /\ tq' = [tq EXCEPT ![t] = TQReset(@)]
    /\ reset_i' = reset_i + 1
    /\ fresh' = [fresh EXCEPT ![t] = TRUE]
    /\ raced' = [raced EXCEPT ![t] = IF Holding(t) THEN @ + 1 ELSE @]
    /\ UNCHANGED <<connVars, talkers, owner, pushed, talkVars, reset_at, reset_end,
                   serverVars, outage>>

\* Mutant: the open handler returns to its beginning.
ResetDoneRepeats ==
    /\ reset_at = "loop"
    /\ reset_i > reset_end
    /\ reset_at' = "idle"
    /\ UNCHANGED <<connVars, clientVars, talkVars, reset_i, reset_end, serverVars, historyVars>>

ResetDone ==
    /\ reset_at = "loop"
    /\ reset_i > reset_end
    /\ reset_at' = "idle"
    /\ OnConnection
    /\ UNCHANGED <<clientVars, talkVars, reset_i, reset_end, serverVars, historyVars>>

-----------------------------------------------------------------------------
(***************************************************************************)
(* The rest of Connection.  A new connection starts with a server that     *)
(* knows nothing of this client.  The client is not destroyed here.        *)
(***************************************************************************)
Reconnect ==
    /\ NewClient
    /\ registered' = [t \in Talkers |-> "unknown"]
    /\ copies' = [t \in Talkers |-> 0]
    /\ fresh' = [t \in Talkers |-> FALSE]
    \* what counts is whether the pop() still to come was preceded by a reset
    /\ raced' = [t \in Talkers |-> IF Holding(t) /\ raced[t] > 0 THEN 1 ELSE 0]
    /\ UNCHANGED <<clientVars, talkVars, resetVars, lastSent, outage>>

RunnerOther ==
    /\ Dial \/ RunReturns \/ ClearSender \/ ClearActive \/ ConnectReturns \/ OnClose
    /\ UNCHANGED <<clientVars, talkVars, resetVars, serverVars, historyVars>>

ConnectionEvent ==
    /\ NetworkEvents \/ PongMissed \/ ConnectThrows
    /\ outage' = (outage \/ ws = "open")
    /\ UNCHANGED <<clientVars, talkVars, resetVars, serverVars, fresh, raced>>

\* In the open handler the user's callback comes after resetTalkers().  From
\* here to lines 116-117 active() and message_sender refer to what is going.
UserThrows ==
    /\ runner = "on_open" => reset_at = "loop" /\ reset_i > reset_end
    /\ CallbackThrows
    /\ reset_at' = "idle"
    /\ outage' = TRUE
    /\ UNCHANGED <<clientVars, talkVars, reset_i, reset_end, serverVars, fresh, raced>>

Next ==
    \/ \E t \in Talkers : Attach(t) \/ Push(t) \/ Destroy(t)
    \/ TalkSteps
    \/ ResetBegin \/ ResetTalker \/ ResetDone
    \/ Reconnect \/ RunnerOther
    \/ ConnectionEvent \/ UserThrows

(***************************************************************************)
(* Both threads of the library are scheduled; the timeouts of the          *)
(* websocket are those of ConnFairness.  The application and the server    *)
(* owe nothing.                                                            *)
(***************************************************************************)
Fairness ==
    /\ WF_vars(TalkSteps)
    /\ WF_vars(ResetBegin \/ ResetTalker \/ ResetDone \/ Reconnect \/ RunnerOther)
    /\ WF_vars((OpenHandshake \/ OpenFails) /\ ConnectionEvent)
    /\ WF_vars(ws = "closing" /\ Terminate /\ ConnectionEvent)

Spec == Init /\ [][Next]_vars /\ Fairness

-----------------------------------------------------------------------------
(***************************************************************************)
(* Properties.                                                             *)
(***************************************************************************)

\* Between the empty() that let talk() go on and the pop() that ends the
\* round (rosbridgeclient.cpp:77-79) the queue cannot become empty, although
\* each call takes the mutex anew and pushes and resets fall in between:
\* front() and pop() are never called on an empty std::queue.
NoUnderflow ==
    talk_at \in {"next", "check", "send", "pop"} => ~TQEmpty(tq[TalkTo])

\* Over the whole life of an owner, connections lost, queues overflown and
\* resets included, its messages are transmitted in the order of the pushes:
\* the server may miss some and see the last one again, but never an older
\* one, and none that was not pushed.  OrderedChannel says so.
Channel == INSTANCE OrderedChannel WITH Senders <- Talkers
InOrder == Channel!Spec

\* A message is transmitted again on a connection only if resetTalkers() met
\* talk() between next() and pop() on that queue, so that pop() marked the
\* head as sent and left the message in the queue: once more if that was the
\* reset of this connection, and a third time if talk() was also caught by
\* the reset of an earlier connection and has held the message since.
RepeatedOnlyByReset ==
    \A t \in Talkers : copies[t] <= 1 + raced[t] /\ copies[t] <= 3

\* On an open connection, a queue created or reset during it lets its other
\* messages pass only once the head message has reached the server, unless
\* the reset fell between a next() and the pop() that belongs to it.
HeadLostOnlyByRace ==
    \A t \in Talkers :
        (fresh[t] /\ raced[t] = 0 /\ tq[t].head_popped /\ Serving)
            => registered[t] # "unknown"

\* With room in the queue and until a connection is lost or a callback of the
\* user throws, a message leaves the queue only after it was transmitted.
\* (on_disconnection may throw after a first attempt that failed: active() is
\* then dangling although no connection has ever been open.)
NothingLostWithoutOutage ==
    \A t \in Talkers :
        (~outage /\ AsSizeT(QSize[t]) > MaxPush)
            => pushed[t] - Len(tq[t].q) <= lastSent[t]

\* The message that pop() takes from the queue is the one that next() returned,
\* unless since then so many messages have been pushed that the queue has
\* dropped it (rosbridgeclient.cpp:78-79, queues.cpp): each of the two calls
\* takes the mutex for itself, but nothing else moves the front.
PopTakesAnotherOnlyByOverflow ==
    (talk_at = "pop" /\ talk_msg # HEAD_MSG /\ tq[TalkTo].head_popped)
        => \/ Head(tq[TalkTo].q) = talk_msg
           \/ pushed[TalkTo] - talk_msg >= AsSizeT(QSize[TalkTo])

\* What the two threads of the client do around it leaves the connection what
\* Connection says, fairness included: resetTalkers() ends, so that the open
\* handler returns, and nothing here keeps the runner from its next attempt.
ImplementsConnection == ConnSpec

\* Once a connection stays open, talk() empties every attached queue, and
\* gets past its head message.
Drains ==
    <>[]Serving
        => <>[](\A t \in Talkers : owner[t] # "none" => TQEmpty(tq[t]))

(***************************************************************************)
(* What the documentation promises and the code does not keep.             *)
(***************************************************************************)

\* queues.h:36-37: the head message "should be sent to RosbridgeServer every
\* time a new connection is started" - so before any other message.
DeclaredBeforeData ==
    \A t \in Talkers : copies[t] > 0 => registered[t] # "unknown"

\* queues.h:43: the queue is "thread-safe in the case it is used by one
\* consumer only and one producer only" - so the message that pop() removes
\* after next() is the one next() returned.
PopTakesWhatWasSent ==
    (talk_at = "pop" /\ talk_msg # HEAD_MSG /\ tq[TalkTo].head_popped)
        => Head(tq[TalkTo].q) = talk_msg

=============================================================================
