---------------------------- MODULE ServiceCalls ----------------------------
(***************************************************************************)
(* ServiceClient (serviceclient.cpp): threads of the application that wait *)
(* in call() for the answer to their request, while talk() transmits the   *)
(* requests and listen() hands every message of the service to the queue   *)
(* of every client of that service.                                        *)
(*                                                                         *)
(* nextById() walks the list of the queue without its mutex, one node at a *)
(* time here, so listen() may append and erase nodes during the walk.      *)
(* Reading an erased node is undefined: the process crashes, or the node   *)
(* is as it was, or it looks different and the walk goes on.               *)
(*                                                                         *)
(* All clients are of one service.  The sending half is reduced to what    *)
(* RosbridgeClient shows of it: a message is sent and removed, or sent and *)
(* kept to be sent again; one that is removed without having been sent is  *)
(* one the server does not answer.  A request is named by its caller and   *)
(* the number of its call, which unique() is trusted to keep apart         *)
(* (utils.h:118).                                                          *)
(***************************************************************************)
EXTENDS Queues

CONSTANTS
    Clients,    \* the ServiceClients
    QSize,      \* the queue_size each was created with
    Callers,    \* the threads that call
    ClientOf,   \* the client that each of them uses
    Timeout,    \* the timeout of call(), in periods of its sleep
    MaxCalls,   \* bound: calls of one thread
    MaxCopies,  \* bound: transmissions of one request
    MaxForeign  \* bound: requests to a ServiceServer of the same service

ASSUME ServiceCallsAssumption ==
    /\ QSize \in [Clients -> Int]
    /\ ClientOf \in [Callers -> Clients]
    /\ {Timeout, MaxCalls, MaxCopies, MaxForeign} \subseteq Nat

Requests == Callers \X (1 .. MaxCalls)

\* What listen() pushes: an answer to a request, which failed (result is false)
\* or is final (call() returns it, or result() or payload() throws on it); or a
\* request to a ServiceServer of this process, under an id of the server's.
Answers == [kind : {"final", "failed"}, id : Requests]
Foreign == [kind |-> "request", id |-> << >>]
Messages == Answers \cup {Foreign}

HEAD_MSG == << >>  \* the dummy message of the constructor

VARIABLES
    life,      \* the life of each client
    listeners, \* the vector of attached listener queues
    tq,        \* the TalkerQueue of each client
    lq,        \* the ListenerQueue of each client
    dispatch,  \* the call of listen() in progress
    at,        \* where each caller is in call()
    calls,     \* the calls it has made: the last one names its request
    elapsed,   \* now() - start, as it last looked
    pos,       \* where its walk is, counted in messages ever pushed
    crashed,   \* the walk has met an erased node and the process died
    \* the server:
    asked,     \* transmissions of each request not yet answered
    sent,      \* transmissions of each request
    foreign,   \* requests for a ServiceServer that have arrived
    \* history:
    log,       \* all messages ever pushed to each listener queue
    mark       \* what was in log when call() last saw that time was left

vars == <<life, listeners, tq, lq, dispatch, at, calls, elapsed, pos, crashed,
          asked, sent, foreign, log, mark>>

callVars   == <<at, calls, elapsed, pos, mark>>
serverVars == <<asked, sent, foreign>>

-----------------------------------------------------------------------------
Idle == [active |-> FALSE]

\* In call(): before the test of the time, asleep, in nextById().
CallStates == {"idle", "test", "sleep", "walk"}

TypeOK ==
    /\ life \in [Clients -> {"none", "live", "destroyed"}]
    /\ listeners \in Seq(Clients)
    /\ tq \in [Clients -> TalkerQueueType(Requests)]
    /\ lq \in [Clients -> Seq(Messages)]
    /\ dispatch \in {Idle} \cup
           [active : {TRUE}, msg : Messages, i : Nat \ {0}, end : Nat]
    /\ at \in [Callers -> CallStates]
    /\ calls \in [Callers -> 0 .. MaxCalls]
    /\ elapsed \in [Callers -> 0 .. Timeout]
    /\ pos \in [Callers -> Nat \ {0}]
    /\ crashed \in BOOLEAN
    /\ asked \in [Requests -> 0 .. MaxCopies]
    /\ sent \in [Requests -> 0 .. MaxCopies]
    /\ foreign \in 0 .. MaxForeign
    /\ log \in [Clients -> Seq(Messages)]
    /\ mark \in [Callers -> Nat]

Init ==
    /\ life = [k \in Clients |-> "none"]
    /\ listeners = << >>
    /\ tq = [k \in Clients |-> NewTalkerQueue]
    /\ lq = [k \in Clients |-> NewListenerQueue]
    /\ dispatch = Idle
    /\ at = [c \in Callers |-> "idle"]
    /\ calls = [c \in Callers |-> 0]
    /\ elapsed = [c \in Callers |-> 0]
    /\ pos = [c \in Callers |-> 1]
    /\ crashed = FALSE
    /\ asked = [r \in Requests |-> 0]
    /\ sent = [r \in Requests |-> 0]
    /\ foreign = 0
    /\ log = [k \in Clients |-> << >>]
    /\ mark = [c \in Callers |-> 0]

-----------------------------------------------------------------------------
(***************************************************************************)
(* The constructor attaches both queues.  The destructor, which must not   *)
(* run while a thread is in call(), leaves them attached.                  *)
(***************************************************************************)
Create(k) ==
    /\ life[k] = "none"
    /\ life' = [life EXCEPT ![k] = "live"]
    /\ listeners' = Append(listeners, k)
    /\ UNCHANGED <<tq, lq, dispatch, crashed, callVars, serverVars, log>>

Destroy(k) ==
    /\ life[k] = "live"
    /\ \A c \in Callers : ClientOf[c] = k => at[c] = "idle"
    /\ life' = [life EXCEPT ![k] = "destroyed"]
    /\ UNCHANGED <<listeners, tq, lq, dispatch, crashed, callVars, serverVars, log>>

-----------------------------------------------------------------------------
(***************************************************************************)
(* call().                                                                 *)
(***************************************************************************)
Request(c) == <<c, calls[c]>>

Call(c) ==
    LET k == ClientOf[c] IN
    /\ at[c] = "idle"
    /\ life[k] = "live"
    /\ calls[c] < MaxCalls
    /\ calls' = [calls EXCEPT ![c] = @ + 1]
    /\ tq' = [tq EXCEPT ![k] = TQPush(@, QSize[k], <<c, calls[c] + 1>>)]
    /\ at' = [at EXCEPT ![c] = "test"]
    /\ UNCHANGED <<life, listeners, lq, dispatch, elapsed, pos, crashed, serverVars,
                   log, mark>>

\* call() returns or throws; its locals are gone.
Return(c) ==
    /\ at' = [at EXCEPT ![c] = "idle"]
    /\ elapsed' = [elapsed EXCEPT ![c] = 0]
    /\ pos' = [pos EXCEPT ![c] = 1]
    /\ mark' = [mark EXCEPT ![c] = 0]

\* nextById() returns and call() goes on with its loop.
Again(c) ==
    /\ at' = [at EXCEPT ![c] = "test"]
    /\ pos' = [pos EXCEPT ![c] = 1]
    /\ UNCHANGED <<elapsed, mark>>

\* The while test: the time is up and call() returns nothing, or it sleeps.
Test(c) ==
    /\ at[c] = "test"
    /\ IF elapsed[c] < Timeout
       THEN /\ at' = [at EXCEPT ![c] = "sleep"]
            /\ mark' = [mark EXCEPT ![c] = Len(log[ClientOf[c]])]
            /\ UNCHANGED <<elapsed, pos>>
       ELSE Return(c)
    /\ UNCHANGED <<life, listeners, tq, lq, dispatch, calls, crashed, serverVars, log>>

\* The number of nodes that have been erased from the list of client k.
Erased(k) == Len(log[k]) - Len(lq[k])

\* Mutant: the walk starts before begin().
WakeBeforeBegin(c) ==
    /\ at[c] = "sleep"
    /\ \E t \in elapsed[c] + 1 .. Timeout : elapsed' = [elapsed EXCEPT ![c] = t]
    /\ at' = [at EXCEPT ![c] = "walk"]
    /\ pos' = [pos EXCEPT ![c] = Erased(ClientOf[c])]
    /\ UNCHANGED <<life, listeners, tq, lq, dispatch, calls, crashed, serverVars, log,
                   mark>>

\* sleep_for() lasts a period or longer; the walk starts at begin().
Wake(c) ==
    /\ at[c] = "sleep"
    /\ \E t \in elapsed[c] + 1 .. Timeout : elapsed' = [elapsed EXCEPT ![c] = t]
    /\ at' = [at EXCEPT ![c] = "walk"]
    /\ pos' = [pos EXCEPT ![c] = Erased(ClientOf[c]) + 1]
    /\ UNCHANGED <<life, listeners, tq, lq, dispatch, calls, crashed, serverVars, log,
                   mark>>

WalkOn(c) ==
    /\ pos' = [pos EXCEPT ![c] = @ + 1]
    /\ UNCHANGED <<at, elapsed, mark>>

\* Mutants: only the front of the queue is looked at; after a failed answer
\* nextById() is called again at once, without a look at the time.
LookAtFront(c, m) ==
    IF m.id # Request(c) \/ m.kind = "failed" THEN Again(c) ELSE Return(c)

LookForEver(c, m) ==
    IF m.id # Request(c) THEN WalkOn(c)
    ELSE IF m.kind = "failed"
    THEN /\ pos' = [pos EXCEPT ![c] = Erased(ClientOf[c]) + 1]
         /\ UNCHANGED <<at, elapsed, mark>>
    ELSE Return(c)

\* The walk looks at a node: a final answer ends call(), after a failed one it
\* waits for another.
Look(c, m) ==
    IF m.id # Request(c) THEN WalkOn(c)
    ELSE IF m.kind = "failed" THEN Again(c)
    ELSE Return(c)

Walk(c) ==
    LET k == ClientOf[c] IN
    /\ at[c] = "walk"
    /\ \/ pos[c] > Len(log[k]) /\ Again(c) /\ UNCHANGED crashed
       \/ pos[c] <= Len(log[k]) /\ Look(c, log[k][pos[c]]) /\ UNCHANGED crashed
       \/ pos[c] <= Erased(k) /\ WalkOn(c) /\ UNCHANGED crashed
       \/ pos[c] <= Erased(k) /\ crashed' = TRUE /\ UNCHANGED <<at, elapsed, pos, mark>>
    /\ UNCHANGED <<life, listeners, tq, lq, dispatch, calls, serverVars, log>>

CallStep(c) == Test(c) \/ Wake(c) \/ Walk(c)

-----------------------------------------------------------------------------
(***************************************************************************)
(* talk() and the server.  Answers come in any order, or never.            *)
(***************************************************************************)
Talk(k) ==
    LET m == TQNext(tq[k], HEAD_MSG) IN
    /\ life[k] # "none"
    /\ ~TQEmpty(tq[k])
    /\ IF m = HEAD_MSG
       THEN /\ tq' = [tq EXCEPT ![k] = TQPop(@)]
            /\ UNCHANGED <<sent, asked>>
       ELSE /\ sent[m] < MaxCopies
            /\ sent' = [sent EXCEPT ![m] = @ + 1]
            /\ asked' = [asked EXCEPT ![m] = @ + 1]
            /\ tq' \in {tq, [tq EXCEPT ![k] = TQPop(@)]}
    /\ UNCHANGED <<life, listeners, lq, dispatch, crashed, callVars, foreign, log>>

Listen(m) ==
    /\ ~dispatch.active
    /\ dispatch' = [active |-> TRUE, msg |-> m, i |-> 1, end |-> Len(listeners)]
    /\ UNCHANGED <<life, listeners, tq, lq, crashed, callVars, sent, log>>

Answer(m) ==
    /\ asked[m.id] > 0
    /\ asked' = [asked EXCEPT ![m.id] = @ - 1]
    /\ Listen(m)
    /\ UNCHANGED foreign

ForeignCall ==
    /\ foreign < MaxForeign
    /\ foreign' = foreign + 1
    /\ Listen(Foreign)
    /\ UNCHANGED asked

Deliver ==
    LET k == listeners[dispatch.i] IN
    /\ dispatch.active
    /\ dispatch.i <= dispatch.end
    /\ lq' = [lq EXCEPT ![k] = LQPush(@, QSize[k], dispatch.msg)]
    /\ log' = [log EXCEPT ![k] = Append(@, dispatch.msg)]
    /\ dispatch' = [dispatch EXCEPT !.i = @ + 1]
    /\ UNCHANGED <<life, listeners, tq, crashed, callVars, serverVars>>

ListenReturns ==
    /\ dispatch.active
    /\ dispatch.i > dispatch.end
    /\ dispatch' = Idle
    /\ UNCHANGED <<life, listeners, tq, lq, crashed, callVars, serverVars, log>>

-----------------------------------------------------------------------------
Next ==
    /\ ~crashed
    /\ \/ \E k \in Clients : Create(k) \/ Destroy(k) \/ Talk(k)
       \/ \E c \in Callers : Call(c) \/ CallStep(c)
       \/ \E m \in Answers : Answer(m)
       \/ ForeignCall \/ Deliver \/ ListenReturns

\* The threads that call are scheduled and their sleeps end.
Fairness == \A c \in Callers : WF_vars(~crashed /\ CallStep(c))

Spec == Init /\ [][Next]_vars /\ Fairness

-----------------------------------------------------------------------------
(***************************************************************************)
(* Properties.                                                             *)
(***************************************************************************)

\* The first answer to the request of c that was ever pushed to its queue is
\* final, is at position p and is still there.
FirstAnswer(c, p) ==
    LET k == ClientOf[c] IN
    /\ log[k][p] = [kind |-> "final", id |-> Request(c)]
    /\ \A i \in 1 .. p - 1 : log[k][i].id # Request(c)
    /\ p > Erased(k)

\* call() returns nothing only if no final answer was in its queue when it last
\* found that there was time left, whatever else arrived meanwhile: unless an
\* answer with result false came first, which nextById() goes on finding, or
\* the queue overflowed and the answer was dropped (serviceclient.cpp:61-73).
NothingOnlyWithoutAnswer ==
    [][\A c \in Callers :
          (at[c] = "test" /\ at'[c] = "idle")
              => \A p \in 1 .. mark[c] : ~FirstAnswer(c, p)]_vars

\* The walk stands at a node that has been erased, and looks at it next.
Dangling(c) == at[c] = "walk" /\ pos[c] <= Erased(ClientOf[c])

\* The walk without the mutex (queues.cpp:100-106) ends the process only when
\* messages overtake it: as many as the queue of this caller's client holds have
\* come after the one at which it stands, those for other clients and for a
\* ServiceServer included.  (If the queue is full, one during the walk is enough.)
CrashOnlyIfOvertaken ==
    crashed => \E c \in Callers :
                   /\ Dangling(c)
                   /\ Len(log[ClientOf[c]]) - pos[c] >= AsSizeT(QSize[ClientOf[c]])

\* A call returns or throws, however many messages arrive during its walks
\* and whatever they say.
CallReturns ==
    \A c \in Callers : at[c] # "idle" ~> (at[c] = "idle" \/ crashed)

(***************************************************************************)
(* What the documentation promises and the code does not keep.             *)
(***************************************************************************)

\* queues.h:86: "ListenerQueue is thread-safe in the case it is used by one
\* consumer only and one producer only."  With a single caller and listen(), a
\* walk never stands at a node that has been erased.
SafeForOneConsumer == \A c \in Callers : ~Dangling(c)

=============================================================================
