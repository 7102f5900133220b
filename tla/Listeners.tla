----------------------------- MODULE Listeners ------------------------------
(***************************************************************************)
(* The receiving half of the client: listen(), which the runner thread     *)
(* calls for every message (rosbridgeclient.cpp:51-70), and the owners of  *)
(* ListenerQueues that have a listener thread, Subscriber and              *)
(* ServiceServer, with their constructors, threads and destructors.        *)
(*                                                                         *)
(* The messages for one key, a topic or a service, are numbered in the     *)
(* order in which they arrive.  Topics and services are keys of one map,   *)
(* so every owner of a key gets every message for it.  A message that      *)
(* listen() cannot read, and one of another operation, reaches no queue:   *)
(* MessageThrows of Connection is about the first kind.                    *)
(***************************************************************************)
EXTENDS Messages, Queues, FiniteSets

CONSTANTS
    Owners,      \* Subscribers and ServiceServers
    Servers,     \* the ServiceServers among them
    Key,         \* the topic or service of each owner
    LQSize,      \* the queue_size each owner was created with
    Incoming     \* the JSON objects that may arrive for a key as its first
                 \* message, as its second, ... (bound: the length)

Keys == {Key[o] : o \in Owners}

ASSUME ListenersAssumption ==
    /\ Servers \subseteq Owners
    /\ DOMAIN Key = Owners
    /\ LQSize \in [Owners -> Int]
    /\ Incoming \in Seq({Incoming[n] : n \in DOMAIN Incoming})
    /\ \A n \in DOMAIN Incoming : \A m \in Incoming[n] : Recipient(m) \in Keys

VARIABLES
    listeners,  \* the map from keys to vectors of attached queues
    lq,         \* the ListenerQueue of each owner
    life,       \* the life of each owner
    thread,     \* where its listener thread is
    held,       \* the local msg of listener()
    outbox,     \* what it pushed on its TalkerQueue after the head
    dispatch,   \* the call of listen() in progress
    arrived,    \* messages that arrived for each key
    terminated, \* std::terminate was called
    \* history:
    called,     \* the last message whose payload was taken, at first the
                \* last one that had arrived before the owner was created
    late        \* callbacks begun after the destructor

vars == <<listeners, lq, life, thread, held, outbox, dispatch, arrived,
          terminated, called, late>>

-----------------------------------------------------------------------------
\* A message in a queue: its number and the JSON object.
Numbered(n, m) == [n |-> n, json |-> m]

NoMessage == Numbered(0, Serializer("InvalidOp", ""))

Messages == UNION {{Numbered(n, m) : m \in Incoming[n]} : n \in DOMAIN Incoming}

MaxArrivals == Len(Incoming)

AllIncoming == UNION {Incoming[n] : n \in DOMAIN Incoming}

\* The unadvertise or unsubscribe message; n > 0 is the response to request n.
FAREWELL == 0

Idle == [active |-> FALSE]

(***************************************************************************)
(* A listener thread is at the while test (loop), past its sleep (check),  *)
(* before next(), before the callback (call), in the callback (busy),      *)
(* before pop(), or it has left listener().                                *)
(***************************************************************************)
ThreadStates == {"none", "loop", "check", "next", "call", "busy", "pop", "exited"}

\* closing: shutdown_requested is set; joining: the farewell is pushed too.
LifeStates == {"none", "live", "closing", "joining", "destroyed"}

TypeOK ==
    /\ listeners \in [Keys -> Seq(Owners)]
    /\ lq \in [Owners -> Seq(Messages)]
    /\ life \in [Owners -> LifeStates]
    /\ thread \in [Owners -> ThreadStates]
    /\ held \in [Owners -> Messages \cup {NoMessage}]
    /\ outbox \in [Owners -> Seq(Nat)]
    /\ dispatch \in {Idle} \cup
           [active : {TRUE}, key : Keys, msg : Messages, i : Nat \ {0}, end : Nat]
    /\ arrived \in [Keys -> Nat]
    /\ terminated \in BOOLEAN
    /\ called \in [Owners -> Nat]
    /\ late \in [Owners -> Nat]

Init ==
    /\ listeners = [k \in Keys |-> << >>]
    /\ lq = [o \in Owners |-> NewListenerQueue]
    /\ life = [o \in Owners |-> "none"]
    /\ thread = [o \in Owners |-> "none"]
    /\ held = [o \in Owners |-> NoMessage]
    /\ outbox = [o \in Owners |-> << >>]
    /\ dispatch = Idle
    /\ arrived = [k \in Keys |-> 0]
    /\ terminated = FALSE
    /\ called = [o \in Owners |-> 0]
    /\ late = [o \in Owners |-> 0]

-----------------------------------------------------------------------------
(***************************************************************************)
(* listen() on the runner thread.  The range-for takes end() at the start. *)
(***************************************************************************)
\* Mutant: the loop starts before the first queue.
ArriveAtZero(m) ==
    /\ ~dispatch.active
    /\ LET k == Recipient(m)
       IN  /\ arrived[k] < MaxArrivals
           /\ m \in Incoming[arrived[k] + 1]
           /\ arrived' = [arrived EXCEPT ![k] = @ + 1]
           /\ dispatch' = [active |-> TRUE, key |-> k, i |-> 0, end |-> Len(listeners[k]),
                            msg |-> Numbered(arrived[k] + 1, m)]
    /\ UNCHANGED <<listeners, lq, life, thread, held, outbox, terminated, called, late>>

Arrive(m) ==
    /\ ~dispatch.active
    /\ LET k == Recipient(m)
       IN  /\ arrived[k] < MaxArrivals
           /\ m \in Incoming[arrived[k] + 1]
           /\ arrived' = [arrived EXCEPT ![k] = @ + 1]
           /\ dispatch' = [active |-> TRUE, key |-> k, i |-> 1, end |-> Len(listeners[k]),
                            msg |-> Numbered(arrived[k] + 1, m)]
    /\ UNCHANGED <<listeners, lq, life, thread, held, outbox, terminated, called, late>>

Deliver ==
    /\ dispatch.active
    /\ dispatch.i <= dispatch.end
    /\ LET o == listeners[dispatch.key][dispatch.i]
       IN  lq' = [lq EXCEPT ![o] = LQPush(@, LQSize[o], dispatch.msg)]
    /\ dispatch' = [dispatch EXCEPT !.i = @ + 1]
    /\ UNCHANGED <<listeners, life, thread, held, outbox, arrived, terminated, called, late>>

ListenReturns ==
    /\ dispatch.active
    /\ dispatch.i > dispatch.end
    /\ dispatch' = Idle
    /\ UNCHANGED <<listeners, lq, life, thread, held, outbox, arrived, terminated, called, late>>

-----------------------------------------------------------------------------
(***************************************************************************)
(* The constructor, ending with the start of the thread, and the           *)
(* destructor: the flag, the farewell, the join.  abandon() sets a flag    *)
(* that nothing reads: the queue stays attached and goes on filling.       *)
(***************************************************************************)
Create(o) ==
    /\ life[o] = "none"
    /\ life' = [life EXCEPT ![o] = "live"]
    /\ thread' = [thread EXCEPT ![o] = "loop"]
    /\ listeners' = [listeners EXCEPT ![Key[o]] = Append(@, o)]
    /\ called' = [called EXCEPT ![o] = arrived[Key[o]]]
    /\ UNCHANGED <<lq, held, outbox, dispatch, arrived, terminated, late>>

RequestShutdown(o) ==
    /\ life[o] = "live"
    /\ life' = [life EXCEPT ![o] = "closing"]
    /\ UNCHANGED <<listeners, lq, thread, held, outbox, dispatch, arrived, terminated,
                   called, late>>

PushFarewell(o) ==
    /\ life[o] = "closing"
    /\ life' = [life EXCEPT ![o] = "joining"]
    /\ outbox' = [outbox EXCEPT ![o] = Append(@, FAREWELL)]
    /\ UNCHANGED <<listeners, lq, thread, held, dispatch, arrived, terminated, called, late>>

\* Mutant: the thread is detached instead of joined.
JoinDetached(o) ==
    /\ life[o] = "joining"
    /\ life' = [life EXCEPT ![o] = "destroyed"]
    /\ UNCHANGED <<listeners, lq, thread, held, outbox, dispatch, arrived, terminated,
                   called, late>>

Join(o) ==
    /\ life[o] = "joining"
    /\ thread[o] = "exited"
    /\ life' = [life EXCEPT ![o] = "destroyed"]
    /\ UNCHANGED <<listeners, lq, thread, held, outbox, dispatch, arrived, terminated,
                   called, late>>

-----------------------------------------------------------------------------
(***************************************************************************)
(* listener(), the loop of the owner's own thread.                         *)
(***************************************************************************)
Goto(o, at) == thread' = [thread EXCEPT ![o] = at]

\* Mutants: the queue is drained before the thread ends; the flag is not
\* tested at all.
TestDrains(o) ==
    /\ thread[o] = "loop"
    /\ Goto(o, IF life[o] \in {"closing", "joining"} /\ LQEmpty(lq[o])
               THEN "exited" ELSE "check")
    /\ UNCHANGED <<listeners, lq, life, held, outbox, dispatch, arrived, terminated,
                   called, late>>

TestNever(o) ==
    /\ thread[o] = "loop"
    /\ Goto(o, "check")
    /\ UNCHANGED <<listeners, lq, life, held, outbox, dispatch, arrived, terminated,
                   called, late>>

Test(o) ==
    /\ thread[o] = "loop"
    /\ Goto(o, IF life[o] \in {"closing", "joining"} THEN "exited" ELSE "check")
    /\ UNCHANGED <<listeners, lq, life, held, outbox, dispatch, arrived, terminated,
                   called, late>>

\* Mutant: empty() is not called.
CheckUntested(o) ==
    /\ thread[o] = "check"
    /\ Goto(o, "next")
    /\ UNCHANGED <<listeners, lq, life, held, outbox, dispatch, arrived, terminated,
                   called, late>>

Check(o) ==
    /\ thread[o] = "check"
    /\ Goto(o, IF LQEmpty(lq[o]) THEN "loop" ELSE "next")
    /\ UNCHANGED <<listeners, lq, life, held, outbox, dispatch, arrived, terminated,
                   called, late>>

Fetch(o) ==
    /\ thread[o] = "next"
    /\ held' = [held EXCEPT ![o] = LQNext(lq[o])]
    /\ Goto(o, "call")
    /\ UNCHANGED <<listeners, lq, life, outbox, dispatch, arrived, terminated, called, late>>

\* payload() returns and the callback begins.
CallbackBegins(o) ==
    /\ thread[o] = "call"
    /\ payload(held[o].json) # THROWS
    /\ called' = [called EXCEPT ![o] = held[o].n]
    /\ late' = [late EXCEPT ![o] = IF life[o] = "live" THEN @ ELSE @ + 1]
    /\ Goto(o, "busy")
    /\ UNCHANGED <<listeners, lq, life, held, outbox, dispatch, arrived, terminated>>

\* The callback returns; a ServiceServer pushes its response.
CallbackReturns(o) ==
    /\ thread[o] = "busy"
    /\ outbox' = IF o \in Servers THEN [outbox EXCEPT ![o] = Append(@, held[o].n)]
                                  ELSE outbox
    /\ Goto(o, "pop")
    /\ UNCHANGED <<listeners, lq, life, held, dispatch, arrived, terminated, called, late>>

\* payload() or the callback throws: a ServiceServer swallows the exception
\* and sends no response, in a Subscriber it leaves the thread's function.
Throws(o) ==
    /\ \/ thread[o] = "call" /\ payload(held[o].json) = THROWS
       \/ thread[o] = "busy"
    /\ IF o \in Servers
       THEN /\ Goto(o, "pop")
            /\ called' = [called EXCEPT ![o] = held[o].n]
            /\ UNCHANGED terminated
       ELSE terminated' = TRUE /\ UNCHANGED <<thread, called>>
    /\ UNCHANGED <<listeners, lq, life, held, outbox, dispatch, arrived, late>>

Pop(o) ==
    /\ thread[o] = "pop"
    /\ lq' = [lq EXCEPT ![o] = LQPop(@)]
    /\ held' = [held EXCEPT ![o] = NoMessage]  \* the local is gone
    /\ Goto(o, "loop")
    /\ UNCHANGED <<listeners, life, outbox, dispatch, arrived, terminated, called, late>>

ThreadStep(o) ==
    Test(o) \/ Check(o) \/ Fetch(o) \/ CallbackBegins(o) \/ CallbackReturns(o)
    \/ Throws(o) \/ Pop(o)

-----------------------------------------------------------------------------
Next ==
    /\ ~terminated
    /\ \/ \E m \in AllIncoming : Arrive(m)
       \/ Deliver \/ ListenReturns
       \/ \E o \in Owners : Create(o) \/ RequestShutdown(o) \/ PushFarewell(o)
                            \/ Join(o) \/ ThreadStep(o)

(***************************************************************************)
(* The threads of the library are scheduled, a destructor that has begun   *)
(* goes on, and the callbacks of the application end.                      *)
(***************************************************************************)
Fairness ==
    /\ WF_vars(~terminated /\ (Deliver \/ ListenReturns))
    /\ \A o \in Owners :
          /\ WF_vars(~terminated /\ ThreadStep(o))
          /\ WF_vars(~terminated /\ (PushFarewell(o) \/ Join(o)))

Spec == Init /\ [][Next]_vars /\ Fairness

-----------------------------------------------------------------------------
(***************************************************************************)
(* Properties.                                                             *)
(***************************************************************************)

\* Between the empty() that found a message and the pop() at the end of the
\* round (subscriber.cpp:56-60, serviceserver.cpp:58-67) the queue cannot
\* become empty, although listen() pushes and drops meanwhile: front() and
\* pop_front() are never called on an empty list.
NoUnderflow ==
    \A o \in Owners :
        thread[o] \in {"next", "call", "busy", "pop"} => ~LQEmpty(lq[o])

\* An owner takes every message at most once and in the order of arrival, and
\* none that came before the owner, however often pop() removes another
\* message than the one next() returned.
CalledInOrder == \A o \in Owners : thread[o] = "call" => held[o].n > called[o]

\* With room in its queue, an owner misses no message that came after it was
\* attached, even if that happened in the middle of listen(), and whatever a
\* ServiceServer's callback throws.
NothingSkipped ==
    \A o \in Owners :
        (thread[o] = "call" /\ AsSizeT(LQSize[o]) >= MaxArrivals)
            => held[o].n = called[o] + 1

\* Once its destructor has begun, an owner's callback begins at most once
\* more (the thread tests shutdown_requested before it sleeps).
OneLateCallback == \A o \in Owners : late[o] <= 1

\* What an owner sends: a ServiceServer answers a request at most once and
\* the requests in their order, and at most one answer follows the farewell,
\* which the destructor pushes before it joins (serviceserver.cpp:41-44).
OutboxInOrder ==
    \A o \in Owners : \A i, j \in 1 .. Len(outbox[o]) :
        i < j => /\ outbox[o][j] # FAREWELL => outbox[o][i] < outbox[o][j]
                 /\ outbox[o][i] = FAREWELL => j = i + 1 /\ j = Len(outbox[o])

\* When a destructor has returned, the thread neither calls back nor pushes.
QuietAfterDestructor ==
    [][\A o \in Owners :
          life[o] = "destroyed" => thread'[o] = thread[o] /\ outbox'[o] = outbox[o]]_vars

\* A destructor returns, unless an exception ends the process.
DestructorReturns ==
    \A o \in Owners : life[o] = "closing" ~> (life[o] = "destroyed" \/ terminated)

(***************************************************************************)
(* What the documentation promises and the code does not keep.             *)
(***************************************************************************)

\* README.md and serviceserver.h:27-32: a ServiceServer provides a service, its
\* callback is called with the request and returns the response.
OnlyRequestsAnswered ==
    \A o \in Servers : thread[o] = "busy" => type(held[o].json) = "ServiceCallOp"

=============================================================================
