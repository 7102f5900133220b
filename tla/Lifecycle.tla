----------------------------- MODULE Lifecycle ------------------------------
(***************************************************************************)
(* The life of a RosbridgeClient (rosbridgeclient.h:67-72,                 *)
(* rosbridgeclient.cpp:21-49): which of its members exist when its three   *)
(* threads use them.                                                       *)
(*                                                                         *)
(* The application constructs it, attaches queues and destroys it.  The    *)
(* runner thread exists as soon as the first member does, and outlives the *)
(* object; the talker thread is made by the last statement of the          *)
(* constructor.  Both iterate over the vectors that attach() appends to.   *)
(*                                                                         *)
(* A use of something that does not exist (any more) is undefined: it is   *)
(* recorded as a fault, and nothing is said about what follows.            *)
(***************************************************************************)
EXTENDS Connection, Naturals

CONSTANT MaxOwners  \* bound: owners constructed, each with two queues

ASSUME LifecycleAssumption == MaxOwners \in Nat

VARIABLES
    app,      \* what the application thread does next
    target,   \* what the three callbacks of Connection do
    handler,  \* the callback that the runner is in, as it was when it began
    size,     \* the queues in talkers, and in the vector of one key of listeners
    loop,     \* the range-for loops of talk(), resetTalkers() and listen()
    on,       \* the talker timer has its thread
    failed,   \* the constructor has thrown
    fault     \* the first undefined access

lifeVars == <<app, target, handler, size, loop, on, failed, fault>>
vars == <<connVars, lifeVars>>

-----------------------------------------------------------------------------
(***************************************************************************)
(* The application is before the construction of connection, of the other  *)
(* members, the three assignments of the constructor and the start of the  *)
(* timer; between calls, or between the two attach() of an owner; before   *)
(* the three assignments of the destructor, the destruction of listeners   *)
(* and talkers, the flag and the join of ~Timer, the flag of ~Connection   *)
(* and the end of its members.                                             *)
(***************************************************************************)
Constructing == {"connection", "members", "set_connection", "set_disconnection",
                 "set_message", "start"}
Usable       == {"ready", "attach"}
Replacing    == {"noop_connection", "noop_disconnection", "noop_message"}
Destroying   == {"~listeners", "~talkers", "~timer", "join", "~connection", "free"}

AppStates == Constructing \cup Usable \cup Replacing \cup Destroying \cup {"gone"}

\* The members that exist.
Exists ==
    [ connection |-> app \notin {"connection", "gone"},
      talkers    |-> app \notin {"connection", "members", "~timer", "join",
                                 "~connection", "free", "gone"},
      listeners  |-> app \notin {"connection", "members", "~talkers", "~timer",
                                 "join", "~connection", "free", "gone"} ]

Callbacks == {"on_connection", "on_disconnection", "on_message_received"}

Loops == {"talk", "reset", "listen"}

Vector == [talk |-> "talkers", reset |-> "talkers", listen |-> "listeners"]

\* push_back doubles the capacity of a full vector and moves its elements: the
\* capacity tells which buffer a vector of n elements is in.
Buffer(n) ==
    IF n = 0 THEN 0 ELSE CHOOSE c \in {2^k : k \in 0 .. n} : n <= c /\ c < 2 * n

(***************************************************************************)
(* A loop is not running (out), has taken begin() (begun), has taken end() *)
(* and is before an element (head; in talk(), before active()), or, in     *)
(* talk(), past active() (active).                                         *)
(***************************************************************************)
OutOfLoop == [at |-> "out", buffer |-> 0, left |-> 0]

NoFault == [by |-> "nobody", what |-> "nothing"]

Fault(by, what) == [by |-> by, what |-> what]

LoopType ==
    [at     : {"out", "begun", "head", "active"},
     buffer : {Buffer(n) : n \in 0 .. MaxOwners},
     left   : 0 .. MaxOwners]

FaultType ==
    {NoFault} \cup [by   : {"talker", "runner"},
                    what : {"talkers", "listeners", "iterator", "callback", "connection"}]

TypeOK ==
    /\ ConnTypeOK
    /\ app \in AppStates
    /\ target \in [Callbacks -> {"noop", "set"}]
    /\ handler \in {"none", "noop", "set", "user"}
    /\ size \in [{"talkers", "listeners"} -> 0 .. MaxOwners]
    /\ loop \in [Loops -> LoopType]
    /\ on \in BOOLEAN
    /\ failed \in BOOLEAN
    /\ fault \in FaultType

Init ==
    /\ ConnInit
    /\ app = "connection"
    /\ target = [c \in Callbacks |-> "noop"]
    /\ handler = "none"
    /\ size = [v \in {"talkers", "listeners"} |-> 0]
    /\ loop = [l \in Loops |-> OutOfLoop]
    /\ on = FALSE
    /\ failed = FALSE
    /\ fault = NoFault

\* The talker timer, as Timer implements it: talk() does not stop it, so it has
\* one thread.
TalkerTimer == INSTANCE PeriodicCalls WITH
    threads <- IF on THEN {"talker"} ELSE {},
    calls   <- IF loop["talk"] = OutOfLoop THEN {} ELSE {"talker"},
    stopped <- FALSE,
    ended   <- fault # NoFault

-----------------------------------------------------------------------------
(***************************************************************************)
(* The constructor.                                                        *)
(***************************************************************************)
Goto(here, there) == app = here /\ app' = there

Set(c, t) ==
    /\ target' = [target EXCEPT ![c] = t]
    /\ UNCHANGED <<connVars, handler, size, loop, on, failed, fault>>

\* Mutant: the callbacks are arguments of the constructor of Connection.
ConstructConnectionSet ==
    /\ Goto("connection", "members")
    /\ target' = [c \in Callbacks |-> "set"]
    /\ UNCHANGED <<connVars, handler, size, loop, on, failed, fault>>

\* The runner thread starts.
ConstructConnection ==
    /\ Goto("connection", "members")
    /\ UNCHANGED <<connVars, target, handler, size, loop, on, failed, fault>>

ConstructMembers ==
    /\ Goto("members", "set_connection")
    /\ UNCHANGED <<connVars, target, handler, size, loop, on, failed, fault>>

SetCallbacks ==
    \/ Goto("set_connection", "set_disconnection") /\ Set("on_connection", "set")
    \/ Goto("set_disconnection", "set_message") /\ Set("on_disconnection", "set")
    \/ Goto("set_message", "start") /\ Set("on_message_received", "set")

StartTimer ==
    /\ Goto("start", "ready")
    /\ on' = TRUE
    /\ UNCHANGED <<connVars, target, handler, size, loop, failed, fault>>

\* No thread can be made: the exception leaves the constructor, the members are
\* destroyed, the body of the destructor is not run.
StartTimerFails ==
    /\ Goto("start", "~listeners")
    /\ failed' = TRUE
    /\ UNCHANGED <<connVars, target, handler, size, loop, on, fault>>

Construct ==
    ConstructConnection \/ ConstructMembers \/ SetCallbacks \/ StartTimer
    \/ StartTimerFails

-----------------------------------------------------------------------------
(***************************************************************************)
(* The constructors of owners attach their queues.                         *)
(***************************************************************************)
PushBack(v) ==
    /\ size' = [size EXCEPT ![v] = @ + 1]
    /\ UNCHANGED <<connVars, target, handler, loop, on, failed, fault>>

Attach ==
    \/ size["talkers"] < MaxOwners /\ Goto("ready", "attach") /\ PushBack("talkers")
    \/ Goto("attach", "ready") /\ PushBack("listeners")

-----------------------------------------------------------------------------
(***************************************************************************)
(* The destructor: its body, then the members from the last to the first.  *)
(***************************************************************************)
BeginDestruction ==
    /\ Goto("ready", "noop_connection")
    /\ UNCHANGED <<connVars, target, handler, size, loop, on, failed, fault>>

\* Mutant: the third callback is forgotten.
ReplaceTwoCallbacks ==
    \/ Goto("noop_connection", "noop_disconnection") /\ Set("on_connection", "noop")
    \/ Goto("noop_disconnection", "~listeners") /\ Set("on_disconnection", "noop")

ReplaceCallbacks ==
    \/ Goto("noop_connection", "noop_disconnection") /\ Set("on_connection", "noop")
    \/ Goto("noop_disconnection", "noop_message") /\ Set("on_disconnection", "noop")
    \/ Goto("noop_message", "~listeners") /\ Set("on_message_received", "noop")

\* Mutant: the timer is declared before the connection.
DestroyMembersTimerLast ==
    /\ \/ Goto("~listeners", "~talkers")
       \/ Goto("~talkers", "~connection")
    /\ UNCHANGED <<connVars, target, handler, size, loop, on, failed, fault>>

DestroyMembers ==
    /\ \/ Goto("~listeners", "~talkers")
       \/ Goto("~talkers", "~timer")
       \/ Goto("~timer", "join")
    /\ UNCHANGED <<connVars, target, handler, size, loop, on, failed, fault>>

\* Mutant: the runner thread is joined as well, instead of detached.
JoinBothThreads ==
    /\ ~on /\ runner = "done"
    /\ Goto("join", "~connection")
    /\ UNCHANGED <<connVars, target, handler, size, loop, on, failed, fault>>

JoinTalker ==
    /\ ~on
    /\ Goto("join", "~connection")
    /\ UNCHANGED <<connVars, target, handler, size, loop, on, failed, fault>>

DestroyConnection ==
    /\ Goto("~connection", "free")
    /\ Shutdown
    /\ UNCHANGED <<target, handler, size, loop, on, failed, fault>>

Free ==
    /\ Goto("free", "gone")
    /\ UNCHANGED <<connVars, target, handler, size, loop, on, failed, fault>>

Destroy ==
    ReplaceCallbacks \/ DestroyMembers \/ JoinTalker \/ DestroyConnection \/ Free

-----------------------------------------------------------------------------
(***************************************************************************)
(* A range-for loop: begin(), end(), and the elements.  Its iterators are  *)
(* those of the buffer that the vector was in at begin().                  *)
(***************************************************************************)
Moved(l) == loop[l].buffer # Buffer(size[Vector[l]])

LoopOn(l, r) == loop' = [loop EXCEPT ![l] = r]

\* An access to the vector of l, from thread t; what it does if all is well.
Access(l, t, step) ==
    IF ~Exists[Vector[l]]
    THEN fault' = Fault(t, Vector[l]) /\ UNCHANGED loop
    ELSE IF loop[l] # OutOfLoop /\ Moved(l)
    THEN fault' = Fault(t, "iterator") /\ UNCHANGED loop
    ELSE step /\ UNCHANGED fault

Begin(l, t) ==
    Access(l, t, LoopOn(l, [at |-> "begun", buffer |-> Buffer(size[Vector[l]]), left |-> 0]))

TakeEnd(l, t) ==
    /\ loop[l].at = "begun"
    /\ Access(l, t, LoopOn(l, [loop[l] EXCEPT !.at = "head", !.left = size[Vector[l]]]))

\* Mutant: one element too many.
ElementPast(l, t) ==
    /\ loop[l].left >= 0
    /\ Access(l, t, LoopOn(l, [loop[l] EXCEPT !.at = "head", !.left = @ - 1]))

Element(l, t) ==
    /\ loop[l].left > 0
    /\ Access(l, t, LoopOn(l, [loop[l] EXCEPT !.at = "head", !.left = @ - 1]))

AtEnd(l) == loop[l].at = "head" /\ loop[l].left = 0

-----------------------------------------------------------------------------
(***************************************************************************)
(* talk() on the talker thread.  Of what it does with a queue only the     *)
(* access is left: the queue is shared with its owner and lives on.        *)
(***************************************************************************)
TalkBegin ==
    /\ app # "join"
    /\ on /\ loop["talk"] = OutOfLoop
    /\ Begin("talk", "talker")
    /\ UNCHANGED <<connVars, app, target, handler, size, on, failed>>

TalkEnd ==
    /\ TakeEnd("talk", "talker")
    /\ UNCHANGED <<connVars, app, target, handler, size, on, failed>>

TalkActive ==
    /\ loop["talk"].at = "head"
    /\ loop["talk"].left > 0
    /\ IF ~Exists["connection"]
       THEN fault' = Fault("talker", "connection") /\ UNCHANGED loop
       ELSE \E a \in ActiveResults :
               /\ LoopOn("talk", IF a THEN [loop["talk"] EXCEPT !.at = "active"] ELSE OutOfLoop)
               /\ UNCHANGED fault
    /\ UNCHANGED <<connVars, app, target, handler, size, on, failed>>

\* empty(), next(), send() and pop().
TalkElement ==
    /\ loop["talk"].at = "active"
    /\ IF Exists["talkers"] /\ ~Moved("talk") /\ ~Exists["connection"]
       THEN fault' = Fault("talker", "connection") /\ UNCHANGED loop
       ELSE Element("talk", "talker")
    /\ UNCHANGED <<connVars, app, target, handler, size, on, failed>>

TalkReturns ==
    /\ AtEnd("talk")
    /\ LoopOn("talk", OutOfLoop)
    /\ UNCHANGED <<connVars, app, target, handler, size, on, failed, fault>>

\* The thread finds the flag of ~Timer.
TalkerEnds ==
    /\ app = "join"
    /\ on /\ loop["talk"] = OutOfLoop
    /\ on' = FALSE
    /\ UNCHANGED <<connVars, app, target, handler, size, loop, failed, fault>>

TalkerStep ==
    TalkBegin \/ TalkEnd \/ TalkActive \/ TalkElement \/ TalkReturns \/ TalkerEnds

-----------------------------------------------------------------------------
(***************************************************************************)
(* The runner thread: Connection, with what its handlers do.  A handler is *)
(* the std::function that was there when it was called: noop, or set by    *)
(* the constructor; user is the application's part of it.                  *)
(***************************************************************************)
RunnerStarted == app \notin {"connection", "gone"}

\* The std::function that is being executed has been assigned to.
Replaced(c) == target[c] = "noop"

ConnectionStep ==
    /\ RunnerStarted
    /\ handler = "none"
    /\ \/ NewClient \/ RunnerEnds \/ Dial \/ ClearSender \/ ClearActive
       \/ ConnectReturns \/ ConnectThrows \/ OpenFails \/ RemoteClose
       \/ target["on_message_received"] = "set" /\ MessageThrows
    /\ UNCHANGED lifeVars

PongTimer ==
    /\ RunnerStarted
    /\ PongMissed
    /\ UNCHANGED lifeVars

Opens ==
    /\ RunnerStarted /\ handler = "none"
    /\ OpenHandshake
    /\ handler' = target["on_connection"]
    /\ UNCHANGED <<app, target, size, loop, on, failed, fault>>

ResetBegin ==
    /\ runner = "on_open" /\ handler = "set" /\ loop["reset"] = OutOfLoop
    /\ Begin("reset", "runner")
    /\ UNCHANGED <<connVars, app, target, handler, size, on, failed>>

ResetLoop ==
    /\ TakeEnd("reset", "runner") \/ (loop["reset"].at = "head" /\ Element("reset", "runner"))
    /\ UNCHANGED <<connVars, app, target, handler, size, on, failed>>

\* resetTalkers() returns; the next statement of the closure uses its copy of
\* on_connection_, which an assignment to on_connection has destroyed.
ResetReturns ==
    /\ AtEnd("reset")
    /\ IF Replaced("on_connection")
       THEN fault' = Fault("runner", "callback") /\ UNCHANGED <<handler, loop>>
       ELSE handler' = "user" /\ LoopOn("reset", OutOfLoop) /\ UNCHANGED fault
    /\ UNCHANGED <<connVars, app, target, size, on, failed>>

\* The application's callback may use what it has captured until it returns.
\* (No property of this module is about user, which a noop sets here as well.)
OpenReturns ==
    /\ runner = "on_open" /\ handler \in {"noop", "user"}
    /\ IF handler = "user" /\ Replaced("on_connection")
       THEN fault' = Fault("runner", "callback") /\ UNCHANGED <<connVars, handler>>
       ELSE OnConnection /\ handler' = "none" /\ UNCHANGED fault
    /\ UNCHANGED <<app, target, size, loop, on, failed>>

\* on_disconnection is called by the close handler and after c.run().
Closes ==
    /\ RunnerStarted /\ handler = "none"
    /\ \/ Terminate
       \/ runner = "run" /\ ws = "closed" /\ UNCHANGED connVars
    /\ handler' = IF target["on_disconnection"] = "set" THEN "user" ELSE "noop"
    /\ UNCHANGED <<app, target, size, loop, on, failed, fault>>

CloseReturns ==
    /\ handler \in {"noop", "user"}
    /\ runner = "on_close" \/ (runner = "run" /\ ws = "closed")
    /\ IF handler = "user" /\ Replaced("on_disconnection")
       THEN fault' = Fault("runner", "callback") /\ UNCHANGED <<connVars, handler>>
       ELSE (OnClose \/ RunReturns) /\ handler' = "none" /\ UNCHANGED fault
    /\ UNCHANGED <<app, target, size, loop, on, failed>>

\* An exception of the application's callback leaves c.run().
UserThrows ==
    /\ handler = "user"
    /\ handler' = "none"
    /\ CallbackThrows
    /\ UNCHANGED <<app, target, size, loop, on, failed, fault>>

ListenBegin ==
    /\ RunnerStarted /\ handler = "none"
    /\ runner = "run" /\ ws = "open" /\ target["on_message_received"] = "set"
    /\ handler' = "set"
    /\ Begin("listen", "runner")
    /\ UNCHANGED <<connVars, app, target, size, on, failed>>

ListenLoop ==
    /\ TakeEnd("listen", "runner") \/ (loop["listen"].at = "head" /\ Element("listen", "runner"))
    /\ UNCHANGED <<connVars, app, target, handler, size, on, failed>>

\* The closure has captured this alone, and uses nothing after listen().
ListenReturns ==
    /\ AtEnd("listen")
    /\ handler' = "none"
    /\ LoopOn("listen", OutOfLoop)
    /\ UNCHANGED <<connVars, app, target, size, on, failed, fault>>

\* The detached thread goes on with the members of an object that is gone.
Orphan ==
    /\ app = "gone"
    /\ handler = "none" /\ runner # "done"
    /\ fault' = Fault("runner", "connection")
    /\ UNCHANGED <<connVars, app, target, handler, size, loop, on, failed>>

RunnerStep ==
    ConnectionStep \/ Opens \/ ResetBegin \/ ResetLoop \/ ResetReturns \/ OpenReturns
    \/ Closes \/ CloseReturns \/ UserThrows \/ ListenBegin \/ ListenLoop
    \/ ListenReturns \/ Orphan

-----------------------------------------------------------------------------
Next ==
    /\ fault = NoFault
    /\ \/ Construct \/ Attach \/ BeginDestruction \/ Destroy
       \/ TalkerStep \/ RunnerStep \/ PongTimer

(***************************************************************************)
(* A destructor that has begun goes on; the talker thread is scheduled.    *)
(***************************************************************************)
Fairness ==
    /\ WF_vars(fault = NoFault /\ Destroy)
    /\ WF_vars(fault = NoFault /\ TalkerStep)

Spec == Init /\ [][Next]_vars /\ Fairness

-----------------------------------------------------------------------------
(***************************************************************************)
(* Properties.                                                             *)
(***************************************************************************)

\* Until the client is destroyed, only an attach() in the middle of a loop can
\* break anything.  In particular the runner thread, which starts before
\* talkers and listeners exist and before its callbacks are assigned
\* (connection.h:45, rosbridgeclient.cpp:25-27), finds nothing that does not
\* exist - unless the constructor fails.
SafeUntilDestroyed ==
    (app \in Constructing \cup Usable /\ fault # NoFault)
        => fault.what = "iterator" /\ app \in Usable

\* talk() never calls active() or send() on a connection that is gone, at
\* whatever point of its loop ~RosbridgeClient begins: talker_timer is declared
\* after connection, so its destructor, which joins, comes first.
TalkerSeesLiveConnection == fault # Fault("talker", "connection")

\* The callbacks are replaced, and no handler set before is running.
Quiet ==
    app \in Destroying \cup {"gone"} /\ ~failed /\ handler \in {"none", "noop"}

StaysQuiet == Quiet' /\ (fault'.by = "runner" => fault'.what = "connection")

\* After the three assignments of ~RosbridgeClient, and the end of the handler
\* that they may have met, the runner thread uses neither the queues nor the
\* callbacks, although it goes on connecting and receiving
\* (rosbridgeclient.cpp:33-35).
RunnerLeavesQueuesAlone == [][Quiet => StaysQuiet]_vars

\* ~RosbridgeClient returns, whatever the server and the runner thread do: the
\* only thread it waits for is the talker's.
DestructorReturns ==
    app = "noop_connection" ~> (app = "gone" \/ fault # NoFault)

=============================================================================
