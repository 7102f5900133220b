# rosbridge_client_cpp in TLA+

This directory specifies `rosbridge_client_cpp`, a C++ client of the rosbridge
protocol: what its threads do to the queues and to the connection they share,
what that guarantees to an application and where it falls short of what the
headers say. The specifications are model-checked with TLC on small instances;
their safety properties are also proved with TLAPS, for every value of the
constants. Paths below are relative to the repository.

## 1. The system

An application creates one `RosbridgeClient` and, on it, any number of
`Publisher`, `Subscriber`, `ServiceServer` and `ServiceClient` objects (the
*owners*). Each owner has a `TalkerQueue` of messages to send, headed by a
message that declares the owner to the server, and all but the Publisher a
`ListenerQueue` of messages received.

    application threads      publish / call / constructors / destructors
          |  push                                     ^ callbacks
          v                                           |
    TalkerQueue(s) --- talk(), timer thread, 5 ms     listener thread per owner, 10 ms
          ^               | next, send, pop           ^ next, callback, pop
          | reset         v                           |
    resetTalkers() <-- Connection: runner thread --> listen() --> ListenerQueue(s)
                          ^  active, message_sender
                          |  ping timer, pong-check timer (1 s each)
                       websocket --- rosbridge server

| component | source | state | operations | modelled in |
|---|---|---|---|---|
| TalkerQueue, ListenerQueue | `src/queues.cpp`, `queues.h` | `q`, `head_popped`, `q_size`, `orphan` | push, pop, next, empty, reset; nextById, popById (no lock); abandon | `Queues` |
| Connection | `connection.h` | runner thread, `active`, `message_sender`, `shutting_down`, the websocket | runner, connect, send, the open, close, message handlers, destructor | `Connection` |
| keep-alive | `connection.h:130-167` | `time_last_ping`, `time_last_pong`, two timers | ping, pong, check, handshake timeouts | `KeepAlive` |
| RosbridgeClient, sending | `src/rosbridgeclient.cpp:39-43, 72-87` | `talkers` | attach, talk, resetTalkers | `RosbridgeClient` |
| RosbridgeClient, receiving | `src/rosbridgeclient.cpp:45-70` | `listeners` | attach, listen | `Listeners` |
| RosbridgeClient, lifetime | `src/rosbridgeclient.cpp:21-49` | its members and callbacks | constructor, destructor, against its threads | `Lifecycle` |
| Publisher | `src/publisher.cpp` | talker queue | constructor, publish, destructor | `RosbridgeClient` |
| Subscriber | `src/subscriber.cpp` | both queues, thread, `shutdown_requested` | constructor, listener, destructor | `Listeners`, `RosbridgeClient` |
| ServiceServer | `src/serviceserver.cpp` | as Subscriber | constructor, listener, destructor | `Listeners`, `RosbridgeClient` |
| ServiceClient | `src/serviceclient.cpp` | both queues | constructor, call, destructor | `ServiceCalls`, `RosbridgeClient` |
| Timer | `src/utils.cpp` | `_execute`, `_thd` | start, stop, is_running, destructor | `Timer`, `PeriodicCalls` |
| OP, Serializer, Unserializer | `src/op.cpp`, `serializer.h`, `unserializer.h` | none | tables, constructors, accessors | `Messages` |
| Pinger, logging, vendored libraries | | | | section 7 |

### What is hard here

No function of this library is long; what is hard is what falls between two of
its calls. The talker thread makes five separate calls per queue
(`active`, `empty`, `next`, `send`, `pop`) without a common lock, while the
runner thread resets the same queues, the application pushes to them, and the
connection goes away. The connection replaces the function objects through
which the other threads reach it, and these refer to locals of its runner. The
ping-pong protocol runs on two timers that start and drift on their own. Listener
threads call the user back on the front of a list that `listen()` goes on
appending to and dropping from. The client starts one thread before it has
members and never joins it. `PROJECT.json` lists each hazard at its line
with the properties that would catch it; what makes each component correct:

- *queues, sending*: no underflow; per owner the order of the pushes; nothing
  lost except by overflow or an outage; a message repeated, or the declaration
  of an owner skipped, only in the one race that causes it; queues drain.
- *connection*: nobody calls into destroyed locals; a lost connection is
  reported and replaced; a vanished peer is noticed in bounded time and an
  answering one is kept; the thread ends after the destructor.
- *receiving*: callbacks in order, none twice, none skipped while there is
  room; destructors end the thread and return.
- *lifetime*: while a client lives, its threads find what they use; its
  destructor returns, and the thread it leaves behind no longer uses its queues.
- *timer*: one thread and one call of its function at a time, none after `stop()`;
  what a function that stops its own timer can break, and what it cannot.
- *messages*: what a Serializer writes, `listen()` and Unserializer read as meant.
- *service calls*: `call()` returns; it returns nothing only if no answer was
  there to be found; the unlocked walk stays on the list unless the queue
  overflows.

## 2. Modules

**`Queues`** has the two classes as operators on their value. Every method that
takes the mutex is one operator, applied in one step by the specifications that
use it. `q.size() > q_size` converts an `int` to `size_t`: `AsSizeT` does so
modulo `SizeModulus` (16 in the runs, 2^64 in the build), so that a negative
size is a large bound.

**`Connection`** is the runner thread of `connection.h`, one action per stretch of
code between two points where another thread can look: `NewClient` (the locals
and `message_sender`), `Dial` (the timers, `c.connect`, `active`), the handlers
inside `c.run()`, `RunReturns` (with `on_disconnection`), the two assignments
that retire the function objects (`ClearSender`, `ClearActive`, once in
`connect()` and once in `runner()`), `ConnectReturns` (the locals are gone).
Three actions are exceptions: of `on_message_received` (`MessageThrows`), of
`connect()` before `c.run()`, when a timer gets no thread (`ConnectThrows`), and
of the user's callbacks (`CallbackThrows`). Each unwinds `connect()` and
`runner()` before the function objects are replaced. The
websocket is reduced to what `get_state()` returns, with the transitions that
`websocketpp/impl/connection_impl.hpp` makes. Calling a function object whose
target is destroyed is undefined; `ActiveResults` returns anything then.

**`KeepAlive`** adds the clocks: ages of the last ping and pong, the waits of the
two timers, the timeouts of the opening and closing handshakes, the final sleep.
The threads of the two timers know nothing of each other: each starts up to
`Drift` late (`StartDelays`) and sleeps for the period or up to `Drift` longer,
each time anew (`Sleeps`), so that any phase between the two is reached and none
is kept. A step that is due happens before time goes on; the order of steps that
are due at once is free, and so are the moments of handshakes and link failures.
`LeaveConnect` is the return of `connect()`, which joins the timers one after the
other (`JoinTime`). `Exception` has the exceptions that no event of the network
brings.

**`OrderedChannel`** is the abstract specification of the sending half: per
sender, a channel that may lose messages and may repeat the last one, but never
goes back and never makes one up.

**`RosbridgeClient`** (extends `Connection` and `Queues`) is the sending half.
`talk()` is split at every call it makes (`TalkBegin`, `TalkActive`,
`TalkEmpty`, `TalkNext`, `TalkCheck` and `TalkSend` for the two halves of
`Connection::send`, `TalkPop`); `resetTalkers()` is one step per queue, inside
the open handler. Both range-for loops keep the `end()` they took. Owners are
attached, push and are destroyed at any moment. Messages are numbered by their
push; 0 is the head. The server is what can be told from the messages it gets:
whether an owner is declared, the last message, its copies on this connection.
In the open handler the user's callback comes after `resetTalkers()`, and so does
its exception (`UserThrows`). `fresh`, `raced` and `outage` (an open connection
was lost, or a callback threw) are history variables for the properties.

**`Messages`** has the tables of `op.cpp`, one operator for each Serializer (the
record of the JSON fields it sets), the accessors of `Unserializer` with the
cases in which they throw, and `Recipient`, the switch of `listen()`. It is pure;
a JSON value is its type and its content.

**`Listeners`** (extends `Messages`) is the receiving half: `listen()` with one
step per push, and the constructor, thread and destructor of Subscribers and
ServiceServers, the thread split at every call that touches the queue, with the
callback as an interval during which others run. What arrives are the JSON
objects of `Messages`, so that `payload()` decides whether it throws and a
message finds every owner of its name, of a topic or of a service, request or
response. A Subscriber's exception ends the process (`terminated`), a
ServiceServer swallows it and answers nothing.

**`ServiceCalls`** is a ServiceClient: `call()` from the push of its request to
its return, the test of the time, the sleep and `nextById()` as actions of their
own, and `nextById()` one node at a time, because it takes no lock and `listen()`
goes on appending and dropping. A walk is a position among the messages ever
pushed; one that finds its node erased crashes, sees what was there, or goes on.
The sending half is reduced to what `RosbridgeClient` shows of it, the server
answers each transmission at most once, late, in any order, with `result` true
or false. `log` and `mark` are history variables.

**`PeriodicCalls`** is the abstract timer: its threads, and those of them that are in
a call of the function. It has one thread, makes another only when that has
ended, goes off between two calls, and while it is on there is always another
call. A function that has stopped its own timer (`stopped`) gives up one of these
promises: until the owner's next `stop()`, a second thread may be made beside the
first, and then two calls overlap.

**`Timer`** is `Timer`, its owner's thread and the threads it makes. `start()` is
split at the store of `_execute`, the construction of the thread and its
assignment to `_thd` - the thread runs before it is assigned - and `stop()` at
the store and the join. The function may call `stop()` itself, which throws,
returns or joins an earlier thread depending on what it reads of `_thd`; the thread
may not be made. The refinement of `PeriodicCalls` counts every thread: `Alive` and
`InCall` are sets.

**`Lifecycle`** (extends `Connection`) is the life of a `RosbridgeClient`: its
constructor and destructor statement by statement and member by member, against
the runner thread, which starts with the first member and is never joined, the
talker thread (an instance of `PeriodicCalls`), and `attach()`. The three
callbacks are `std::function`s that the constructor and the destructor assign
while the runner may be executing them. Of the loops over the vectors their
iterators are left, and the buffer in which they began: `push_back` on a full
vector moves the elements. A use of a member, an iterator or a callback that does
not exist (any more) is recorded as `fault`, and the behaviour ends there.

**`ConnectionProofs`**, **`KeepAliveProofs`**, **`RosbridgeClientProofs`**,
**`HeadMessageProofs`**, **`LifecycleProofs`**, **`ListenersProofs`** (with those
about `Messages`), **`ServiceCallsProofs`** and **`TimerProofs`** have the theorems
(section 5).
**`MCRosbridgeClient`**, **`MCListeners`** and **`MCServiceCalls`** name the owners
and messages of the runs. Definitions marked *Mutant* are plausible bugs, each
put in the place of the definition it precedes to see a property fail; no
specification uses them.

## 3. Runs

Each `.cfg` is run as `tlc -config X.cfg M`. Sizes are distinct states.

| run | module | result | states |
|---|---|---|---|
| `KeepAlive` | KeepAlive | passes | 457 640 |
| `KeepAliveDrop` | KeepAlive | `DroppedOnTimeoutOnly` violated | |
| `TalkPublisher` | MCRosbridgeClient | passes | 152 239 |
| `TalkClient` | MCRosbridgeClient | passes | 242 411 |
| `TalkData` | MCRosbridgeClient | `DeclaredBeforeData` violated | |
| `TalkPop` | MCRosbridgeClient | `PopTakesWhatWasSent` violated | |
| `Listen` | MCListeners | passes | 606 334 |
| `ListenAnswer` | MCListeners | `OnlyRequestsAnswered` violated | |
| `CallService` | MCServiceCalls | passes | 569 107 |
| `CallWalk` | MCServiceCalls | `SafeForOneConsumer` violated | |
| `Timer` | Timer | passes | 753 |
| `Lifecycle` | Lifecycle | passes | 128 588 |

What the passing runs show:

- `KeepAlive`. `DanglingOnlyAfterThrow`: `active` and `message_sender` refer to
  live locals except after an exception, until lines 116-117.
  `MissedOnlyByThrow`: only a connection torn down by an exception ends unreported.
  `SilenceBounded`: a connection is never served after a silence of more than
  the interval plus the longest cycle of each timer (a period and `Drift`),
  however these are phased; the bound is tight (it fails with one tick less).
  `AnsweringPeerKept`: once a first pong has arrived, a peer that answers in time
  is not dropped. `SilentPeerReplaced`,
  `Redials`, `RunnerEndsAfterShutdown` are the liveness of the runner.
  `ImplementsConnection`: with time left out this is `ConnSpec`, so the fairness
  that `RosbridgeClient` assumes of the connection follows from the timeouts.
- `TalkPublisher`, `TalkClient`. `NoUnderflow`;
  `InOrder` (refinement of `OrderedChannel`); `RepeatedOnlyByReset` and
  `HeadLostOnlyByRace` pin the two effects of one race: `reset()` between
  `next()` and `pop()`; three copies on one connection can happen and four
  cannot. `PopTakesAnotherOnlyByOverflow`: `pop()` removes what `next()` returned,
  unless the queue has been pushed past it between the two.
  `NothingLostWithoutOutage`; `Drains`. `ImplementsConnection`: `talk()` and
  `resetTalkers()`, called from its handler, leave the connection a `Connection`,
  fairness included.
- `Listen`. `CalledInOrder`, `NothingSkipped`, `NoUnderflow`, `OneLateCallback`,
  `OutboxInOrder` (a ServiceServer answers a request at most once, in order, and
  at most one answer follows the farewell), `QuietAfterDestructor`,
  `DestructorReturns`, for a Subscriber and a ServiceServer that share a name, so
  that each gets what was meant for the other.
- `CallService`. `NothingOnlyWithoutAnswer`: a call returns nothing only if no
  final answer to it was in the queue when it last found that time was left,
  unless a failed one had come first (`nextById()` finds that one again and
  again) or the queue overflowed. `CrashOnlyIfOvertaken`: the walk without the
  lock ends the process only at a node behind which as many messages have come as
  the queue of that client holds (one during the walk, if the queue is full).
  `CallReturns`: no flow of messages keeps a call.
- `Timer`. `RunningIsAccurate`: between the calls of the owner there is a thread,
  and only one, iff `is_running()` says so, unless the function has called
  `stop()`. `TerminatedOnlyBySelfStop`: only then does the destructor or a second
  `start()` end the process. `StopReturns`. `ImplementsPeriodicCalls`: with all
  that, users see a `PeriodicCalls`. The run reaches two threads in the function
  at once: the function calls `stop()` and catches the exception, `start()` finds
  `_execute` false, makes a second thread and sets the flag that the first then
  reads. The assignment to `_thd` then ends the process, unless the second thread
  has called `stop()` as well and joined the first.
- `Lifecycle`. `SafeUntilDestroyed`: as long as the client is not being destroyed,
  the only fault is an iterator that an `attach()` has moved; the runner's early
  start is harmless, unless the constructor fails. `TalkerSeesLiveConnection`:
  `talk()` never meets a connection that is not there, though it may meet the
  destroyed vector of talkers. `RunnerLeavesQueuesAlone`: after the three
  assignments of the destructor, and the handler they may have met, the runner
  goes on connecting but touches no queue. `DestructorReturns`.

The violations are disagreements between a header and the code, each with its
quotation in `PROJECT.json`: a healthy connection dropped because
`time_last_pong` dates from before a slow handshake; a message sent on a new
connection before the head; a message that `pop()` removes although it was never
sent, with one producer and one consumer; a walk of `nextById()` over a node that
`listen()` has erased, with one producer and one consumer too; a response that a
ServiceServer takes for a request, calls back with, and answers.

### Bounds, and why they are enough

- `KeepAlive`: a tick is half a second, the constants are those of the code
  (interval 2 s, periods 1 s, close timeout 0.5 s, sleep 1 s). A timer's thread
  starts or wakes up to one tick late (`Drift`): with two ticks in a period, every
  phase of one timer against the other is reached and left. An opening takes
  up to 3.5 s, more than the interval, so that the slow opening happens; a pong
  takes up to one tick and a callback up to one; joining both timers takes up to
  two cycles. Ages saturate at `MaxAge`,
  above every sum that a comparison makes. There is no bound on connections,
  failures or callbacks: the state space is complete.
- `RosbridgeClient`: `MaxPush` bounds the pushes of an owner (2 for the
  Publisher with its queue of one and farewell, so that the queue overflows with
  and without a message in flight; 3 for the client). Connections, resets,
  losses and exceptions are unbounded. These runs have one owner each; what the
  loops of `talk()` and `resetTalkers()` do with several, one of them added
  while a loop is under way, is covered by the proofs, which hold for every set
  of owners.
- `Listeners`: a Subscriber with an unbounded queue and a ServiceServer with a
  queue of one under one name, three arrivals, the second perhaps a request
  without `args`: they overflow the queue of one during a callback and leave one
  message to come, and are few enough for the other queue to have room for all.
  `ListenAnswer` has two arrivals, requests or responses.
- `ServiceCalls`: a queue of two that five arrivals (two copies of an answer to
  each of two calls, one foreign request) overflow during a walk, a timeout of
  two periods, so that a call looks at its queue once or twice, and a second
  call that meets the answers the first has left behind.
- `Timer`: `MaxStarts` = 3 threads, so that the owner restarts a timer whose
  predecessor was stopped by itself, and does so again.
- `Lifecycle`: `MaxOwners` = 4 queues in each vector; their buffers grow from 1 to
  2 to 4, and one of the `attach()` moves nothing. Connections are unbounded.
- Deadlock is checked in the `Talk` runs. It is not where the system may end: the
  runner thread after the destructor (`KeepAlive`), the process after
  `std::terminate` or all owners gone (`Listen`), the callers with their calls
  made (`CallService`), the timer destroyed (`Timer`), the first fault
  (`Lifecycle`); nor in the two runs of these modules that end in a violation.

### Fairness

Threads of the library are scheduled and their sleeps end. Connection attempts
and closing handshakes end because both have timeouts (`connection.h:130-131`);
`EventNoTimeout` shows that nothing else would end them. The application, the
server and the network owe nothing: no push, message, failure or destructor is
assumed; an open connection may stay open for ever. `Drains` is about
connections that do. A destructor that has begun goes on, and the callbacks of
the application are assumed to end. A thread in `call()` is scheduled; nothing
makes the server answer or `listen()` go on. In `Timer` the owner finishes the
call it has begun, and calls of the function end; in `Lifecycle` a destructor
that has begun goes on and the talker thread is scheduled, the runner not.

## 4. Abstractions

- A message accepted by websocketpp counts as transmitted; what sits in the
  socket when a connection is lost is an outage all the same.
- A `std::function` assigned while it is called is taken to be the old or the
  new one; a torn read is undefined and not modelled. `~Connection` leaves a
  detached thread that uses the object's members: their storage is taken to be
  intact, except in `Lifecycle`, where this use is a fault.
- In `RosbridgeClient` and `Listeners` the vectors are sequences, and an `attach()`
  while a loop runs appends to them. That it may move the elements away from the
  loop's iterators is `Lifecycle`'s: the other two are about behaviours in which
  it does not. `Listeners` leaves out what else goes on in the runner thread,
  exceptions included: after one, `listen()` is called again by the next
  connection.
- `c.close()` racing `terminate()` inside websocketpp, and `get_connection` failing
  on a malformed address, are not modelled.
- In `Lifecycle` a fault ends the behaviour: what undefined behaviour leads to is
  not described. One application thread constructs, attaches and destroys. The
  map of `listeners` has one key. What `talk()` does with a queue is an access to
  its element: the queue itself is shared with its owner and lives on.
- In `Timer` the function that calls `stop()` runs on the timer's thread; no other
  thread than the owner's calls `start()` or `stop()`.
- In `RosbridgeClient` a ServiceServer's farewell is its last message; that one
  answer may follow it is shown in `Listeners`.
- In `ServiceCalls` a request that is removed without having been sent is one
  that is not answered; a walk that runs on after an erased node stays on the
  list; `unique()` (`utils.h`) is trusted to keep requests apart; an exception
  of `result()` or `payload()` ends `call()` like a final answer. Destroying a
  ServiceClient while a thread is in `call()` is the application's error and is
  excluded.

## 5. Proofs

Every theorem holds for all values of the constants that the modules' named
assumptions allow: any owners, clients and callers, any queue size in `Int`, any
width of `size_t`, any bounds, any periods and timeouts. The assumptions say
little more than types, and every run evaluates those of its modules
(`SizeModulusAssumption`, `TalkersAssumption`, `KeepAliveAssumption`,
`ListenersAssumption`, `ServiceCallsAssumption`, `TimerAssumption`,
`LifecycleAssumption`). Only `AnsweringPeerKeptHolds` has an assumption of its
own: the longest cycle of the ping timer is not above the maximal interval.

None of the properties is inductive as it stands. Each proof module has an
invariant that is, written as a conjunction of named parts; one lemma per action
or group of actions shows that it is preserved, and lemmas about the queues say
what push, pop and next do to "the last messages pushed".

| module | theorems | invariant |
|---|---|---|
| `ConnectionProofs` | `DanglingOnlyAfterThrowHolds`, `MissedOnlyByThrowHolds` | `ConnInv` |
| `KeepAliveProofs` | `KeepAliveTypeCorrect`, `ImplementsConnectionSteps`, `KeepAliveInherits`, `SilenceBoundedHolds`, `AnsweringPeerKeptHolds` | `KInv` |
| `RosbridgeClientProofs` | `TypeCorrect`, `NeverUnderflows`, `ImplementsOrderedChannel`, `ClientImplementsConnectionSteps`, `ClientInherits` | `IInv` |
| `HeadMessageProofs` | `HeadLostOnlyByRaceHolds`, `NothingLostWithoutOutageHolds`, `RepeatedOnlyByResetHolds`, `PopTakesAnotherOnlyByOverflowHolds` | `IInv`, `HInv`, `NInv`, `CInv`, `SInv` |
| `LifecycleProofs` | `SafeUntilDestroyedHolds`, `TalkerSeesLiveConnectionHolds`, `RunnerLeavesQueuesAloneHolds`, `LifecycleTypeCorrect`, `LifecycleImplementsConnectionSteps`, `LifecycleInherits`, `LifecycleImplementsPeriodicCallsSteps` | `LInv` |
| `ListenersProofs` | `ListenersTypeCorrect`, `NoUnderflowHolds`, `CalledInOrderHolds`, `NothingSkippedHolds`, `OneLateCallbackHolds`, `OutboxInOrderHolds`, `QuietAfterDestructorHolds`; `DataIsReadBack`, `DeclarationsAreReadBack` | `RInv`; none |
| `ServiceCallsProofs` | `ServiceCallsTypeCorrect`, `CrashOnlyIfOvertakenHolds`, `NothingOnlyWithoutAnswerHolds` | `SInv` |
| `TimerProofs` | `TimerTypeCorrect`, `RunningIsAccurateHolds`, `TerminatedOnlyBySelfStopHolds`, `OneCallAtATimeHolds`, `ImplementsPeriodicCallsSteps` | `TInv` |

**`ConnInv`** says of each place of the runner thread whether the locals exist
(`LocalsExist`), what `active` and `message_sender` refer to (`ClearedInTime`) and
what the user was told last (`ReportedInTime`). Its theorems are about
`ConnSafety`, the connection by itself. `KeepAlive`, `RosbridgeClient` and
`Lifecycle` each put something around that connection, and each is proved to take
no step with it that `Connection` does not know (`ImplementsConnectionSteps`,
`ClientImplementsConnectionSteps`, `LifecycleImplementsConnectionSteps`); the two
properties then hold of all three (`KeepAliveInherits` and its like). These are
the safety halves of the refinement; fairness is left to the runs.

**`KInv`** relates the clocks: on a served connection a ping is never older than
what is gone of the current cycle (`PingRecent`, `PingSent`), the silence has not
exceeded the interval at the last check (`SilenceSoFar`), and after the first pong
an answering peer is at most the last ping behind (`PongsFollow`).

**`IInv`.** That `pop()` never meets an empty queue depends on what pushes and
resets can do to a queue between `empty()` and `pop()`; that the order is kept
depends on where the front of the queue is relative to what was sent:

- `Loops`: the two range-for loops stay within the vector, which only grows;
- `Contents(t)`: a queue holds exactly the last messages pushed, in order, and
  no more than its bound (so that a push leaves at least one message in a queue
  that had one);
- `Unsent(t)`: nothing behind the front of the queue has been transmitted;
- `Held(t)`: what `talk()` holds is not older than the last message transmitted
  and not behind the front.

The refinement of `OrderedChannel` has one step per case: a push or farewell is a
`HandOver`, a `TalkSend` that transmits is a `Transmit` by `Held`, all else
stutters.

**`HInv`**, inductive together with `IInv`, is about the head message:

- `ConnShape`: where the runner thread is determines what it has published, so
  that `active()` says no while a connection opens, and while it is open says
  yes and `send()` transmits (lemma `ActiveAnswers`);
- `ResetShape`: `resetTalkers()` runs inside the open handler only;
- `Attached`: the vector holds constructed owners only, and the queue of any
  other is new;
- `NotYetServed(t)`: a queue attached while the connection opens is left alone
  until it is open - without it, the open handshake would not preserve the next;
- `DeclaredInTime(t)`: while a connection is served and no reset has raced, what
  `pop()` has marked as sent, or is about to, has reached the server.

**`NInv`**, on top of both, is about the first connection, before an outage:
`Steady` (until then the one exception that matters is that of `connect()`, which
leaves `active` alone, so that `talk()` is past `active()` only while a connection
is served),
`Bounded(t)` (only the farewell is pushed beyond `MaxPush`, so that a roomy queue
never overflows) and `Kept(t)` (what has been removed was transmitted, and what
`talk()` holds is the front, transmitted before its `pop()`).

**`CInv`**, on top of `IInv` and `HInv`, counts copies. A transmission to come
counts like one that has been: `talk()` may hold the last message transmitted
(`Again`), and that message may be at the front of the queue and not be removed by
the `pop()` that is due (`Stays`). `Counted(t)` says that the copies on this
connection, with these two, are no more than one and the races, and that what
`talk()` holds differs from what `pop()` will remove only after a race
(`Overtaken`); `RacedTwice(t)`, with `Once` and `Due`, that there is one reset of a
queue on each connection and at most one race before it that still counts.

**`SInv`** of `HeadMessageProofs`, on top of `IInv`, is that what `talk()` holds is the
front of the queue or was dropped by as many later pushes as the queue holds
(`Shifted`). It needs the exact effect of a push on the length (`PushKeepsLast`);
the runner thread does not matter, since a reset only makes head messages due.

**`RInv`** says of the receiving half where the front of a queue is: it holds the
messages after number `Before(o)`, which are the last ones delivered (`Contents`),
an owner's `called` is before the front, at it between the callback and `pop()`,
and just before it if there is room for everything (`Progress`); `Vectors` and
`Round` keep `listen()` within the vectors while owners are attached; `Late` and
`Answers` follow a thread past the destructor.

**`SInv`** of `ServiceCallsProofs`: a queue that has erased a node is full
(`Lists`), a crash leaves the walk where it met one (`Crash`), an answer is to a request that was sent (`Asked`), what `call()` has
seen was pushed (`Marks`), and a walk has not passed the first answer that was
there when it began (`NotPassed`).

**`TInv`**: a thread that runs is owned by `_thd` or about to be (`Owned`), the flag
is off from the store of `stop()` on (`FlagOff`), and unless the function has
called `stop()` the flag tells whether the thread runs (`FlagTellsThread`). So
`start()` makes a thread beside another only after a `stop()` of the function, and
without one a call is alone (`OneCallAtATimeHolds`).

**`LInv`**: the talker thread lives from the last statement of the constructor to
the join (`TalkerLives`), the runner is in a loop only inside the handler that
runs it (`LoopsInHandlers`), what the destructor has replaced stays replaced
(`ReplacedInOrder`), a callback executed before has not been assigned to
(`HandlersValid`), and nothing is attached before the constructor returns
(`NothingAttached`). It needs nothing of `Buffer` but that it is a function of the
size. The types are an invariant by themselves, with `OwnersPaired`: the vectors
differ by the one queue that the owner under construction has still to attach,
without which `push_back` could pass the bound. `LInv` also gives the safety half
of `PeriodicCalls` for the talker timer inside of a client: `talk()` is called only
while the timer has its thread.

The proofs about `Messages` (at the head of `ListenersProofs`) go through the cases
of the tables and of the accessors: the two tables, each written by hand, are
inverse to each other, and what the Serializers write reaches the queue it is meant
for and reads back.

Every invariant and every action property of the passing runs is proved. Only
model-checked is liveness, which is out of the prover's reach as is ENABLED:
`Drains`, `SilentPeerReplaced`, `Redials`, `RunnerEndsAfterShutdown`, `CallReturns`,
`StopReturns`, both `DestructorReturns`, and the fairness halves of the two
`ImplementsConnection` and of `ImplementsPeriodicCalls`.

## 6. What is left

- The refinement of `PeriodicCalls` by the timers inside `KeepAlive` and
  `RosbridgeClient`, which have the abstract timer built in (the one of `Lifecycle`
  is proved).
- One abstract sender for `ServiceCalls` and `RosbridgeClient`: what the first
  assumes of the second is stated in section 4 and not proved.
- `get_connection` failing on a malformed address: `connect()` then goes on with a
  null connection.

## 7. Not modelled

- `Pinger` (`utils.h`, `utils.cpp`): a libcurl request without state of its own,
  which nothing in the library uses.
- Logging (the macros of `utils.h`): output only.
- picojson and optional (vendored): data types without behaviour over time. Their
  part in parsing and printing is taken for granted; `Messages` has what the
  library's own code does with their values.
- websocketpp and asio (vendored): only the connection state, its transitions and
  the handlers that the library relies on, in `Connection`; framing, the
  transport, TLS and HTTP are not.
- googletest (vendored) and the tests: read for what they say of the library.
- `popById()`: nothing in the library calls it. `abandon()` sets a flag that
  nothing reads; it is part of the destructors' actions. The queues of destroyed
  owners stay attached, in the models as in the code (deallocating them is among
  the future improvements of `README.md:106-110`); no property is about their
  number.
- A torn read of a `std::function` that is assigned while it is called.
