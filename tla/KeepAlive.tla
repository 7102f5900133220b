----------------------------- MODULE KeepAlive ------------------------------
(***************************************************************************)
(* Connection with its clocks: the ping timer, the pong check, and the     *)
(* timeouts of the opening and closing handshakes (connection.h:130-167).  *)
(* Time is discrete; Tick is one unit of it, and a step that is due is     *)
(* taken before the next Tick.                                             *)
(*                                                                         *)
(* The code compares time points.  Only their differences matter, so the   *)
(* module keeps ages: time_last_ping - time_last_pong is pongAge - pingAge.*)
(***************************************************************************)
EXTENDS Connection, Integers

CONSTANTS
    Period,       \* the sleep of both timers (1000 ms)
    Drift,        \* a thread of theirs starts, or wakes, at most this late
    MaxInterval,  \* max_ping_pong_interval (2 s)
    OpenTimeout,  \* resolving, connecting and the open handshake, at most
    CloseTimeout, \* the close handshake (500 ms)
    Pause,        \* the sleep at the end of connect() (1 s)
    RoundTrip,    \* a healthy link answers a ping within this time
    CallbackTime  \* the longest run of the user's on_connection

ASSUME KeepAliveAssumption ==
    /\ {Period, MaxInterval, OpenTimeout, CloseTimeout, Pause} \subseteq Nat \ {0}
    /\ {Drift, RoundTrip, CallbackTime} \subseteq Nat
    /\ RoundTrip < Period

VARIABLES
    pingAge,    \* now - time_last_ping
    pongAge,    \* now - time_last_pong
    sendWait,   \* until timer_ping_send calls handler_ping
    checkWait,  \* until timer_pong_check calls handler_ping_pong_check
    age,        \* since ws changed, or since the runner began to sleep or unwind
    unanswered, \* age of the oldest ping without a pong, or None
    answered,   \* a pong has arrived on this connection
    link        \* whether the peer can be reached

clockVars ==
    <<pingAge, pongAge, sendWait, checkWait, age, unanswered, answered, link>>
vars == <<connVars, clockVars>>

None == -1

\* The longest time between two calls of a timer's function.
Cycle == Period + Drift

\* Bound: no age that matters is greater.
MaxAge == OpenTimeout + CallbackTime + MaxInterval + 3 * Cycle

Older(a) == IF a = None \/ a = MaxAge THEN a ELSE a + 1

TypeOK ==
    /\ ConnTypeOK
    /\ {pingAge, pongAge, age} \subseteq 0 .. MaxAge
    /\ {sendWait, checkWait} \subseteq 0 .. Cycle
    /\ unanswered \in None .. MaxAge
    /\ answered \in BOOLEAN
    /\ link \in {"up", "silent"}

Init ==
    /\ ConnInit
    /\ pingAge = 0
    /\ pongAge = 0
    /\ sendWait = 0
    /\ checkWait = 0
    /\ age = 0
    /\ unanswered = None
    /\ answered = FALSE
    /\ link = "up"

\* The timers are locals of connect().
TimersRun ==
    runner \in {"dial", "run", "on_open", "on_close", "ran", "ran_cleared",
                "sleep", "unwind"}

-----------------------------------------------------------------------------
(***************************************************************************)
(* The two timers.  Timer::start makes a thread that calls the function    *)
(* first and then sleeps, for the period or longer, and so on.  The two    *)
(* threads know nothing of each other: each starts when it is scheduled    *)
(* and is late by an amount of its own each time.                          *)
(***************************************************************************)
StartDelays == 0 .. Drift

Sleeps == Period .. Cycle

\* Mutant: time_last_ping is never set again.
PingSendUnrecorded ==
    /\ TimersRun
    /\ sendWait = 0
    /\ sendWait' \in Sleeps
    /\ unanswered' = IF ws = "open" /\ unanswered = None THEN 0 ELSE unanswered
    /\ UNCHANGED <<connVars, pingAge, pongAge, checkWait, age, answered, link>>

\* handler_ping: c.ping throws, and time_last_ping stays, unless ws is open.
PingSend ==
    /\ TimersRun
    /\ sendWait = 0
    /\ sendWait' \in Sleeps
    /\ IF ws = "open"
       THEN /\ pingAge' = 0
            /\ unanswered' = IF unanswered = None THEN 0 ELSE unanswered
       ELSE UNCHANGED <<pingAge, unanswered>>
    /\ UNCHANGED <<connVars, pongAge, checkWait, age, answered, link>>

\* Mutant: the operands are swapped.
OverdueSwapped == pingAge - pongAge > MaxInterval

Overdue == pongAge - pingAge > MaxInterval

PongCheck ==
    /\ TimersRun
    /\ checkWait = 0
    /\ checkWait' \in Sleeps
    /\ IF Overdue /\ ws = "open"
       THEN PongMissed /\ age' = 0
       ELSE UNCHANGED <<connVars, age>>
    /\ UNCHANGED <<pingAge, pongAge, sendWait, unanswered, answered, link>>

\* Mutant: time_last_pong stays.
PongUnrecorded ==
    /\ runner = "run"
    /\ ws = "open"
    /\ link = "up"
    /\ unanswered # None
    /\ unanswered' = None
    /\ answered' = TRUE
    /\ UNCHANGED <<connVars, pingAge, pongAge, sendWait, checkWait, age, link>>

\* handler_pong, on the runner thread.
Pong ==
    /\ runner = "run"
    /\ ws = "open"
    /\ link = "up"
    /\ unanswered # None
    /\ pongAge' = 0
    /\ unanswered' = None
    /\ answered' = TRUE
    /\ UNCHANGED <<connVars, pingAge, sendWait, checkWait, age, link>>

-----------------------------------------------------------------------------
(***************************************************************************)
(* The steps of Connection, with what they do to the clocks.               *)
(***************************************************************************)
StartRound ==
    /\ NewClient
    /\ pingAge' = 0
    /\ pongAge' = 0
    /\ sendWait' \in StartDelays
    /\ checkWait' \in StartDelays
    /\ age' = 0
    /\ unanswered' = None
    /\ answered' = FALSE
    /\ UNCHANGED link

RunnerStep ==
    /\ \/ RunnerEnds \/ Dial \/ RunReturns \/ ClearSender \/ ClearActive
       \/ OnConnection \/ OnClose
    /\ age' = IF runner' = "sleep" THEN 0 ELSE age
    /\ UNCHANGED <<pingAge, pongAge, sendWait, checkWait, unanswered, answered, link>>

\* connect() returns or has been unwound: the timers are joined, the time points
\* and handlers are gone.
LeaveConnect ==
    /\ ConnectReturns
    /\ runner = "sleep" => age >= Pause
    /\ pingAge' = 0
    /\ pongAge' = 0
    /\ sendWait' = 0
    /\ checkWait' = 0
    /\ age' = 0
    /\ unanswered' = None
    /\ answered' = FALSE
    /\ UNCHANGED link

\* Mutant: no timeout ends an attempt to open the connection.
EventNoTimeout ==
    /\ \/ (OpenHandshake \/ RemoteClose \/ MessageThrows \/ OpenFails) /\ link = "up"
       \/ Terminate
    /\ age' = 0
    /\ UNCHANGED <<pingAge, pongAge, sendWait, checkWait, unanswered, answered, link>>

Event ==
    /\ \/ OpenHandshake /\ link = "up"
       \/ RemoteClose /\ link = "up"
       \/ MessageThrows /\ link = "up"
       \/ OpenFails
       \/ Terminate
    /\ age' = 0
    /\ UNCHANGED <<pingAge, pongAge, sendWait, checkWait, unanswered, answered, link>>

Exception ==
    /\ ConnectThrows \/ CallbackThrows
    /\ age' = 0
    /\ UNCHANGED <<pingAge, pongAge, sendWait, checkWait, unanswered, answered, link>>

Destructor == Shutdown /\ UNCHANGED clockVars

\* The peer vanishes without a word, and comes back before the next round.
LinkFails ==
    /\ link = "up"
    /\ link' = "silent"
    /\ UNCHANGED <<connVars, pingAge, pongAge, sendWait, checkWait, age, unanswered,
                   answered>>

LinkRecovers ==
    /\ link = "silent"
    /\ ws # "open"
    /\ link' = "up"
    /\ UNCHANGED <<connVars, pingAge, pongAge, sendWait, checkWait, age, unanswered,
                   answered>>

-----------------------------------------------------------------------------
(***************************************************************************)
(* Time passes while the runner waits: for the network in c.run(), in the  *)
(* user's callback, in the final sleep, for the timers to be joined: one   *)
(* after the other, the flag of the second being cleared after the first   *)
(* join.  No timeout, timer or answer of a healthy link is overrun.        *)
(***************************************************************************)
JoinTime == 2 * Cycle

MayWait ==
    \/ /\ runner = "run"
       /\ \/ ws = "connecting" /\ age < OpenTimeout
          \/ ws = "closing"    /\ age < CloseTimeout
          \/ ws = "open" /\ (link = "up" /\ unanswered # None => unanswered < RoundTrip)
    \/ runner = "on_open" /\ age < CallbackTime
    \/ runner = "sleep"   /\ age < Pause + JoinTime
    \/ runner = "unwind"  /\ age < JoinTime

\* Mutant: the ping timer may be late.
TickOverrun ==
    /\ MayWait
    /\ checkWait > 0
    /\ sendWait' = sendWait - 1
    /\ checkWait' = checkWait - 1
    /\ pingAge' = Older(pingAge)
    /\ pongAge' = Older(pongAge)
    /\ age' = Older(age)
    /\ unanswered' = Older(unanswered)
    /\ UNCHANGED <<connVars, answered, link>>

Tick ==
    /\ MayWait
    /\ sendWait > 0
    /\ checkWait > 0
    /\ sendWait' = sendWait - 1
    /\ checkWait' = checkWait - 1
    /\ pingAge' = Older(pingAge)
    /\ pongAge' = Older(pongAge)
    /\ age' = Older(age)
    /\ unanswered' = Older(unanswered)
    /\ UNCHANGED <<connVars, answered, link>>

Next ==
    \/ PingSend \/ PongCheck \/ Pong
    \/ StartRound \/ RunnerStep \/ LeaveConnect \/ Event \/ Exception \/ Destructor
    \/ LinkFails \/ LinkRecovers
    \/ Tick

(***************************************************************************)
(* The threads of the library are scheduled, time passes, the timeouts of  *)
(* the handshakes expire.  An open connection need not end.                *)
(***************************************************************************)
Fairness ==
    /\ WF_vars(StartRound \/ RunnerStep \/ LeaveConnect)
    /\ WF_vars(PingSend)
    /\ WF_vars(PongCheck)
    /\ WF_vars(Pong)
    /\ WF_vars(ws = "connecting" /\ Event)
    /\ WF_vars(ws = "closing" /\ Event)
    /\ WF_vars(Tick)

Spec == Init /\ [][Next]_vars /\ Fairness

-----------------------------------------------------------------------------
(***************************************************************************)
(* Properties.                                                             *)
(***************************************************************************)
Silence == IF pongAge < age THEN pongAge ELSE age

\* However the two timers are phased and drift apart, and although
\* time_last_pong is first set before the connection opens, c.run() does not
\* serve a connection that has been silent, since its last pong or since it
\* opened, for longer than the maximal interval and a cycle of each timer
\* (connection.h:147-163).
SilenceBounded == Serving => Silence <= MaxInterval + 2 * Cycle

CheckDrops == ws = "open" /\ ws' = "closing" /\ checkWait' # checkWait

\* A peer that answers every ping in time is dropped by the pong check, if
\* at all, before its first pong: time_last_pong then still dates from the
\* start of connect() (connection.h:141, 159).
AnsweringPeerKept ==
    [][CheckDrops /\ link = "up" /\ Serving => ~answered]_vars

\* A peer that vanishes is given up and a new connection is attempted,
\* although no packet ever tells that it has gone.
SilentPeerReplaced ==
    (link = "silent" /\ ws = "open") ~> (runner = "dial" \/ shutting_down)

\* Time left out, this is the untimed Connection, fairness included: the
\* timers and timeouts justify what RosbridgeClient assumes of the runner
\* thread and of the handshakes, from every phase of the clocks.
ImplementsConnection == ConnSpec

(***************************************************************************)
(* What the documentation promises and the code does not keep.             *)
(***************************************************************************)

\* connection.h:37-38: the parameter is the "Maximum number of seconds allowed
\* between a ping and a pong; in case of ping pong timeout, the connection is
\* dropped" - so it is dropped only when a ping has waited that long.
DroppedOnTimeoutOnly ==
    [][CheckDrops => unanswered >= MaxInterval]_vars

=============================================================================
