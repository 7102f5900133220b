-------------------------- MODULE KeepAliveProofs --------------------------
(***************************************************************************)
(* Proofs about KeepAlive, for every period, interval, timeout and         *)
(* round-trip time: that it is a Connection, how long a silent peer is     *)
(* served, and that an answering one is kept.                              *)
(***************************************************************************)
EXTENDS KeepAlive, ConnectionProofs

-----------------------------------------------------------------------------
(***************************************************************************)
(* The steps of Connection.                                                *)
(***************************************************************************)

\* With time left out, a step of KeepAlive is one of Connection, or none.
LEMMA StepsOfConnection == [Next]_vars => [ConnNext]_connVars
  <1>. SUFFICES ASSUME [Next]_vars PROVE [ConnNext]_connVars
    OBVIOUS
  <1>1. CASE StartRound \/ RunnerStep \/ LeaveConnect \/ Destructor
    BY <1>1 DEF StartRound, RunnerStep, LeaveConnect, Destructor, ConnNext, RunnerSteps
  <1>2. CASE Event \/ Exception \/ PongCheck
    BY <1>2 DEF Event, Exception, PongCheck, ConnNext, NetworkEvents
  <1>3. CASE PingSend \/ Pong \/ LinkFails \/ LinkRecovers \/ Tick \/ UNCHANGED vars
    BY <1>3 DEF PingSend, Pong, LinkFails, LinkRecovers, Tick, vars
  <1>. QED  BY <1>1, <1>2, <1>3 DEF Next

-----------------------------------------------------------------------------
(***************************************************************************)
(* The clocks.                                                             *)
(***************************************************************************)

\* While a connection is served, a ping was sent in the current cycle of
\* timer_ping_send, unless the connection is younger than that.
PingRecent ==
    Serving => age <= Cycle - sendWait \/ pingAge <= Cycle - sendWait

\* The silence since the last pong or the opening has at most lasted the
\* interval and a cycle at the last check, and what has passed since by now.
SilenceSoFar == Serving => Silence <= MaxInterval + 2 * Cycle - checkWait

\* Nothing was sent or answered before the connection opens.
NothingYet == ws = "connecting" => unanswered = None /\ ~answered

\* A ping that waits, and the last ping of a connection with a pong, was sent
\* in the current cycle of timer_ping_send.
PingSent ==
    (Serving /\ (unanswered # None \/ answered)) => pingAge <= Cycle - sendWait

\* After the first pong, a peer that answers in time is at most one ping
\* behind, and that ping was the last one.
PongsFollow ==
    (Serving /\ answered /\ link = "up") =>
        /\ runner = "run"
        /\ unanswered = None => pongAge <= pingAge
        /\ unanswered # None => /\ unanswered <= RoundTrip
                                /\ Period - sendWait <= unanswered
                                /\ pongAge - pingAge <= Cycle

KInv == TypeOK /\ PingRecent /\ SilenceSoFar /\ NothingYet /\ PingSent /\ PongsFollow

\* The constants, one by one.
LEMMA ConstantTypes ==
    /\ Period \in Nat /\ Period > 0 /\ MaxInterval \in Nat /\ OpenTimeout \in Nat
    /\ CallbackTime \in Nat /\ RoundTrip \in Nat /\ RoundTrip < Period
    /\ Drift \in Nat /\ Cycle \in Nat /\ Cycle >= Period
    /\ MaxAge \in Nat /\ MaxAge > Cycle
  <1>1. /\ Period \in Nat \ {0} /\ MaxInterval \in Nat /\ OpenTimeout \in Nat
        /\ CallbackTime \in Nat /\ RoundTrip \in Nat /\ RoundTrip < Period
        /\ Drift \in Nat
    BY KeepAliveAssumption
  <1>2. Period > 0
    BY <1>1
  <1>. QED  BY <1>1, <1>2 DEF MaxAge, Cycle

\* The range of the clocks, one by one.
ClockTypes ==
    /\ pingAge \in 0 .. MaxAge /\ pongAge \in 0 .. MaxAge /\ age \in 0 .. MaxAge
    /\ sendWait \in 0 .. Cycle /\ checkWait \in 0 .. Cycle
    /\ unanswered \in None .. MaxAge
    /\ answered \in BOOLEAN
    /\ link \in {"up", "silent"}

\* Types of the connection and of the clocks.
LEMMA TypesSplit == TypeOK <=> ConnTypeOK /\ ClockTypes
  BY DEF TypeOK, ClockTypes

\* The invariant holds initially.
LEMMA InitKInv == Init => KInv
  <1>. SUFFICES ASSUME Init PROVE KInv
    OBVIOUS
  <1>1. ConnTypeOK
    BY InitConnInv DEF Init, ConnInv
  <1>2. ClockTypes
    <2>1. answered \in BOOLEAN
      BY Zenon DEF Init
    <2>. QED  BY <2>1, ConstantTypes DEF Init, ClockTypes, None
  <1>3. TypeOK
    BY <1>1, <1>2, TypesSplit
  <1>4. ~Serving /\ ws = "closed"
    BY DEF Init, ConnInit, Serving
  <1>. QED  BY <1>3, <1>4 DEF KInv, PingRecent, SilenceSoFar, NothingYet, PingSent, PongsFollow

\* The steps keep the clocks in range.
LEMMA ClockTypesKept == ASSUME ClockTypes, [Next]_vars PROVE ClockTypes'
  <1>. USE ConstantTypes DEF ClockTypes, None
  <1>1. CASE PingSend
    BY <1>1 DEF PingSend, Sleeps
  <1>2. CASE PongCheck
    BY <1>2 DEF PongCheck, Sleeps
  <1>3. CASE Pong
    BY <1>3 DEF Pong
  <1>4. CASE StartRound
    <2>1. answered' \in BOOLEAN
      BY <1>4, Zenon DEF StartRound
    <2>. QED  BY <1>4, <2>1 DEF StartRound, StartDelays, Cycle
  <1>10. CASE LeaveConnect
    <2>1. answered' \in BOOLEAN
      BY <1>10, Zenon DEF LeaveConnect
    <2>. QED  BY <1>10, <2>1 DEF LeaveConnect
  <1>5. CASE RunnerStep
    BY <1>5 DEF RunnerStep
  <1>6. CASE Event \/ Exception
    BY <1>6 DEF Event, Exception
  <1>7. CASE Destructor \/ UNCHANGED vars
    BY <1>7 DEF Destructor, clockVars, vars
  <1>8. CASE LinkFails \/ LinkRecovers
    BY <1>8 DEF LinkFails, LinkRecovers
  <1>9. CASE Tick
    <2>1. /\ Older(pingAge) \in 0 .. MaxAge /\ Older(pongAge) \in 0 .. MaxAge
          /\ Older(age) \in 0 .. MaxAge /\ Older(unanswered) \in None .. MaxAge
      BY DEF Older
    <2>. QED  BY <1>9, <2>1 DEF Tick
  <1>. QED  BY <1>1, <1>2, <1>3, <1>4, <1>5, <1>6, <1>7, <1>8, <1>9, <1>10 DEF Next

\* A connection begins to be served by the open handshake only.
LEMMA BeginsToServe ==
    ASSUME ConnNext, ~Serving, Serving' PROVE OpenHandshake
  <1>1. ~(NewClient \/ RunnerEnds \/ Dial)
    BY DEF NewClient, RunnerEnds, Dial, Serving
  <1>2. ~(RunReturns \/ OnConnection \/ OnClose)
    BY DEF RunReturns, OnConnection, OnClose, Serving
  <1>3. ~(ClearSender \/ ClearActive \/ ConnectReturns)
    BY DEF ClearSender, ClearActive, ConnectReturns, Serving
  <1>4. ~(OpenFails \/ RemoteClose \/ Terminate \/ MessageThrows)
    BY DEF OpenFails, RemoteClose, Terminate, MessageThrows, Serving
  <1>5. ~(ConnectThrows \/ CallbackThrows \/ PongMissed \/ Shutdown)
    BY DEF ConnectThrows, CallbackThrows, PongMissed, Shutdown, Serving
  <1>. QED  BY <1>1, <1>2, <1>3, <1>4, <1>5 DEF ConnNext, RunnerSteps, NetworkEvents

\* The steps of the runner, of the network and of other threads, apart from
\* those of the timers and the clock.
LEMMA ConnectionKeepsClocks ==
    ASSUME KInv, ConnNext, ClockTypes',
           \/ StartRound \/ RunnerStep \/ LeaveConnect \/ Event \/ Exception
           \/ Destructor
    PROVE  PingRecent' /\ SilenceSoFar' /\ NothingYet' /\ PingSent' /\ PongsFollow'
  <1>. USE ConstantTypes DEF KInv, ClockTypes, None
  <1>1. ClockTypes
    BY TypesSplit
  <1>2. CASE StartRound
    BY <1>2 DEF StartRound, NewClient, Serving, PingRecent, SilenceSoFar, NothingYet,
                PingSent, PongsFollow
  <1>6. CASE LeaveConnect
    <2>1. ~Serving' /\ unanswered' = None /\ ~answered'
      BY <1>6 DEF LeaveConnect, ConnectReturns, Serving
    <2>. QED
      BY <2>1 DEF PingRecent, SilenceSoFar, NothingYet, PingSent, PongsFollow
  <1>3. CASE Event
    <2>1. UNCHANGED <<pingAge, pongAge, sendWait, checkWait, unanswered, answered, link>>
      BY <1>3 DEF Event
    <2>2. age' = 0
      BY <1>3 DEF Event
    <2>3. PingRecent' /\ SilenceSoFar'
      BY <1>1, <2>1, <2>2 DEF PingRecent, SilenceSoFar, Silence
    <2>4. ws' # "connecting"
      BY <1>3 DEF Event, OpenHandshake, OpenFails, RemoteClose, Terminate, MessageThrows
    <2>5. Serving' => ws = "connecting"
      BY <1>3 DEF Event, OpenHandshake, OpenFails, RemoteClose, Terminate, MessageThrows,
                  Serving
    <2>6. NothingYet' /\ PingSent' /\ PongsFollow'
      BY <2>1, <2>4, <2>5 DEF NothingYet, PingSent, PongsFollow
    <2>. QED  BY <2>3, <2>6
  <1>5. CASE Exception
    <2>1. UNCHANGED <<pingAge, pongAge, sendWait, checkWait, unanswered, answered, link, ws>>
      BY <1>5 DEF Exception, ConnectThrows, CallbackThrows
    <2>2. ~Serving'
      BY <1>5 DEF Exception, ConnectThrows, CallbackThrows, Serving
    <2>. QED
      BY <2>1, <2>2 DEF PingRecent, SilenceSoFar, NothingYet, PingSent, PongsFollow
  <1>4. CASE RunnerStep \/ Destructor
    <2>1. UNCHANGED <<pingAge, pongAge, sendWait, checkWait, unanswered, answered, link>>
      BY <1>4 DEF RunnerStep, Destructor, clockVars
    <2>2. age' = age \/ age' = 0
      BY <1>4 DEF RunnerStep, Destructor, clockVars
    <2>3. ~OpenHandshake /\ UNCHANGED ws
      BY <1>4 DEF RunnerStep, Destructor, OpenHandshake, RunnerEnds, Dial, RunReturns,
                  ClearSender, ClearActive, OnConnection, OnClose, Shutdown
    <2>4. Serving' => Serving
      BY <2>3, BeginsToServe
    <2>5. PingRecent' /\ SilenceSoFar'
      BY <1>1, <2>1, <2>2, <2>4 DEF PingRecent, SilenceSoFar, Silence
    <2>6. Serving' /\ runner = "run" => runner' = "run"
      BY <1>4 DEF RunnerStep, Destructor, RunnerEnds, Dial, RunReturns, ClearSender,
                  ClearActive, OnConnection, OnClose, Shutdown, Serving
    <2>7. NothingYet' /\ PingSent' /\ PongsFollow'
      BY <2>1, <2>3, <2>4, <2>6 DEF NothingYet, PingSent, PongsFollow
    <2>. QED  BY <2>5, <2>7
  <1>. QED  BY <1>2, <1>3, <1>4, <1>5, <1>6

\* A call of the ping timer.
LEMMA PingSendKeepsClocks ==
    ASSUME KInv, ClockTypes', PingSend
    PROVE  PingRecent' /\ SilenceSoFar' /\ NothingYet' /\ PingSent' /\ PongsFollow'
  <1>. USE ConstantTypes DEF None
  <1>1. ClockTypes
    BY TypesSplit DEF KInv
  <1>2. PICK delay \in Period .. Cycle :
        /\ sendWait = 0 /\ sendWait' = delay
        /\ UNCHANGED <<connVars, pongAge, checkWait, age, answered, link>>
    BY DEF PingSend, Sleeps
  <1>3. Serving' = Serving /\ UNCHANGED <<ws, runner>>
    BY <1>2 DEF Serving, connVars
  <1>4. Silence' = Silence
    BY <1>2 DEF Silence
  <1>5. SilenceSoFar'
    BY <1>2, <1>3, <1>4 DEF KInv, SilenceSoFar
  <1>6. CASE ws = "open"
    <2>1. pingAge' = 0 /\ unanswered' = IF unanswered = None THEN 0 ELSE unanswered
      BY <1>6 DEF PingSend
    <2>2. PingRecent' /\ PingSent'
      BY <1>2, <2>1 DEF PingRecent, PingSent
    <2>3. NothingYet'
      BY <1>3, <1>6 DEF NothingYet
    <2>4. PongsFollow'
      BY <1>1, <1>2, <1>3, <2>1 DEF KInv, PongsFollow, PingSent, ClockTypes
    <2>. QED  BY <1>5, <2>2, <2>3, <2>4
  <1>7. CASE ws # "open"
    <2>1. ~Serving /\ UNCHANGED unanswered
      BY <1>7 DEF PingSend, Serving
    <2>. QED  BY <1>2, <1>3, <2>1 DEF KInv, PingRecent, SilenceSoFar, NothingYet, PingSent,
                                      PongsFollow
  <1>. QED  BY <1>6, <1>7

\* A call of the pong check.
LEMMA PongCheckKeepsClocks ==
    ASSUME KInv, ClockTypes', PongCheck
    PROVE  PingRecent' /\ SilenceSoFar' /\ NothingYet' /\ PingSent' /\ PongsFollow'
  <1>. USE ConstantTypes DEF None
  <1>1. ClockTypes
    BY TypesSplit DEF KInv
  <1>2. PICK delay \in Period .. Cycle :
        /\ checkWait = 0 /\ checkWait' = delay
        /\ UNCHANGED <<pingAge, pongAge, sendWait, unanswered, answered, link>>
    BY DEF PongCheck, Sleeps
  <1>3. CASE Overdue /\ ws = "open"
    <2>1. ~Serving' /\ ws' = "closing"
      BY <1>3 DEF PongCheck, PongMissed, Serving
    <2>. QED  BY <2>1 DEF PingRecent, SilenceSoFar, NothingYet, PingSent, PongsFollow
  <1>4. CASE ~(Overdue /\ ws = "open")
    <2>1. UNCHANGED <<connVars, age>>
      BY <1>4 DEF PongCheck
    <2>2. Serving' = Serving /\ UNCHANGED <<ws, runner>>
      BY <2>1 DEF Serving, connVars
    <2>3. Serving => Silence <= MaxInterval + Cycle
      BY <1>1, <1>4 DEF KInv, PingRecent, Overdue, Silence, Serving, ClockTypes
    <2>4. Silence' = Silence /\ Silence \in Nat
      BY <1>1, <1>2, <2>1 DEF Silence, ClockTypes
    <2>5. SilenceSoFar'
      BY <1>2, <2>2, <2>3, <2>4 DEF SilenceSoFar
    <2>6. PingRecent' /\ NothingYet' /\ PingSent' /\ PongsFollow'
      BY <1>2, <2>1, <2>2 DEF KInv, PingRecent, NothingYet, PingSent, PongsFollow
    <2>. QED  BY <2>5, <2>6
  <1>. QED  BY <1>3, <1>4

\* A pong.
LEMMA PongKeepsClocks ==
    ASSUME KInv, ClockTypes', Pong
    PROVE  PingRecent' /\ SilenceSoFar' /\ NothingYet' /\ PingSent' /\ PongsFollow'
  <1>. USE ConstantTypes DEF None
  <1>1. ClockTypes
    BY TypesSplit DEF KInv
  <1>2. /\ pongAge' = 0 /\ unanswered' = None /\ runner = "run" /\ ws = "open"
        /\ unanswered # None
        /\ UNCHANGED <<connVars, pingAge, sendWait, checkWait, age, link>>
    BY DEF Pong
  <1>3. Serving' = Serving /\ UNCHANGED <<ws, runner>>
    BY <1>2 DEF Serving, connVars
  <1>4. Silence' = 0
    BY <1>1, <1>2 DEF Silence, ClockTypes
  <1>5. SilenceSoFar' /\ NothingYet'
    BY <1>1, <1>2, <1>3, <1>4 DEF SilenceSoFar, NothingYet, ClockTypes
  <1>6. PingRecent' /\ PingSent' /\ PongsFollow'
    BY <1>1, <1>2, <1>3 DEF KInv, PingRecent, PingSent, PongsFollow, ClockTypes
  <1>. QED  BY <1>5, <1>6

\* Time passes.
LEMMA TickKeepsClocks ==
    ASSUME KInv, ClockTypes', Tick
    PROVE  PingRecent' /\ SilenceSoFar' /\ NothingYet' /\ PingSent' /\ PongsFollow'
  <1>. USE ConstantTypes DEF None
  <1>1. ClockTypes
    BY TypesSplit DEF KInv
  <1>2. /\ sendWait > 0 /\ sendWait' = sendWait - 1
        /\ checkWait > 0 /\ checkWait' = checkWait - 1
        /\ pingAge' = Older(pingAge) /\ pongAge' = Older(pongAge) /\ age' = Older(age)
        /\ unanswered' = Older(unanswered)
        /\ UNCHANGED <<connVars, answered, link>>
    BY DEF Tick
  <1>3. Serving' = Serving /\ UNCHANGED <<ws, runner>>
    BY <1>2 DEF Serving, connVars
  <1>4. /\ pingAge <= pingAge' /\ pingAge' <= pingAge + 1
        /\ pongAge <= pongAge' /\ pongAge' <= pongAge + 1
        /\ age <= age' /\ age' <= age + 1
        /\ unanswered' = None <=> unanswered = None
    BY <1>1, <1>2 DEF Older, ClockTypes
  <1>5. pongAge <= pingAge => pongAge' <= pingAge'
    BY <1>1, <1>2 DEF Older, ClockTypes
  <1>6. pongAge - pingAge <= Cycle => pongAge' - pingAge' <= Cycle
    BY <1>1, <1>2 DEF Older, ClockTypes
  <1>7. unanswered # None /\ unanswered < RoundTrip => unanswered' = unanswered + 1
    BY <1>1, <1>2 DEF Older, ClockTypes
  <1>8. PingRecent' /\ NothingYet' /\ PingSent'
    BY <1>1, <1>2, <1>3, <1>4 DEF KInv, PingRecent, NothingYet, PingSent, ClockTypes
  <1>9. SilenceSoFar'
    <2>1. Silence \in Nat /\ Silence' \in Nat /\ Silence' <= Silence + 1
      BY <1>1, <1>4 DEF Silence, ClockTypes
    <2>. QED  BY <1>1, <1>2, <1>3, <2>1 DEF KInv, SilenceSoFar, ClockTypes
  <1>10. PongsFollow'
    <2>. SUFFICES ASSUME Serving', answered', link' = "up"
                  PROVE  /\ runner' = "run"
                         /\ unanswered' = None => pongAge' <= pingAge'
                         /\ unanswered' # None => /\ unanswered' <= RoundTrip
                                                  /\ Period - sendWait' <= unanswered'
                                                  /\ pongAge' - pingAge' <= Cycle
      BY DEF PongsFollow
    <2>1. /\ runner = "run"
          /\ unanswered = None => pongAge <= pingAge
          /\ unanswered # None => /\ Period - sendWait <= unanswered
                                  /\ pongAge - pingAge <= Cycle
      BY <1>2, <1>3 DEF KInv, PongsFollow
    <2>2. unanswered # None => unanswered < RoundTrip
      BY <1>2, <1>3, <2>1 DEF Tick, MayWait, Serving
    <2>. QED  BY <1>1, <1>2, <1>3, <1>4, <1>5, <1>6, <1>7, <2>1, <2>2 DEF ClockTypes
  <1>. QED  BY <1>8, <1>9, <1>10

\* The peer vanishes or comes back.
LEMMA LinkKeepsClocks ==
    ASSUME KInv, LinkFails \/ LinkRecovers
    PROVE  PingRecent' /\ SilenceSoFar' /\ NothingYet' /\ PingSent' /\ PongsFollow'
  <1>1. /\ UNCHANGED <<connVars, pingAge, pongAge, sendWait, checkWait, age, unanswered,
                       answered>>
        /\ link' = "up" => ws # "open"
    BY DEF LinkFails, LinkRecovers
  <1>2. Serving' = Serving /\ UNCHANGED <<ws, runner, Silence>>
    BY <1>1 DEF Serving, Silence, connVars
  <1>3. PingRecent' /\ SilenceSoFar' /\ NothingYet' /\ PingSent'
    BY <1>1, <1>2 DEF KInv, PingRecent, SilenceSoFar, NothingYet, PingSent
  <1>4. PongsFollow'
    BY <1>1, <1>2 DEF KInv, PongsFollow, Serving
  <1>. QED  BY <1>3, <1>4

\* The invariant is inductive.
LEMMA KInvPreserved == KInv /\ [Next]_vars => KInv'
  <1>. SUFFICES ASSUME KInv, [Next]_vars PROVE KInv'
    OBVIOUS
  <1>1. ClockTypes'
    BY TypesSplit, ClockTypesKept DEF KInv
  <1>2. ConnTypeOK'
    <2>1. CASE ConnNext
      BY <2>1, TypesSplit, ConnTypesKept DEF KInv
    <2>2. CASE UNCHANGED connVars
      BY <2>2, TypesSplit DEF KInv, ConnTypeOK, connVars
    <2>. QED  BY <2>1, <2>2, StepsOfConnection
  <1>3. TypeOK'
    BY <1>1, <1>2 DEF TypeOK, ClockTypes
  <1>4. PingRecent' /\ SilenceSoFar' /\ NothingYet' /\ PingSent' /\ PongsFollow'
    <2>1. CASE UNCHANGED vars
      BY <2>1 DEF vars, clockVars, connVars, KInv, PingRecent, SilenceSoFar, NothingYet,
                  PingSent, PongsFollow, Serving, Silence
    <2>2. CASE StartRound \/ RunnerStep \/ LeaveConnect \/ Event \/ Exception \/ Destructor
      <3>1. ConnNext
        BY <2>2 DEF StartRound, RunnerStep, LeaveConnect, Event, Exception, Destructor, ConnNext,
                    RunnerSteps, NetworkEvents
      <3>. QED  BY <1>1, <2>2, <3>1, ConnectionKeepsClocks
    <2>3. CASE PingSend \/ PongCheck \/ Pong
      BY <1>1, <2>3, PingSendKeepsClocks, PongCheckKeepsClocks, PongKeepsClocks
    <2>4. CASE LinkFails \/ LinkRecovers \/ Tick
      BY <1>1, <2>4, LinkKeepsClocks, TickKeepsClocks
    <2>. QED  BY <2>1, <2>2, <2>3, <2>4 DEF Next
  <1>. QED  BY <1>3, <1>4 DEF KInv

\* The invariant of the clocks holds in every reachable state.
THEOREM KInvHolds == Spec => []KInv
  BY InitKInv, KInvPreserved, PTL DEF Spec

-----------------------------------------------------------------------------
(***************************************************************************)
(* The theorems.                                                           *)
(***************************************************************************)

\* Type correctness, for all periods and timeouts of Connection.
THEOREM KeepAliveTypeCorrect == Spec => []TypeOK
  <1>1. KInv => TypeOK
    BY DEF KInv
  <1>. QED  BY <1>1, KInvHolds, PTL

\* Whatever the period of the two timers, the moments at which they start and
\* the lateness of each of their calls, no connection is served after a silence
\* of more than the interval and the longest cycle of each timer
\* (connection.h:147-163, utils.cpp:76-84).
THEOREM SilenceBoundedHolds == Spec => []SilenceBounded
  <1>1. KInv => SilenceBounded
    <2>. SUFFICES ASSUME KInv, Serving PROVE Silence <= MaxInterval + 2 * Cycle
      BY DEF SilenceBounded
    <2>1. ClockTypes /\ Silence <= MaxInterval + 2 * Cycle - checkWait
      BY TypesSplit DEF KInv, SilenceSoFar
    <2>. QED  BY <2>1, ConstantTypes DEF ClockTypes, Silence
  <1>. QED  BY <1>1, KInvHolds, PTL

\* If the interval is no shorter than the longest cycle of the ping timer, the check
\* never drops a peer that answers in time, once its first pong has arrived
\* (connection.h:156-163).
THEOREM AnsweringPeerKeptHolds ==
    ASSUME Cycle <= MaxInterval PROVE Spec => AnsweringPeerKept
  <1>1. KInv /\ [Next]_vars => [CheckDrops /\ link = "up" /\ Serving => ~answered]_vars
    <2>. SUFFICES ASSUME KInv, Next, CheckDrops, link = "up", Serving PROVE ~answered
      OBVIOUS
    <2>1. ws' # ws /\ ws' = "closing" /\ checkWait' # checkWait
      BY DEF CheckDrops
    <2>2. ~(StartRound \/ PingSend \/ Pong \/ LinkFails \/ LinkRecovers \/ Tick)
      BY <2>1 DEF StartRound, NewClient, PingSend, Pong, LinkFails, LinkRecovers, Tick,
                  connVars
    <2>3. ~(RunnerStep \/ LeaveConnect \/ Event \/ Exception \/ Destructor)
      BY <2>1 DEF RunnerStep, LeaveConnect, ConnectReturns, Event, Exception, Destructor,
                  clockVars
    <2>4. PongCheck
      BY <2>2, <2>3 DEF Next
    <2>5. Overdue
      BY <2>1, <2>4 DEF PongCheck, connVars
    <2>6. ClockTypes
      BY TypesSplit DEF KInv
    <2>. QED  BY <2>5, <2>6, ConstantTypes DEF KInv, PongsFollow, Overdue, ClockTypes
  <1>. QED  BY <1>1, KInvHolds, PTL DEF Spec, AnsweringPeerKept

\* The safety half of ImplementsConnection: with time left out, every step is
\* one of the untimed Connection, or none.
THEOREM ImplementsConnectionSteps == Spec => ConnSafety
  <1>1. Init => ConnInit
    BY DEF Init
  <1>. QED  BY <1>1, StepsOfConnection, PTL DEF Spec, ConnSafety

\* So the clocks take nothing away from what Connection promises: dangling
\* function objects and unreported ends are due to exceptions only.
THEOREM KeepAliveInherits == Spec => []DanglingOnlyAfterThrow /\ []MissedOnlyByThrow
  BY ImplementsConnectionSteps, DanglingOnlyAfterThrowHolds, MissedOnlyByThrowHolds, PTL

=============================================================================
