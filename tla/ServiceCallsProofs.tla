------------------------- MODULE ServiceCallsProofs -------------------------
(***************************************************************************)
(* Proofs about ServiceCalls, for any clients, callers, queue sizes and    *)
(* timeout: when the walk of nextById() can meet an erased node, and what  *)
(* a call() that returns nothing has missed.                               *)
(***************************************************************************)
EXTENDS ServiceCalls, TLAPS

-----------------------------------------------------------------------------
(***************************************************************************)
(* The inductive invariant.                                                *)
(***************************************************************************)

\* The loop of listen() stays within the vector, which only grows.
Round == dispatch.active => dispatch.end <= Len(listeners)

\* A list holds no more than was pushed; nodes are erased by an overflow only,
\* which leaves it full.
Lists ==
    \A k \in Clients :
        /\ Len(lq[k]) <= Len(log[k])
        /\ Len(lq[k]) < Len(log[k]) => Len(lq[k]) = AsSizeT(QSize[k])

\* Each answer is to a transmission.
Asked == \A r \in Requests : asked[r] <= sent[r]

\* What call() last saw was pushed before; between calls it has no locals.
Marks ==
    \A c \in Callers :
        /\ mark[c] <= Len(log[ClientOf[c]])
        /\ at[c] = "idle" => mark[c] = 0

\* A walk has not passed the first answer that was there when it began, and
\* the loop of call() does not come back to its test with that one unseen.
NotPassed ==
    \A c \in Callers : \A p \in 1 .. mark[c] :
        FirstAnswer(c, p) => /\ at[c] # "test"
                             /\ at[c] = "walk" => pos[c] <= p

\* The process has died at an erased node.
Crash == crashed => \E c \in Callers : Dangling(c)

SInv ==
    /\ TypeOK
    /\ Round
    /\ Lists
    /\ Asked
    /\ Marks
    /\ NotPassed
    /\ Crash

-----------------------------------------------------------------------------
(***************************************************************************)
(* Constants and queues.                                                   *)
(***************************************************************************)

\* Comparisons of differences.
LEMMA Differences ==
    ASSUME NEW a \in Nat, NEW b \in Nat, NEW x \in Nat, NEW y \in Nat
    PROVE  /\ a - b > 0 => b < a
           /\ (x = a + 1 /\ y <= b + 1) => (a <= x /\ a - b <= x - y)
           /\ (x = a /\ y = b) => (a <= x /\ a - b <= x - y)
  OBVIOUS

\* The constants.
LEMMA Constants ==
    /\ \A k \in Clients : QSize[k] \in Int /\ AsSizeT(QSize[k]) \in Nat
    /\ \A c \in Callers : ClientOf[c] \in Clients
    /\ Timeout \in Nat /\ MaxCalls \in Nat /\ MaxCopies \in Nat /\ MaxForeign \in Nat
    /\ Foreign \in Messages
  <1>1. \A n \in Int : AsSizeT(n) \in Nat
    BY SizeModulusAssumption DEF AsSizeT
  <1>2. \A k \in Clients : QSize[k] \in Int
    BY ServiceCallsAssumption
  <1>. QED  BY <1>1, <1>2, ServiceCallsAssumption DEF Messages

\* DropOldest() leaves at most n elements, and all of them if they fit.
LEMMA DropOldestLength ==
    ASSUME NEW S, NEW q \in Seq(S), NEW n \in Nat
    PROVE  /\ DropOldest(q, n) \in Seq(S)
           /\ Len(DropOldest(q, n)) = IF Len(q) > n THEN n ELSE Len(q)
  <1>1. CASE Len(q) > n
    BY <1>1 DEF DropOldest
  <1>2. CASE ~(Len(q) > n)
    BY <1>2 DEF DropOldest
  <1>. QED  BY <1>1, <1>2

\* A push on a ListenerQueue, together with the record of it.
LEMMA LQPushLength ==
    ASSUME NEW S, NEW q \in Seq(S), NEW l \in Seq(S), NEW size \in Int, NEW m \in S,
           AsSizeT(size) \in Nat, Len(q) <= Len(l),
           Len(q) < Len(l) => Len(q) = AsSizeT(size)
    PROVE  /\ LQPush(q, size, m) \in Seq(S) /\ Append(l, m) \in Seq(S)
           /\ Len(Append(l, m)) = Len(l) + 1
           /\ Len(LQPush(q, size, m)) <= Len(q) + 1
           /\ Len(LQPush(q, size, m)) <= Len(l) + 1
           /\ Len(LQPush(q, size, m)) < Len(l) + 1
                 => Len(LQPush(q, size, m)) = AsSizeT(size)
           /\ \A i \in 1 .. Len(l) : Append(l, m)[i] = l[i]
  <1>1. /\ Append(q, m) \in Seq(S) /\ Len(Append(q, m)) = Len(q) + 1
        /\ Append(l, m) \in Seq(S) /\ Len(Append(l, m)) = Len(l) + 1
        /\ Len(q) \in Nat /\ Len(l) \in Nat
        /\ \A i \in 1 .. Len(l) : Append(l, m)[i] = l[i]
    OBVIOUS
  <1>2. /\ LQPush(q, size, m) \in Seq(S)
        /\ Len(LQPush(q, size, m)) = IF Len(q) + 1 > AsSizeT(size) THEN AsSizeT(size)
                                     ELSE Len(q) + 1
    BY ZenonT(30), <1>1, DropOldestLength DEF LQPush
  <1>. QED  BY <1>1, <1>2

\* The methods of a TalkerQueue keep its type.
LEMMA TalkerQueueTypes ==
    ASSUME NEW v \in TalkerQueueType(Requests)
    PROVE  /\ \A size \in Int : \A m \in Requests :
                  TQPush(v, size, m) \in TalkerQueueType(Requests)
           /\ ~TQEmpty(v) => /\ TQPop(v) \in TalkerQueueType(Requests)
                             /\ TQNext(v, HEAD_MSG) \in Requests \cup {HEAD_MSG}
  <1>1. v.q \in Seq(Requests) /\ v.head_popped \in BOOLEAN
    BY DEF TalkerQueueType
  <1>2. ASSUME NEW size \in Int, NEW m \in Requests
        PROVE  TQPush(v, size, m) \in TalkerQueueType(Requests)
    <2>1. AsSizeT(size) \in Nat
      BY SizeModulusAssumption DEF AsSizeT
    <2>2. Append(v.q, m) \in Seq(Requests)
      BY <1>1
    <2>3. DropOldest(Append(v.q, m), AsSizeT(size)) \in Seq(Requests)
      BY <2>1, <2>2, DropOldestLength
    <2>. QED  BY <1>1, <2>3 DEF TQPush, TalkerQueue, TalkerQueueType
  <1>3. ASSUME ~TQEmpty(v)
        PROVE  /\ TQPop(v) \in TalkerQueueType(Requests)
               /\ TQNext(v, HEAD_MSG) \in Requests \cup {HEAD_MSG}
    <2>1. v.head_popped => v.q # << >>
      BY <1>3 DEF TQEmpty
    <2>2. v.head_popped => Tail(v.q) \in Seq(Requests) /\ Head(v.q) \in Requests
      BY <1>1, <2>1
    <2>3. TQPop(v) \in TalkerQueueType(Requests)
      BY <1>1, <2>2 DEF TQPop, TalkerQueue, TalkerQueueType
    <2>. QED  BY <2>2, <2>3 DEF TQNext
  <1>. QED  BY <1>2, <1>3

\* The call of listen() in progress.
LEMMA DispatchTypes ==
    ASSUME TypeOK, dispatch.active
    PROVE  /\ dispatch \in [active : {TRUE}, msg : Messages, i : Nat \ {0}, end : Nat]
           /\ dispatch.msg \in Messages /\ dispatch.i \in Nat /\ dispatch.i > 0
           /\ dispatch.end \in Nat
  <1>1. dispatch # Idle
    BY DEF Idle
  <1>2. dispatch \in [active : {TRUE}, msg : Messages, i : Nat \ {0}, end : Nat]
    BY <1>1 DEF TypeOK
  <1>3. dispatch.msg \in Messages /\ dispatch.i \in Nat \ {0} /\ dispatch.end \in Nat
    BY <1>2
  <1>4. dispatch.i > 0
    BY <1>3
  <1>. QED  BY <1>2, <1>3, <1>4

\* The numbers that the invariant compares.
LEMMA Numbers ==
    ASSUME TypeOK
    PROVE  /\ \A k \in Clients : /\ lq[k] \in Seq(Messages) /\ log[k] \in Seq(Messages)
                                 /\ Len(lq[k]) \in Nat /\ Len(log[k]) \in Nat
                                 /\ Erased(k) \in Int
           /\ \A c \in Callers : /\ pos[c] \in Nat /\ pos[c] > 0 /\ mark[c] \in Nat
                                 /\ elapsed[c] \in 0 .. Timeout
                                 /\ calls[c] \in 0 .. MaxCalls
           /\ \A r \in Requests : asked[r] \in Nat /\ sent[r] \in Nat
  <1>1. \A k \in Clients : lq[k] \in Seq(Messages) /\ log[k] \in Seq(Messages)
    BY DEF TypeOK
  <1>2. \A k \in Clients : Len(lq[k]) \in Nat /\ Len(log[k]) \in Nat
    BY <1>1
  <1>3. \A c \in Callers : /\ pos[c] \in Nat \ {0} /\ mark[c] \in Nat
                           /\ elapsed[c] \in 0 .. Timeout /\ calls[c] \in 0 .. MaxCalls
    BY DEF TypeOK
  <1>4. \A r \in Requests : asked[r] \in Nat /\ sent[r] \in Nat
    BY Constants DEF TypeOK
  <1>5. \A c \in Callers : pos[c] > 0
    BY <1>3
  <1>. QED  BY <1>1, <1>2, <1>3, <1>4, <1>5 DEF Erased

-----------------------------------------------------------------------------
(***************************************************************************)
(* The steps.                                                              *)
(***************************************************************************)

\* The invariant holds initially.
LEMMA InitSInv == Init => SInv
  <1>. SUFFICES ASSUME Init PROVE SInv
    OBVIOUS
  <1>. USE DEF Init, NewListenerQueue, NewTalkerQueue, TalkerQueue, TalkerQueueType
  <1>1. TypeOK
    <2>1. /\ tq \in [Clients -> TalkerQueueType(Requests)]
          /\ lq \in [Clients -> Seq(Messages)] /\ log \in [Clients -> Seq(Messages)]
          /\ listeners \in Seq(Clients)
          /\ life \in [Clients -> {"none", "live", "destroyed"}]
      OBVIOUS
    <2>2. /\ at \in [Callers -> CallStates] /\ calls \in [Callers -> 0 .. MaxCalls]
          /\ elapsed \in [Callers -> 0 .. Timeout] /\ pos \in [Callers -> Nat \ {0}]
          /\ mark \in [Callers -> Nat]
      BY Constants DEF CallStates
    <2>3. /\ asked \in [Requests -> 0 .. MaxCopies] /\ sent \in [Requests -> 0 .. MaxCopies]
          /\ foreign \in 0 .. MaxForeign
      BY Constants
    <2>4. crashed \in BOOLEAN /\ dispatch \in {Idle}
      BY Zenon
    <2>. QED  BY <2>1, <2>2, <2>3, <2>4 DEF TypeOK
  <1>2. Round
    BY DEF Round, Idle
  <1>3. Lists
    BY Constants DEF Lists
  <1>4. Asked
    BY DEF Asked
  <1>5. Marks
    BY Constants DEF Marks
  <1>6. NotPassed
    BY DEF NotPassed
  <1>7. Crash
    BY DEF Crash
  <1>. QED  BY <1>1, <1>2, <1>3, <1>4, <1>5, <1>6, <1>7 DEF SInv

\* Steps that concern neither a call nor a queue of listeners.
LEMMA Undisturbed ==
    ASSUME SInv, TypeOK', Round', Asked',
           UNCHANGED <<lq, at, calls, pos, crashed, log, mark>>
    PROVE  SInv'
  <1>1. Lists' /\ Marks' /\ Crash'
    BY DEF SInv, Lists, Marks, Crash, Dangling, Erased
  <1>2. NotPassed'
    BY DEF SInv, NotPassed, FirstAnswer, Erased, Request
  <1>. QED  BY <1>1, <1>2 DEF SInv

\* Constructor and destructor.
LEMMA LifePreserves ==
    ASSUME SInv, NEW k \in Clients, Create(k) \/ Destroy(k) PROVE SInv'
  <1>1. /\ UNCHANGED <<tq, lq, dispatch, crashed, at, calls, elapsed, pos, mark,
                       asked, sent, foreign, log>>
        /\ life' \in [Clients -> {"none", "live", "destroyed"}]
        /\ listeners' \in {listeners, Append(listeners, k)}
    BY DEF Create, Destroy, callVars, serverVars, SInv, TypeOK
  <1>2. /\ listeners' \in Seq(Clients) /\ Len(listeners) \in Nat
        /\ Len(listeners') \in Nat /\ Len(listeners) <= Len(listeners')
    <2>1. listeners \in Seq(Clients) /\ Len(listeners) \in Nat
      BY DEF SInv, TypeOK
    <2>2. Append(listeners, k) \in Seq(Clients) /\ Len(Append(listeners, k)) = Len(listeners) + 1
      BY <2>1
    <2>. QED  BY <1>1, <2>1, <2>2
  <1>3. TypeOK'
    BY <1>1, <1>2 DEF SInv, TypeOK
  <1>4. Round' /\ Asked'
    <2>1. dispatch.active => dispatch.end \in Nat /\ dispatch.end <= Len(listeners)
      BY DispatchTypes DEF SInv, Round
    <2>. QED  BY <1>1, <1>2, <2>1 DEF SInv, Round, Asked
  <1>. QED  BY <1>1, <1>3, <1>4, Undisturbed

\* talk() and the server.
LEMMA TalkPreserves ==
    ASSUME SInv, NEW k \in Clients, Talk(k) PROVE SInv'
  <1>. DEFINE m == TQNext(tq[k], HEAD_MSG)
  <1>1. /\ TQPop(tq[k]) \in TalkerQueueType(Requests)
        /\ m \in Requests \cup {HEAD_MSG}
    BY TalkerQueueTypes DEF Talk, SInv, TypeOK
  <1>2. /\ UNCHANGED <<life, listeners, lq, dispatch, crashed, at, calls, elapsed, pos, mark,
                       foreign, log>>
        /\ tq' \in {tq, [tq EXCEPT ![k] = TQPop(@)]}
    BY DEF Talk, callVars
  <1>3. tq' \in [Clients -> TalkerQueueType(Requests)]
    BY <1>1, <1>2 DEF SInv, TypeOK
  <1>4. /\ asked' \in [Requests -> 0 .. MaxCopies] /\ sent' \in [Requests -> 0 .. MaxCopies]
        /\ Asked'
    <2>1. CASE m = HEAD_MSG
      BY <2>1 DEF Talk, SInv, TypeOK, Asked
    <2>2. CASE m # HEAD_MSG
      <3>1. \E r \in Requests : /\ sent[r] < MaxCopies
                                /\ sent' = [sent EXCEPT ![r] = @ + 1]
                                /\ asked' = [asked EXCEPT ![r] = @ + 1]
        BY <1>1, <2>2 DEF Talk
      <3>. QED  BY <3>1, Constants DEF SInv, TypeOK, Asked
    <2>. QED  BY <2>1, <2>2
  <1>5. TypeOK'
    BY <1>2, <1>3, <1>4 DEF SInv, TypeOK
  <1>6. Round'
    BY <1>2 DEF SInv, Round
  <1>. QED  BY <1>2, <1>4, <1>5, <1>6, Undisturbed

\* A message arrives, an answer or a request to a ServiceServer.
LEMMA ArrivalPreserves ==
    ASSUME SInv, ForeignCall \/ \E m \in Answers : Answer(m) PROVE SInv'
  <1>1. PICK m \in Messages : Listen(m)
    BY Constants DEF ForeignCall, Answer, Messages
  <1>2. /\ dispatch' = [active |-> TRUE, msg |-> m, i |-> 1, end |-> Len(listeners)]
        /\ UNCHANGED <<life, listeners, tq, lq, crashed, at, calls, elapsed, pos, mark,
                       sent, log>>
    BY <1>1 DEF Listen, callVars
  <1>3. asked' \in [Requests -> 0 .. MaxCopies] /\ foreign' \in 0 .. MaxForeign /\ Asked'
    <2>1. CASE ForeignCall
      BY <1>2, <2>1, Constants DEF ForeignCall, SInv, TypeOK, Asked
    <2>2. ASSUME NEW x \in Answers, Answer(x)
          PROVE  asked' \in [Requests -> 0 .. MaxCopies] /\ foreign' \in 0 .. MaxForeign /\ Asked'
      <3>1. /\ x.id \in Requests /\ asked[x.id] > 0
            /\ asked' = [asked EXCEPT ![x.id] = @ - 1] /\ foreign' = foreign
        BY <2>2 DEF Answer, Answers
      <3>. QED  BY <1>2, <3>1, Constants DEF SInv, TypeOK, Asked
    <2>. QED  BY <2>1, <2>2
  <1>4. dispatch' \in [active : {TRUE}, msg : Messages, i : Nat \ {0}, end : Nat]
        /\ dispatch'.end = Len(listeners)
    BY <1>2 DEF SInv, TypeOK
  <1>5. TypeOK'
    BY <1>2, <1>3, <1>4 DEF SInv, TypeOK
  <1>6. Round'
    BY <1>2, <1>4 DEF SInv, TypeOK, Round
  <1>. QED  BY <1>2, <1>3, <1>5, <1>6, Undisturbed

\* The loop of listen() ends.
LEMMA ListenReturnsPreserves ==
    ASSUME SInv, ListenReturns PROVE SInv'
  <1>1. /\ dispatch' = Idle
        /\ UNCHANGED <<life, listeners, tq, lq, crashed, at, calls, elapsed, pos, mark,
                       asked, sent, foreign, log>>
    BY DEF ListenReturns, callVars, serverVars
  <1>2. TypeOK' /\ Asked' /\ Round'
    BY <1>1 DEF SInv, TypeOK, Asked, Round, Idle
  <1>. QED  BY <1>1, <1>2, Undisturbed

\* listen() pushes a message: what was pushed before keeps its place, and no
\* node comes back.
LEMMA DeliverPreserves ==
    ASSUME SInv, ~crashed, Deliver PROVE SInv'
  <1>0. PICK k, i, m : k = listeners[i] /\ i = dispatch.i /\ m = dispatch.msg
    OBVIOUS
  <1>1. /\ dispatch \in [active : {TRUE}, msg : Messages, i : Nat \ {0}, end : Nat]
        /\ m \in Messages /\ i \in Nat /\ i > 0 /\ dispatch.end \in Nat /\ i <= dispatch.end
        /\ dispatch.active
    BY <1>0, DispatchTypes DEF Deliver, SInv
  <1>2. k \in Clients
    <2>1. listeners \in Seq(Clients) /\ i \in 1 .. Len(listeners)
      BY <1>1 DEF SInv, TypeOK, Round
    <2>. QED  BY <1>0, <2>1
  <1>3. /\ lq' = [lq EXCEPT ![k] = LQPush(lq[k], QSize[k], m)]
        /\ log' = [log EXCEPT ![k] = Append(log[k], m)]
        /\ dispatch' = [dispatch EXCEPT !.i = i + 1]
        /\ UNCHANGED <<life, listeners, tq, crashed, at, calls, elapsed, pos, mark,
                       asked, sent, foreign>>
    BY <1>0, <1>2 DEF Deliver, callVars, serverVars, SInv, TypeOK
  <1>4. /\ lq[k] \in Seq(Messages) /\ log[k] \in Seq(Messages)
        /\ Len(lq[k]) \in Nat /\ Len(log[k]) \in Nat
        /\ QSize[k] \in Int /\ AsSizeT(QSize[k]) \in Nat
        /\ Len(lq[k]) <= Len(log[k])
        /\ Len(lq[k]) < Len(log[k]) => Len(lq[k]) = AsSizeT(QSize[k])
    BY <1>2, Numbers, Constants DEF SInv, Lists
  <1>5. /\ lq'[k] \in Seq(Messages) /\ log'[k] \in Seq(Messages)
        /\ lq'[k] = LQPush(lq[k], QSize[k], m) /\ log'[k] = Append(log[k], m)
        /\ Len(log'[k]) = Len(log[k]) + 1
        /\ Len(lq'[k]) <= Len(lq[k]) + 1 /\ Len(lq'[k]) <= Len(log[k]) + 1
        /\ Len(lq'[k]) < Len(log[k]) + 1 => Len(lq'[k]) = AsSizeT(QSize[k])
        /\ \A j \in 1 .. Len(log[k]) : log'[k][j] = log[k][j]
        /\ \A h \in Clients : h # k => lq'[h] = lq[h] /\ log'[h] = log[h]
    <2>1. lq'[k] = LQPush(lq[k], QSize[k], m) /\ log'[k] = Append(log[k], m)
      BY <1>2, <1>3 DEF SInv, TypeOK
    <2>2. \A h \in Clients : h # k => lq'[h] = lq[h] /\ log'[h] = log[h]
      BY <1>3 DEF SInv, TypeOK
    <2>. QED  BY SMTT(30), <1>1, <1>4, <2>1, <2>2, LQPushLength
  <1>6. TypeOK'
    <2>1. lq' \in [Clients -> Seq(Messages)] /\ log' \in [Clients -> Seq(Messages)]
      BY <1>3, <1>5 DEF SInv, TypeOK
    <2>2. dispatch' \in [active : {TRUE}, msg : Messages, i : Nat \ {0}, end : Nat]
      <3>1. dispatch' = [dispatch EXCEPT !.i = i + 1] /\ i + 1 \in Nat \ {0}
        BY <1>1, <1>3
      <3>. QED  BY <1>1, <3>1
    <2>. QED  BY <1>3, <2>1, <2>2 DEF SInv, TypeOK
  <1>7. Round' /\ Asked'
    <2>1. dispatch'.end = dispatch.end
      <3>1. dispatch' = [dispatch EXCEPT !.i = i + 1]
        BY <1>3
      <3>. QED  BY <1>1, <3>1
    <2>. QED  BY <1>1, <1>3, <2>1 DEF SInv, Round, Asked
  <1>8. \A h \in Clients : /\ Len(log[h]) <= Len(log'[h])
                           /\ Erased(h) <= Erased(h)'
                           /\ \A j \in 1 .. Len(log[h]) : log'[h][j] = log[h][j]
                           /\ Len(log[h]) \in Nat /\ Len(log'[h]) \in Nat
                           /\ Erased(h) \in Int /\ Erased(h)' \in Int
    <2>1. \A h \in Clients : Len(log[h]) \in Nat /\ Len(lq[h]) \in Nat /\ Len(log'[h]) \in Nat
                             /\ Len(lq'[h]) \in Nat
      BY <1>6, Numbers DEF SInv, TypeOK
    <2>2. ASSUME NEW h \in Clients
          PROVE  Len(log[h]) <= Len(log'[h]) /\ Len(log[h]) - Len(lq[h]) <= Len(log'[h]) - Len(lq'[h])
      <3>1. CASE h = k
        <4>1. /\ Len(log'[h]) = Len(log[h]) + 1 /\ Len(lq'[h]) <= Len(lq[h]) + 1
          BY <1>5, <3>1
        <4>. QED  BY <2>1, <4>1, Differences
      <3>2. CASE h # k
        <4>1. lq'[h] = lq[h] /\ log'[h] = log[h]
          BY <1>5, <3>2
        <4>. QED  BY <2>1, <4>1, Differences
      <3>. QED  BY <3>1, <3>2
    <2>3. \A h \in Clients : \A j \in 1 .. Len(log[h]) : log'[h][j] = log[h][j]
      BY <1>5
    <2>. SUFFICES ASSUME NEW h \in Clients
                  PROVE  /\ Len(log[h]) <= Len(log'[h])
                         /\ Erased(h) <= Erased(h)'
                         /\ Len(log[h]) \in Nat /\ Len(log'[h]) \in Nat
                         /\ Erased(h) \in Int /\ Erased(h)' \in Int
      BY <2>3
    <2>4. Erased(h) = Len(log[h]) - Len(lq[h]) /\ Erased(h)' = Len(log'[h]) - Len(lq'[h])
      BY DEF Erased
    <2>5. Len(log[h]) \in Nat /\ Len(lq[h]) \in Nat /\ Len(log'[h]) \in Nat /\ Len(lq'[h]) \in Nat
      BY <2>1
    <2>6. Len(log[h]) - Len(lq[h]) \in Int /\ Len(log'[h]) - Len(lq'[h]) \in Int
      BY <2>5
    <2>. QED  BY <2>2, <2>4, <2>5, <2>6
  <1>9. Lists'
    <2>. SUFFICES ASSUME NEW h \in Clients
                  PROVE  /\ Len(lq'[h]) <= Len(log'[h])
                         /\ Len(lq'[h]) < Len(log'[h]) => Len(lq'[h]) = AsSizeT(QSize[h])
      BY DEF Lists
    <2>1. CASE h = k
      BY <1>5, <2>1
    <2>2. CASE h # k
      BY <1>5, <2>2 DEF SInv, Lists
    <2>. QED  BY <2>1, <2>2
  <1>10. Marks'
    BY <1>3, <1>8, Constants, Numbers DEF SInv, Marks
  <1>11. NotPassed'
    <2>. SUFFICES ASSUME NEW c \in Callers, NEW p \in 1 .. mark[c], FirstAnswer(c, p)'
                  PROVE  at[c] # "test" /\ (at[c] = "walk" => pos[c] <= p)
      BY <1>3 DEF NotPassed
    <2>1. /\ ClientOf[c] \in Clients /\ mark[c] \in Nat
          /\ mark[c] <= Len(log[ClientOf[c]]) /\ p \in 1 .. Len(log[ClientOf[c]])
          /\ \A j \in 1 .. p - 1 : j \in 1 .. Len(log[ClientOf[c]])
      BY <1>8, Constants, Numbers DEF SInv, Marks
    <2>2. FirstAnswer(c, p)
      BY SMTT(30), <1>3, <1>8, <2>1 DEF FirstAnswer, Request
    <2>. QED  BY <2>2 DEF SInv, NotPassed
  <1>12. Crash'
    BY <1>3 DEF Crash
  <1>. QED  BY <1>6, <1>7, <1>9, <1>10, <1>11, <1>12 DEF SInv

\* What a step of a caller must keep: the step changes nothing of the queues
\* and nothing of the other callers.
LEMMA CallerStepFrame ==
    ASSUME SInv, NEW c \in Callers,
           UNCHANGED <<life, listeners, lq, dispatch, asked, sent, foreign, log>>,
           tq' \in [Clients -> TalkerQueueType(Requests)],
           NEW a \in CallStates, at' = [at EXCEPT ![c] = a],
           NEW n \in 0 .. MaxCalls, calls' = [calls EXCEPT ![c] = n],
           NEW e \in 0 .. Timeout, elapsed' = [elapsed EXCEPT ![c] = e],
           NEW x \in Nat \ {0}, pos' = [pos EXCEPT ![c] = x],
           NEW y \in Nat, mark' = [mark EXCEPT ![c] = y],
           crashed' \in BOOLEAN,
           crashed' => a = "walk" /\ x <= Erased(ClientOf[c]),
           y <= Len(log[ClientOf[c]]), a = "idle" => y = 0,
           \A p \in 1 .. y : FirstAnswer(c, p)' => a # "test" /\ (a = "walk" => x <= p)
    PROVE  SInv'
  <1>1. TypeOK'
    BY DEF SInv, TypeOK
  <1>2. Round' /\ Lists' /\ Asked'
    BY DEF SInv, Round, Lists, Asked
  <1>3. /\ at'[c] = a /\ calls'[c] = n /\ pos'[c] = x /\ mark'[c] = y
        /\ \A d \in Callers : d # c => /\ at'[d] = at[d] /\ calls'[d] = calls[d]
                                       /\ pos'[d] = pos[d] /\ mark'[d] = mark[d]
    BY DEF SInv, TypeOK
  <1>4. Marks'
    BY <1>3 DEF SInv, Marks
  <1>5. NotPassed'
    <2>. SUFFICES ASSUME NEW d \in Callers, NEW p \in 1 .. mark'[d], FirstAnswer(d, p)'
                  PROVE  at'[d] # "test" /\ (at'[d] = "walk" => pos'[d] <= p)
      BY DEF NotPassed
    <2>1. CASE d = c
      BY <1>3, <2>1
    <2>2. CASE d # c
      <3>1. FirstAnswer(d, p)
        BY <1>3, <2>2 DEF FirstAnswer, Request, Erased
      <3>. QED  BY <1>3, <2>2, <3>1 DEF SInv, NotPassed
    <2>. QED  BY <2>1, <2>2
  <1>6. Crash'
    BY <1>3 DEF Crash, Dangling, Erased
  <1>. QED  BY <1>1, <1>2, <1>4, <1>5, <1>6 DEF SInv

\* call() begins.
LEMMA CallPreserves ==
    ASSUME SInv, ~crashed, NEW c \in Callers, Call(c) PROVE SInv'
  <1>. DEFINE k == ClientOf[c]
              n == calls[c] + 1
  <1>1. k \in Clients /\ QSize[k] \in Int /\ calls[c] \in 0 .. MaxCalls /\ MaxCalls \in Nat
        /\ calls[c] < MaxCalls /\ at[c] = "idle"
    BY Constants, Numbers DEF SInv, Call
  <1>2. n \in 0 .. MaxCalls /\ <<c, n>> \in Requests
    BY <1>1 DEF Requests
  <1>3. tq' \in [Clients -> TalkerQueueType(Requests)]
    <2>1. TQPush(tq[k], QSize[k], <<c, n>>) \in TalkerQueueType(Requests)
      BY <1>1, <1>2, TalkerQueueTypes DEF SInv, TypeOK
    <2>. QED  BY <2>1 DEF Call, SInv, TypeOK
  <1>4. /\ at' = [at EXCEPT ![c] = "test"] /\ calls' = [calls EXCEPT ![c] = n]
        /\ elapsed' = [elapsed EXCEPT ![c] = elapsed[c]]
        /\ pos' = [pos EXCEPT ![c] = pos[c]] /\ mark' = [mark EXCEPT ![c] = mark[c]]
        /\ UNCHANGED <<life, listeners, lq, dispatch, crashed, asked, sent, foreign, log>>
    BY DEF Call, serverVars, SInv, TypeOK
  <1>5. mark[c] = 0 /\ mark[c] <= Len(log[k])
    BY <1>1 DEF SInv, Marks
  <1>6. \A p \in 1 .. mark[c] : FALSE
    BY <1>5
  <1>7. /\ elapsed[c] \in 0 .. Timeout /\ pos[c] \in Nat \ {0} /\ mark[c] \in Nat
        /\ "test" \in CallStates /\ crashed' \in BOOLEAN /\ ~crashed'
    BY <1>4 DEF SInv, TypeOK, CallStates
  <1>. HIDE DEF n
  <1>. QED  BY <1>2, <1>3, <1>4, <1>5, <1>6, <1>7, CallerStepFrame

\* The test of the time, and the sleep.
LEMMA TestPreserves ==
    ASSUME SInv, ~crashed, NEW c \in Callers, Test(c) \/ Wake(c) PROVE SInv'
  <1>. DEFINE k == ClientOf[c]
  <1>1. /\ k \in Clients /\ Len(log[k]) \in Nat /\ Erased(k) \in Int /\ Erased(k) >= 0
        /\ elapsed[c] \in 0 .. Timeout /\ calls[c] \in 0 .. MaxCalls
        /\ pos[c] \in Nat \ {0} /\ mark[c] \in Nat /\ mark[c] <= Len(log[k])
        /\ calls' = [calls EXCEPT ![c] = calls[c]]
    <2>1. k \in Clients /\ Len(log[k]) \in Nat /\ Len(lq[k]) \in Nat /\ Erased(k) \in Int
      BY Constants, Numbers DEF SInv
    <2>2. Len(lq[k]) <= Len(log[k])
      BY <2>1 DEF SInv, Lists
    <2>3. Erased(k) >= 0
      BY <2>1, <2>2 DEF Erased
    <2>. QED  BY <2>1, <2>3 DEF SInv, TypeOK, Marks, Test, Wake
  <1>2. /\ UNCHANGED <<life, listeners, tq, lq, dispatch, crashed, asked, sent, foreign, log>>
        /\ tq' \in [Clients -> TalkerQueueType(Requests)]
        /\ crashed' \in BOOLEAN /\ ~crashed'
    BY DEF Test, Wake, serverVars, SInv, TypeOK
  <1>. HIDE DEF k
  <1>3. CASE Test(c) /\ elapsed[c] < Timeout
    <2>1. /\ at' = [at EXCEPT ![c] = "sleep"] /\ mark' = [mark EXCEPT ![c] = Len(log[k])]
          /\ elapsed' = [elapsed EXCEPT ![c] = elapsed[c]] /\ pos' = [pos EXCEPT ![c] = pos[c]]
      BY <1>3 DEF Test, SInv, TypeOK, k
    <2>2. "sleep" \in CallStates /\ Len(log[k]) <= Len(log[k])
      BY <1>1 DEF CallStates
    <2>. QED  BY <1>1, <1>2, <2>1, <2>2, CallerStepFrame DEF k
  <1>4. CASE Test(c) /\ ~(elapsed[c] < Timeout)
    <2>1. /\ at' = [at EXCEPT ![c] = "idle"] /\ mark' = [mark EXCEPT ![c] = 0]
          /\ elapsed' = [elapsed EXCEPT ![c] = 0] /\ pos' = [pos EXCEPT ![c] = 1]
      BY <1>4 DEF Test, Return
    <2>2. "idle" \in CallStates /\ 0 \in 0 .. Timeout /\ 1 \in Nat \ {0} /\ 0 \in Nat
          /\ 0 <= Len(log[k]) /\ \A p \in 1 .. 0 : FALSE
      BY <1>1, Constants DEF CallStates
    <2>. QED  BY <1>1, <1>2, <2>1, <2>2, CallerStepFrame DEF k
  <1>5. CASE Wake(c)
    <2>1. PICK t \in elapsed[c] + 1 .. Timeout : elapsed' = [elapsed EXCEPT ![c] = t]
      BY <1>5 DEF Wake
    <2>2. PICK x \in Nat \ {0} : x = Erased(k) + 1
      BY <1>1
    <2>3. /\ at[c] = "sleep" /\ at' = [at EXCEPT ![c] = "walk"]
          /\ mark' = [mark EXCEPT ![c] = mark[c]] /\ pos' = [pos EXCEPT ![c] = x]
      BY <1>5, <2>2 DEF Wake, SInv, TypeOK, k
    <2>4. t \in 0 .. Timeout /\ "walk" \in CallStates
      BY <1>1, Constants DEF CallStates
    <2>5. \A p \in 1 .. mark[c] : FirstAnswer(c, p)' => x <= p
      <3>. SUFFICES ASSUME NEW p \in 1 .. mark[c], FirstAnswer(c, p)' PROVE x <= p
        OBVIOUS
      <3>1. p > Erased(k)
        BY <1>2 DEF FirstAnswer, Erased, k
      <3>. QED  BY <1>1, <2>2, <3>1
    <2>. QED  BY <1>1, <1>2, <2>1, <2>3, <2>4, <2>5, CallerStepFrame DEF k
  <1>. QED  BY <1>3, <1>4, <1>5

\* One step of the walk: it passes no first answer, and goes back to the loop
\* of call() only when there is none.
LEMMA WalkPreserves ==
    ASSUME SInv, ~crashed, NEW c \in Callers, Walk(c) PROVE SInv'
  <1>. DEFINE k == ClientOf[c]
  <1>1. /\ k \in Clients /\ Len(log[k]) \in Nat /\ Erased(k) \in Int
        /\ elapsed[c] \in 0 .. Timeout /\ calls[c] \in 0 .. MaxCalls
        /\ pos[c] \in Nat \ {0} /\ pos[c] > 0 /\ mark[c] \in Nat /\ mark[c] <= Len(log[k])
        /\ at[c] = "walk"
    <2>1. k \in Clients /\ Len(log[k]) \in Nat /\ Erased(k) \in Int
      BY Constants, Numbers DEF SInv
    <2>2. pos[c] \in Nat \ {0} /\ pos[c] > 0
      BY Numbers DEF SInv, TypeOK
    <2>. QED  BY <2>1, <2>2 DEF SInv, TypeOK, Marks, Walk
  <1>2. /\ UNCHANGED <<life, listeners, tq, lq, dispatch, asked, sent, foreign, log>>
        /\ tq' \in [Clients -> TalkerQueueType(Requests)]
        /\ calls' = [calls EXCEPT ![c] = calls[c]]
        /\ crashed' \in BOOLEAN
    BY DEF Walk, serverVars, SInv, TypeOK
  <1>3. \A p : FirstAnswer(c, p)' => FirstAnswer(c, p)
    BY <1>2 DEF FirstAnswer, Request, Erased, SInv, TypeOK
  <1>4. \A p \in 1 .. mark[c] : FirstAnswer(c, p) => pos[c] <= p
    BY <1>1 DEF SInv, NotPassed
  <1>. HIDE DEF k
  <1>5. ASSUME crashed' = crashed, Again(c), \A p \in 1 .. mark[c] : ~FirstAnswer(c, p)
        PROVE  SInv'
    <2>1. /\ at' = [at EXCEPT ![c] = "test"] /\ pos' = [pos EXCEPT ![c] = 1]
          /\ elapsed' = [elapsed EXCEPT ![c] = elapsed[c]]
          /\ mark' = [mark EXCEPT ![c] = mark[c]]
      BY <1>5 DEF Again, SInv, TypeOK
    <2>2. "test" \in CallStates /\ 1 \in Nat \ {0}
      BY DEF CallStates
    <2>3. \A p \in 1 .. mark[c] : ~FirstAnswer(c, p)'
      BY <1>3, <1>5
    <2>. QED  BY <1>1, <1>2, <1>5, <2>1, <2>2, <2>3, CallerStepFrame DEF k
  <1>6. ASSUME crashed' = crashed, WalkOn(c),
               \A p \in 1 .. mark[c] : FirstAnswer(c, p) => p # pos[c]
        PROVE  SInv'
    <2>1. PICK x \in Nat \ {0} : x = pos[c] + 1
      BY <1>1
    <2>2. /\ at' = [at EXCEPT ![c] = "walk"] /\ pos' = [pos EXCEPT ![c] = x]
          /\ elapsed' = [elapsed EXCEPT ![c] = elapsed[c]]
          /\ mark' = [mark EXCEPT ![c] = mark[c]]
      BY <1>1, <1>6, <2>1 DEF WalkOn, SInv, TypeOK
    <2>3. \A p \in 1 .. mark[c] : FirstAnswer(c, p)' => x <= p
      <3>. SUFFICES ASSUME NEW p \in 1 .. mark[c], FirstAnswer(c, p)' PROVE x <= p
        OBVIOUS
      <3>1. pos[c] <= p /\ p # pos[c]
        BY <1>3, <1>4, <1>6
      <3>. QED  BY <1>1, <2>1, <3>1
    <2>4. "walk" \in CallStates
      BY DEF CallStates
    <2>. QED  BY <1>1, <1>2, <1>6, <2>2, <2>3, <2>4, CallerStepFrame DEF k
  <1>7. ASSUME crashed' = crashed, Return(c) PROVE SInv'
    <2>1. /\ at' = [at EXCEPT ![c] = "idle"] /\ mark' = [mark EXCEPT ![c] = 0]
          /\ elapsed' = [elapsed EXCEPT ![c] = 0] /\ pos' = [pos EXCEPT ![c] = 1]
      BY <1>7 DEF Return
    <2>2. "idle" \in CallStates /\ 0 \in 0 .. Timeout /\ 1 \in Nat \ {0} /\ 0 \in Nat
          /\ 0 <= Len(log[k]) /\ \A p \in 1 .. 0 : FALSE
      BY <1>1, Constants DEF CallStates
    <2>. QED  BY <1>1, <1>2, <1>7, <2>1, <2>2, CallerStepFrame DEF k
  <1>8. CASE pos[c] > Len(log[k]) /\ Again(c) /\ UNCHANGED crashed
    <2>1. \A p \in 1 .. mark[c] : ~FirstAnswer(c, p)
      BY <1>1, <1>4, <1>8
    <2>. QED  BY <1>5, <1>8, <2>1
  <1>9. CASE pos[c] <= Len(log[k]) /\ Look(c, log[k][pos[c]]) /\ UNCHANGED crashed
    <2>1. CASE log[k][pos[c]].id # Request(c)
      <3>1. \A p \in 1 .. mark[c] : FirstAnswer(c, p) => p # pos[c]
        BY <2>1 DEF FirstAnswer, k
      <3>. QED  BY <1>6, <1>9, <2>1, <3>1 DEF Look
    <2>2. CASE log[k][pos[c]].id = Request(c) /\ log[k][pos[c]].kind = "failed"
      <3>1. \A p \in 1 .. mark[c] : ~FirstAnswer(c, p)
        <4>. SUFFICES ASSUME NEW p \in 1 .. mark[c], FirstAnswer(c, p) PROVE FALSE
          OBVIOUS
        <4>1. pos[c] <= p /\ p # pos[c]
          BY <1>4, <2>2 DEF FirstAnswer, k
        <4>2. pos[c] \in 1 .. p - 1
          BY <1>1, <4>1
        <4>. QED  BY <2>2, <4>2 DEF FirstAnswer, k
      <3>. QED  BY <1>5, <1>9, <2>2, <3>1 DEF Look
    <2>3. CASE log[k][pos[c]].id = Request(c) /\ log[k][pos[c]].kind # "failed"
      BY <1>7, <1>9, <2>3 DEF Look
    <2>. QED  BY <2>1, <2>2, <2>3
  <1>10. CASE pos[c] <= Erased(k) /\ WalkOn(c) /\ UNCHANGED crashed
    <2>1. \A p \in 1 .. mark[c] : FirstAnswer(c, p) => p # pos[c]
      BY <1>1, <1>10 DEF FirstAnswer, k
    <2>. QED  BY <1>6, <1>10, <2>1
  <1>11. CASE pos[c] <= Erased(k) /\ UNCHANGED <<at, elapsed, pos, mark>>
    <2>1. /\ at' = [at EXCEPT ![c] = "walk"] /\ pos' = [pos EXCEPT ![c] = pos[c]]
          /\ elapsed' = [elapsed EXCEPT ![c] = elapsed[c]]
          /\ mark' = [mark EXCEPT ![c] = mark[c]]
      BY <1>1, <1>11 DEF SInv, TypeOK
    <2>2. "walk" \in CallStates
      BY DEF CallStates
    <2>3. \A p \in 1 .. mark[c] : FirstAnswer(c, p)' => pos[c] <= p
      BY <1>3, <1>4
    <2>. QED  BY <1>1, <1>2, <1>11, <2>1, <2>2, <2>3, CallerStepFrame DEF k
  <1>. QED  BY <1>8, <1>9, <1>10, <1>11 DEF Walk, k

\* Every step keeps the invariant.
LEMMA NextPreserves == SInv /\ [Next]_vars => SInv'
  <1>. SUFFICES ASSUME SInv, [Next]_vars PROVE SInv'
    OBVIOUS
  <1>1. CASE UNCHANGED vars
    <2>1. TypeOK' /\ Round' /\ Asked'
      BY <1>1 DEF vars, SInv, TypeOK, Round, Asked
    <2>. QED  BY <1>1, <2>1, Undisturbed DEF vars
  <1>2. ASSUME NEW k \in Clients, Create(k) \/ Destroy(k) \/ Talk(k) PROVE SInv'
    BY <1>2, LifePreserves, TalkPreserves
  <1>3. ASSUME ~crashed, NEW c \in Callers, Call(c) \/ CallStep(c) PROVE SInv'
    BY <1>3, CallPreserves, TestPreserves, WalkPreserves DEF CallStep
  <1>4. ASSUME ~crashed,
               ForeignCall \/ (\E m \in Answers : Answer(m)) \/ Deliver \/ ListenReturns
        PROVE  SInv'
    BY <1>4, ArrivalPreserves, DeliverPreserves, ListenReturnsPreserves
  <1>. QED  BY <1>1, <1>2, <1>3, <1>4 DEF Next

-----------------------------------------------------------------------------
(***************************************************************************)
(* The theorems.                                                           *)
(***************************************************************************)

\* The invariant holds under every interleaving of the callers, talk() and
\* listen().
THEOREM SInvHolds == Spec => []SInv
  BY InitSInv, NextPreserves, PTL DEF Spec

\* The variables of ServiceCalls keep their types.
THEOREM ServiceCallsTypeCorrect == Spec => []TypeOK
  <1>1. SInv => TypeOK
    BY DEF SInv
  <1>. QED  BY <1>1, SInvHolds, PTL

\* The walk without the mutex (queues.cpp:100-106) ends the process only when as
\* many messages as the queue holds have come after the one at which the walk
\* stands, for any clients, callers and sizes.
THEOREM CrashOnlyIfOvertakenHolds == Spec => []CrashOnlyIfOvertaken
  <1>1. ASSUME SInv, NEW c \in Callers, Dangling(c)
        PROVE  Len(log[ClientOf[c]]) - pos[c] >= AsSizeT(QSize[ClientOf[c]])
    <2>. DEFINE k == ClientOf[c]
    <2>0. k \in Clients /\ AsSizeT(QSize[k]) \in Nat
      BY Constants
    <2>1. Len(lq[k]) \in Nat /\ Len(log[k]) \in Nat /\ pos[c] \in Nat /\ pos[c] > 0
      BY <1>1, <2>0, Numbers DEF SInv
    <2>2. pos[c] <= Len(log[k]) - Len(lq[k])
      BY <1>1 DEF Dangling, Erased
    <2>3. Len(lq[k]) < Len(log[k]) => Len(lq[k]) = AsSizeT(QSize[k])
      BY <1>1, <2>0 DEF SInv, Lists
    <2>4. ASSUME NEW l \in Nat, NEW q \in Nat, NEW x \in Nat, NEW n \in Nat,
                 x > 0, x <= l - q, q < l => q = n
          PROVE  l - x >= n
      BY <2>4
    <2>. HIDE DEF k
    <2>5. Len(log[k]) - pos[c] >= AsSizeT(QSize[k])
      BY <2>0, <2>1, <2>2, <2>3, <2>4
    <2>. QED  BY <2>5 DEF k
  <1>2. SInv => CrashOnlyIfOvertaken
    BY <1>1 DEF SInv, Crash, CrashOnlyIfOvertaken
  <1>. QED  BY <1>2, SInvHolds, PTL

\* A call() that returns nothing has missed no answer that was in its queue, the
\* first to its request and final, when it last found that there was time
\* (serviceclient.cpp:61-73), whatever other threads do on the same client.
THEOREM NothingOnlyWithoutAnswerHolds == Spec => NothingOnlyWithoutAnswer
  <1>1. SInv /\ [Next]_vars =>
            [\A c \in Callers :
                (at[c] = "test" /\ at'[c] = "idle")
                    => \A p \in 1 .. mark[c] : ~FirstAnswer(c, p)]_vars
    BY DEF SInv, NotPassed
  <1>. QED  BY <1>1, SInvHolds, PTL DEF Spec, NothingOnlyWithoutAnswer

=============================================================================
