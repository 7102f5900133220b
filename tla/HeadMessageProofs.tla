------------------------- MODULE HeadMessageProofs --------------------------
(***************************************************************************)
(* What is lost, for any number of owners: the message that declares an    *)
(* owner to the server is skipped only if resetTalkers() meets talk()      *)
(* between next() and pop() on that owner's queue (HeadLostOnlyByRace);    *)
(* other messages, where there is room for all, only after a connection    *)
(* was lost (NothingLostWithoutOutage); what is repeated: a message that   *)
(* the same race has left in its queue (RepeatedOnlyByReset); and what is  *)
(* taken in place of what was sent: the message behind one that so many    *)
(* pushes have driven out (PopTakesAnotherOnlyByOverflow).                 *)
(***************************************************************************)
EXTENDS RosbridgeClientProofs

-----------------------------------------------------------------------------
(***************************************************************************)
(* The inductive invariant, on top of IInv.                                *)
(***************************************************************************)
Opening == alive /\ ws = "connecting"

\* What the runner thread has published while it is inside connect().
ConnShape ==
    /\ runner \in {"run", "on_open", "on_close"}
          => alive /\ active = "live" /\ message_sender = "live"
    /\ runner = "dial" => Opening /\ message_sender = "live"
    /\ Opening => runner \in {"dial", "run", "unwind"}
    /\ (alive /\ ws = "open") => runner \in {"run", "on_open", "unwind"}

\* resetTalkers() runs inside the open handler.
ResetShape == reset_at = "loop" => runner = "on_open"

\* Only owners whose constructor has run are in the vector, and the queue of
\* any other is new.
Attached ==
    /\ \A i \in 1 .. Len(talkers) : owner[talkers[i]] # "none"
    /\ \A t \in Talkers : owner[t] = "none" => ~tq[t].head_popped

\* talk() has found the connection active and deals with the queue of t.
Serves(t) == talk_at \in {"empty", "next", "check", "send", "pop"} /\ TalkTo = t

\* A queue attached while the connection opens is left alone until it is open.
NotYetServed(t) == (Opening /\ fresh[t]) => ~tq[t].head_popped /\ ~Serves(t)

\* While a connection is served: what pop() is about to mark as sent, or has
\* marked, has reached the server.
DeclaredInTime(t) ==
    (Serving /\ fresh[t] /\ raced[t] = 0) =>
        /\ tq[t].head_popped => registered[t] # "unknown"
        /\ (talk_at = "pop" /\ TalkTo = t) => registered[t] # "unknown"
        /\ (talk_at \in {"check", "send"} /\ TalkTo = t /\ ~tq[t].head_popped)
              => talk_msg = HEAD_MSG

HInv ==
    /\ ConnShape
    /\ ResetShape
    /\ Attached
    /\ \A t \in Talkers : NotYetServed(t) /\ DeclaredInTime(t)

-----------------------------------------------------------------------------
(***************************************************************************)
(* The connection.                                                         *)
(***************************************************************************)

\* The steps of the runner thread, of the network and of the pong timer keep
\* what connect() has published in step with where the runner is.
LEMMA ConnStepShape ==
    ASSUME ConnTypeOK, ConnShape,
           \/ NewClient \/ Dial \/ RunReturns \/ ClearSender \/ ClearActive
           \/ ConnectReturns \/ OnConnection \/ OnClose
           \/ NetworkEvents \/ PongMissed \/ ConnectThrows \/ CallbackThrows
    PROVE  ConnShape'
  <1>. USE DEF ConnTypeOK, ConnShape, Opening
  <1>1. CASE NewClient \/ Dial \/ RunReturns
    BY <1>1 DEF NewClient, Dial, RunReturns
  <1>2. CASE ClearSender \/ ClearActive \/ ConnectReturns
    BY <1>2 DEF ClearSender, ClearActive, ConnectReturns
  <1>3. CASE OnConnection \/ OnClose
    BY <1>3 DEF OnConnection, OnClose
  <1>4. CASE NetworkEvents
    BY <1>4 DEF NetworkEvents, OpenHandshake, OpenFails, RemoteClose, Terminate,
                MessageThrows
  <1>5. CASE PongMissed \/ ConnectThrows \/ CallbackThrows
    BY <1>5 DEF PongMissed, ConnectThrows, CallbackThrows
  <1>. QED  BY <1>1, <1>2, <1>3, <1>4, <1>5

\* A step of Connection other than a new attempt begins to serve only by the
\* open handshake, and begins to open nothing.
LEMMA ServingFrom ==
    ASSUME ConnTypeOK, ConnShape,
           \/ Dial \/ RunReturns \/ ClearSender \/ ClearActive
           \/ ConnectReturns \/ OnConnection \/ OnClose
           \/ NetworkEvents \/ PongMissed \/ ConnectThrows \/ CallbackThrows
    PROVE  /\ Opening' => Opening
           /\ Serving' => Serving \/ Opening
  <1>. USE DEF ConnTypeOK, ConnShape, Opening, Serving
  <1>1. CASE Dial \/ RunReturns
    BY <1>1 DEF Dial, RunReturns
  <1>2. CASE ClearSender \/ ClearActive \/ ConnectReturns
    BY <1>2 DEF ClearSender, ClearActive, ConnectReturns
  <1>3. CASE OnConnection \/ OnClose
    BY <1>3 DEF OnConnection, OnClose
  <1>4. CASE NetworkEvents
    BY <1>4 DEF NetworkEvents, OpenHandshake, OpenFails, RemoteClose, Terminate,
                MessageThrows
  <1>5. CASE PongMissed \/ ConnectThrows \/ CallbackThrows
    BY <1>5 DEF PongMissed, ConnectThrows, CallbackThrows
  <1>. QED  BY <1>1, <1>2, <1>3, <1>4, <1>5

\* While a connection opens, active() says no; while it is served, active()
\* says yes and what talk() sends goes out (connection.h:51-57, 174).
LEMMA ActiveAnswers ==
    ASSUME ConnTypeOK, ConnShape
    PROVE  /\ Opening => ActiveResults = {FALSE}
           /\ Serving => ActiveResults = {TRUE} /\ Transmits
  <1>1. Opening => ActiveResults = {FALSE}
    BY DEF Opening, ActiveResults
  <1>2. Serving => active = "live" /\ message_sender = "live" /\ alive /\ ws = "open"
    BY DEF Serving, ConnShape
  <1>. QED  BY <1>1, <1>2 DEF ActiveResults, Transmits

-----------------------------------------------------------------------------
(***************************************************************************)
(* The steps preserve the invariant.                                       *)
(***************************************************************************)

\* A step that moves neither talk() nor a head message, and begins no
\* connection, disturbs no owner.
LEMMA FrameHead ==
    ASSUME HInv, NEW t \in Talkers,
           UNCHANGED <<talkers, talk_at, talk_i, talk_msg, registered>>,
           fresh'[t] = fresh[t], raced'[t] = raced[t],
           tq'[t].head_popped = tq[t].head_popped,
           Opening' => Opening,
           Serving' => Serving
    PROVE  NotYetServed(t)' /\ DeclaredInTime(t)'
  <1>1. NotYetServed(t) /\ DeclaredInTime(t) /\ TalkTo' = TalkTo
    BY DEF HInv, TalkTo
  <1>2. Serves(t)' => Serves(t)
    BY <1>1 DEF Serves
  <1>3. NotYetServed(t)'
    BY <1>1, <1>2 DEF NotYetServed
  <1>4. DeclaredInTime(t)'
    BY <1>1 DEF DeclaredInTime
  <1>. QED  BY <1>3, <1>4

\* Initially nothing is connected, attached or held.
LEMMA InitHInv == Init => HInv
  <1>. SUFFICES ASSUME Init PROVE HInv
    OBVIOUS
  <1>1. runner = "loop" /\ ~alive /\ reset_at = "idle" /\ talkers = << >>
    BY DEF Init, ConnInit
  <1>2. ConnShape /\ ResetShape
    BY <1>1 DEF ConnShape, ResetShape, Opening
  <1>3. Attached
    BY <1>1 DEF Attached, Init, NewTalkerQueue, TalkerQueue
  <1>4. ASSUME NEW t \in Talkers PROVE NotYetServed(t) /\ DeclaredInTime(t)
    BY <1>1 DEF NotYetServed, DeclaredInTime, Opening, Serving
  <1>. QED  BY <1>2, <1>3, <1>4 DEF HInv

\* The vector and the life of the owners, when neither changes.
LEMMA FrameAttached ==
    ASSUME Attached, UNCHANGED <<talkers, owner>>,
           \A t \in Talkers : owner[t] = "none" => tq'[t].head_popped = tq[t].head_popped
    PROVE  Attached'
  BY DEF Attached

\* A step that leaves Connection alone leaves its shape alone.
LEMMA FrameConn ==
    ASSUME ConnShape, UNCHANGED connVars
    PROVE  ConnShape' /\ Opening' = Opening /\ Serving' = Serving
  BY DEF ConnShape, Opening, Serving, connVars

\* The owner that attaches is unknown to talk(), and its queue is new
\* (rosbridgeclient.cpp:39-43).
LEMMA AttachHInv ==
    ASSUME IInv, HInv, NEW u \in Talkers, Attach(u)
    PROVE  HInv'
  <1>1. /\ UNCHANGED <<connVars, tq, pushed, talkVars, resetVars, serverVars, raced>>
        /\ owner[u] = "none" /\ owner' = [owner EXCEPT ![u] = "attached"]
        /\ talkers' = Append(talkers, u)
        /\ fresh' = [fresh EXCEPT ![u] = TRUE]
    BY DEF Attach
  <1>2. /\ talkers \in Seq(Talkers) /\ Len(talkers) \in Nat
        /\ Len(talkers') = Len(talkers) + 1
        /\ talkers'[Len(talkers) + 1] = u
        /\ \A i \in 1 .. Len(talkers) : talkers'[i] = talkers[i] /\ talkers[i] \in Talkers
    BY <1>1 DEF IInv, TypeOK
  <1>3. ConnShape' /\ Opening' = Opening /\ Serving' = Serving
    BY <1>1, FrameConn DEF HInv
  <1>4. ResetShape'
    BY <1>1 DEF HInv, ResetShape, connVars, resetVars
  <1>5. /\ owner'[u] = "attached" /\ fresh'[u] = TRUE
        /\ \A t \in Talkers : t # u => owner'[t] = owner[t] /\ fresh'[t] = fresh[t]
    BY <1>1 DEF IInv, TypeOK
  <1>6. Attached'
    <2>1. ASSUME NEW i \in 1 .. Len(talkers') PROVE owner'[talkers'[i]] # "none"
      <3>1. CASE i = Len(talkers) + 1
        BY <1>2, <1>5, <3>1
      <3>2. CASE i \in 1 .. Len(talkers)
        <4>1. talkers'[i] = talkers[i] /\ talkers[i] \in Talkers /\ owner[talkers[i]] # "none"
          BY <1>2, <3>2 DEF HInv, Attached
        <4>. QED  BY <1>5, <4>1
      <3>. QED  BY <1>2, <3>1, <3>2
    <2>2. ASSUME NEW t \in Talkers, owner'[t] = "none" PROVE ~tq'[t].head_popped
      BY <1>1, <1>5, <2>2 DEF HInv, Attached
    <2>. QED  BY <2>1, <2>2 DEF Attached
  <1>7. talk_at # "idle" => TalkTo' = TalkTo /\ TalkTo # u
    <2>. SUFFICES ASSUME talk_at # "idle" PROVE TalkTo' = TalkTo /\ TalkTo # u
      OBVIOUS
    <2>1. talk_i \in 1 .. Len(talkers) /\ talk_i' = talk_i
      BY <1>1, <1>2 DEF IInv, TypeOK, Loops, talkVars
    <2>2. owner[talkers[talk_i]] # "none"
      BY <2>1 DEF HInv, Attached
    <2>. QED  BY <1>1, <1>2, <2>1, <2>2 DEF TalkTo
  <1>8. ASSUME NEW t \in Talkers PROVE NotYetServed(t)' /\ DeclaredInTime(t)'
    <2>1. CASE t = u
      <3>1. ~tq'[t].head_popped
        BY <1>1, <2>1 DEF HInv, Attached
      <3>2. talk_at' # "idle" => TalkTo' # t
        BY <1>1, <1>7, <2>1 DEF talkVars
      <3>3. NotYetServed(t)'
        BY <3>1, <3>2 DEF NotYetServed, Serves
      <3>4. DeclaredInTime(t)'
        BY <3>1, <3>2 DEF DeclaredInTime
      <3>. QED  BY <3>3, <3>4
    <2>2. CASE t # u
      <3>1. NotYetServed(t) /\ DeclaredInTime(t)
        BY DEF HInv
      <3>2. /\ fresh'[t] = fresh[t] /\ tq' = tq /\ raced' = raced /\ talk_at' = talk_at
            /\ talk_msg' = talk_msg /\ registered' = registered
        BY <1>1, <1>5, <2>2 DEF talkVars, serverVars
      <3>3. NotYetServed(t)'
        BY <1>3, <1>7, <3>1, <3>2 DEF NotYetServed, Serves
      <3>4. DeclaredInTime(t)'
        BY <1>3, <1>7, <3>1, <3>2 DEF DeclaredInTime
      <3>. QED  BY <3>3, <3>4
    <2>. QED  BY <2>1, <2>2
  <1>. QED  BY <1>3, <1>4, <1>6, <1>8 DEF HInv

\* push() never touches head_popped (queues.cpp:33-38).
LEMMA PushOrDestroyHInv ==
    ASSUME IInv, HInv, NEW u \in Talkers, Push(u) \/ Destroy(u)
    PROVE  HInv'
  <1>1. /\ UNCHANGED <<connVars, talkers, talkVars, resetVars, serverVars, historyVars>>
        /\ owner' = owner \/ owner' = [owner EXCEPT ![u] = "destroyed"]
        /\ tq' = tq \/ tq' = [tq EXCEPT ![u] = TQPush(tq[u], QSize[u], pushed[u] + 1)]
    BY DEF Push, Destroy, PushMessage
  <1>2. \A t \in Talkers : tq'[t].head_popped = tq[t].head_popped
    <2>1. TQPush(tq[u], QSize[u], pushed[u] + 1).head_popped = tq[u].head_popped
      BY DEF TQPush, TalkerQueue
    <2>. QED  BY <1>1, <2>1 DEF IInv, TypeOK
  <1>3. ConnShape' /\ Opening' = Opening /\ Serving' = Serving
    BY <1>1, FrameConn DEF HInv
  <1>4. ResetShape'
    BY <1>1 DEF HInv, ResetShape, connVars, resetVars
  <1>5. Attached'
    <2>1. \A t \in Talkers : owner'[t] = "none" <=> owner[t] = "none"
      BY <1>1 DEF IInv, TypeOK, Push, Destroy
    <2>2. \A i \in 1 .. Len(talkers) : talkers[i] \in Talkers
      BY DEF IInv, TypeOK
    <2>. QED  BY <1>1, <1>2, <2>1, <2>2 DEF HInv, Attached
  <1>6. ASSUME NEW t \in Talkers PROVE NotYetServed(t)' /\ DeclaredInTime(t)'
    BY <1>1, <1>2, <1>3, FrameHead DEF talkVars, serverVars, historyVars
  <1>. QED  BY <1>3, <1>4, <1>5, <1>6 DEF HInv

\* talk() goes on to a queue only on a connection that is open, and to the
\* message it took from it only as next() returned it (rosbridgeclient.cpp:72-78).
LEMMA TalkMoveHInv ==
    ASSUME IInv, HInv,
           TalkBegin \/ TalkActive \/ TalkEmpty \/ TalkNext \/ TalkCheck
    PROVE  HInv'
  <1>1. /\ UNCHANGED <<connVars, clientVars, resetVars, serverVars, historyVars>>
        /\ talk_at = "idle" \/ talk_at' \in {"active", "idle"} \/ UNCHANGED talk_i
    BY DEF TalkBegin, TalkActive, TalkEmpty, TalkNext, TalkCheck, TalkAdvance
  <1>2. ConnShape' /\ Opening' = Opening /\ Serving' = Serving
    BY <1>1, FrameConn DEF HInv
  <1>3. ResetShape'
    BY <1>1 DEF HInv, ResetShape, connVars, resetVars
  <1>4. Attached'
    BY <1>1, FrameAttached DEF HInv, clientVars
  <1>5. /\ Opening => ActiveResults = {FALSE}
        /\ Serving => ActiveResults = {TRUE}
    BY ActiveAnswers DEF HInv, IInv, TypeOK
  <1>6. ASSUME NEW t \in Talkers PROVE NotYetServed(t)' /\ DeclaredInTime(t)'
    <2>1. /\ NotYetServed(t) /\ DeclaredInTime(t)
          /\ UNCHANGED <<tq, fresh, raced, registered, talkers>>
      BY <1>1 DEF HInv, clientVars, serverVars, historyVars
    <2>2. CASE talk_at' \in {"active", "idle"}
      BY <1>2, <2>1, <2>2 DEF NotYetServed, DeclaredInTime, Serves
    <2>3. CASE TalkActive /\ talk_at' = "empty"
      <3>1. ~Opening
        BY <1>5, <2>3 DEF TalkActive
      <3>2. NotYetServed(t)'
        BY <1>2, <3>1 DEF NotYetServed
      <3>3. DeclaredInTime(t)'
        BY <1>2, <2>1, <2>3 DEF DeclaredInTime
      <3>. QED  BY <3>2, <3>3
    <2>4. CASE TalkEmpty /\ talk_at' = "next"
      <3>1. talk_at = "empty" /\ TalkTo' = TalkTo
        BY <2>1, <2>4 DEF TalkEmpty, TalkAdvance, TalkTo
      <3>2. NotYetServed(t)'
        BY <1>2, <2>1, <3>1 DEF NotYetServed, Serves
      <3>3. DeclaredInTime(t)'
        BY <1>2, <2>1, <2>4 DEF DeclaredInTime
      <3>. QED  BY <3>2, <3>3
    <2>5. CASE TalkNext
      <3>1. /\ talk_at = "next" /\ talk_at' = "check" /\ TalkTo' = TalkTo
            /\ talk_msg' = TQNext(tq[TalkTo], HEAD_MSG)
        BY <2>1, <2>5 DEF TalkNext, TalkTo
      <3>2. NotYetServed(t)'
        BY <1>2, <2>1, <3>1 DEF NotYetServed, Serves
      <3>3. TalkTo = t /\ ~tq[t].head_popped => talk_msg' = HEAD_MSG
        BY <3>1 DEF TQNext
      <3>4. DeclaredInTime(t)'
        BY <1>2, <2>1, <3>1, <3>3 DEF DeclaredInTime, HEAD_MSG
      <3>. QED  BY <3>2, <3>4
    <2>6. CASE TalkCheck
      <3>1. /\ talk_at = "check" /\ TalkTo' = TalkTo /\ talk_msg' = talk_msg
            /\ talk_at' \in {"send", "pop"}
            /\ Serving => talk_at' = "send"
        <4>1. /\ talk_at = "check" /\ TalkTo' = TalkTo /\ talk_msg' = talk_msg
              /\ \E a \in ActiveResults : talk_at' = IF a THEN "send" ELSE "pop"
          BY <2>1, <2>6 DEF TalkCheck, TalkTo
        <4>2. talk_at' \in {"send", "pop"}
          BY <4>1, Zenon
        <4>3. ASSUME Serving PROVE talk_at' = "send"
          <5>1. ActiveResults = {TRUE}
            BY <1>5, <4>3
          <5>. QED  BY <4>1, <5>1
        <4>. QED  BY <4>1, <4>2, <4>3
      <3>2. NotYetServed(t)'
        BY <1>2, <2>1, <3>1 DEF NotYetServed, Serves
      <3>3. DeclaredInTime(t)'
        BY <1>2, <2>1, <3>1 DEF DeclaredInTime, HEAD_MSG
      <3>. QED  BY <3>2, <3>3
    <2>. QED
      BY <2>2, <2>3, <2>4, <2>5, <2>6
      DEF TalkBegin, TalkActive, TalkEmpty, TalkAdvance
  <1>. QED  BY <1>2, <1>3, <1>4, <1>6 DEF HInv

\* While a connection is served the head message that talk() holds reaches the
\* server before pop() marks it as sent (rosbridgeclient.cpp:78).
LEMMA TalkSendHInv ==
    ASSUME IInv, HInv, TalkSend
    PROVE  HInv'
  <1>. DEFINE u == TalkTo
  <1>1. /\ UNCHANGED <<connVars, clientVars, talk_i, talk_end, talk_msg, resetVars,
                       historyVars>>
        /\ talk_at = "send" /\ talk_at' = "pop"
    BY DEF TalkSend
  <1>2. ConnShape' /\ Opening' = Opening /\ Serving' = Serving
    BY <1>1, FrameConn DEF HInv
  <1>3. ResetShape'
    BY <1>1 DEF HInv, ResetShape, connVars, resetVars
  <1>4. Attached'
    BY <1>1, FrameAttached DEF HInv, clientVars
  <1>5. Serving => Receive(u, talk_msg)
    BY ActiveAnswers DEF HInv, IInv, TypeOK, TalkSend
  <1>6. /\ u \in Talkers
        /\ registered \in [Talkers -> {"unknown", "declared", "gone"}]
    BY <1>1, TalkToType DEF IInv, TypeOK
  <1>7. Receive(u, talk_msg) =>
          /\ \A t \in Talkers : registered[t] # "unknown" => registered'[t] # "unknown"
          /\ talk_msg = HEAD_MSG => registered'[u] # "unknown"
    BY <1>6 DEF Receive
  <1>8. ASSUME NEW t \in Talkers PROVE NotYetServed(t)' /\ DeclaredInTime(t)'
    <2>1. /\ NotYetServed(t) /\ DeclaredInTime(t)
          /\ UNCHANGED <<tq, fresh, raced, talkers>> /\ TalkTo' = TalkTo
      BY <1>1 DEF HInv, clientVars, historyVars, TalkTo
    <2>2. NotYetServed(t)'
      BY <1>1, <1>2, <2>1 DEF NotYetServed, Serves
    <2>3. DeclaredInTime(t)'
      <3>. SUFFICES ASSUME Serving, fresh[t], raced[t] = 0
                    PROVE  /\ tq[t].head_popped => registered'[t] # "unknown"
                           /\ TalkTo = t => registered'[t] # "unknown"
        BY <1>1, <1>2, <2>1 DEF DeclaredInTime
      <3>1. /\ tq[t].head_popped => registered'[t] # "unknown"
        BY <1>5, <1>7, <2>1 DEF DeclaredInTime
      <3>2. ASSUME TalkTo = t, ~tq[t].head_popped PROVE registered'[t] # "unknown"
        BY <1>1, <1>5, <1>7, <2>1, <3>2 DEF DeclaredInTime
      <3>. QED  BY <3>1, <3>2
    <2>. QED  BY <2>2, <2>3
  <1>. QED  BY <1>2, <1>3, <1>4, <1>8 DEF HInv

\* pop() marks the head message of the queue that talk() is at, and talk()
\* then holds nothing (rosbridgeclient.cpp:79).
LEMMA TalkPopHInv ==
    ASSUME IInv, HInv, TalkPop
    PROVE  HInv'
  <1>. DEFINE u == TalkTo
  <1>1. /\ UNCHANGED <<connVars, talkers, owner, resetVars, serverVars, historyVars>>
        /\ talk_at = "pop" /\ talk_at' \in {"active", "idle"}
        /\ tq' = [tq EXCEPT ![u] = TQPop(tq[u])]
    BY DEF TalkPop, TalkAdvance
  <1>2. ConnShape' /\ Opening' = Opening /\ Serving' = Serving
    BY <1>1, FrameConn DEF HInv
  <1>3. ResetShape'
    BY <1>1 DEF HInv, ResetShape, connVars, resetVars
  <1>4. /\ u \in Talkers /\ owner[u] # "none"
        /\ tq'[u] = TQPop(tq[u])
        /\ \A t \in Talkers : t # u => tq'[t] = tq[t]
    <2>1. u \in Talkers /\ talk_i \in 1 .. Len(talkers)
      BY SMTT(30), <1>1, TalkToType DEF IInv, TypeOK, Loops
    <2>2. owner[u] # "none"
      BY <2>1 DEF HInv, Attached, TalkTo
    <2>. QED  BY <1>1, <2>1, <2>2 DEF IInv, TypeOK
  <1>5. Attached'
    BY <1>1, <1>4, FrameAttached DEF HInv
  <1>6. ASSUME NEW t \in Talkers PROVE NotYetServed(t)' /\ DeclaredInTime(t)'
    <2>1. /\ NotYetServed(t) /\ DeclaredInTime(t)
          /\ UNCHANGED <<fresh, raced, registered>>
      BY <1>1 DEF HInv, serverVars, historyVars
    <2>2. CASE t = u
      <3>1. NotYetServed(t)'
        BY <1>1, <1>2, <2>1, <2>2 DEF NotYetServed, Serves
      <3>2. DeclaredInTime(t)'
        BY <1>1, <1>2, <2>1, <2>2 DEF DeclaredInTime
      <3>. QED  BY <3>1, <3>2
    <2>3. CASE t # u
      BY <1>1, <1>2, <1>4, <2>1, <2>3 DEF NotYetServed, DeclaredInTime, Serves
    <2>. QED  BY <2>2, <2>3
  <1>. QED  BY <1>2, <1>3, <1>5, <1>6 DEF HInv

\* The reset of a queue that talk() holds nothing of makes the head message due
\* again; the reset of one that it does hold is counted (rosbridgeclient.cpp:83-87).
LEMMA ResetTalkerHInv ==
    ASSUME IInv, HInv, ResetTalker
    PROVE  HInv'
  <1>. DEFINE r == talkers[reset_i]
  <1>1. /\ UNCHANGED <<connVars, talkers, owner, pushed, talkVars, reset_at, reset_end,
                       serverVars, outage>>
        /\ reset_at = "loop" /\ reset_i <= reset_end
        /\ tq' = [tq EXCEPT ![r] = TQReset(tq[r])]
        /\ fresh' = [fresh EXCEPT ![r] = TRUE]
        /\ raced' = [raced EXCEPT ![r] = IF Holding(r) THEN raced[r] + 1 ELSE raced[r]]
    BY DEF ResetTalker
  <1>2. ConnShape' /\ Opening' = Opening /\ Serving' = Serving
    BY <1>1, FrameConn DEF HInv
  <1>3. ResetShape'
    BY <1>1 DEF HInv, ResetShape, connVars
  <1>4. r \in Talkers /\ owner[r] # "none"
    <2>1. reset_i \in 1 .. Len(talkers) /\ talkers \in Seq(Talkers)
      BY <1>1 DEF IInv, TypeOK, Loops
    <2>. QED  BY <2>1 DEF HInv, Attached
  <1>5. /\ ~tq'[r].head_popped
        /\ raced'[r] = IF Holding(r) THEN raced[r] + 1 ELSE raced[r]
        /\ raced[r] \in Nat
        /\ \A t \in Talkers : t # r =>
             tq'[t] = tq[t] /\ fresh'[t] = fresh[t] /\ raced'[t] = raced[t]
    <2>1. ~TQReset(tq[r]).head_popped
      BY DEF TQReset, TalkerQueue
    <2>2. tq'[r] = TQReset(tq[r])
      BY <1>1, <1>4 DEF IInv, TypeOK
    <2>. QED  BY <1>1, <1>4, <2>1, <2>2 DEF IInv, TypeOK
  <1>6. Attached'
    BY <1>1, <1>4, <1>5, FrameAttached DEF HInv
  <1>7. ASSUME NEW t \in Talkers PROVE NotYetServed(t)' /\ DeclaredInTime(t)'
    <2>1. ~Opening
      BY <1>1 DEF HInv, ResetShape, ConnShape
    <2>2. CASE t = r
      <3>1. NotYetServed(t)'
        BY <1>2, <2>1 DEF NotYetServed
      <3>2. raced'[t] = 0 => ~Holding(t)'
        BY <1>1, <1>5, <2>2 DEF Holding, TalkTo, talkVars
      <3>3. DeclaredInTime(t)'
        BY <1>5, <2>2, <3>2 DEF DeclaredInTime, Holding
      <3>. QED  BY <3>1, <3>3
    <2>3. CASE t # r
      BY <1>1, <1>2, <1>5, <2>3, FrameHead DEF talkVars, serverVars
    <2>. QED  BY <2>2, <2>3
  <1>. QED  BY <1>2, <1>3, <1>6, <1>7 DEF HInv

\* Before and after its loop, resetTalkers() is in the open handler.
LEMMA ResetBeginEndHInv ==
    ASSUME IInv, HInv, ResetBegin \/ ResetDone
    PROVE  HInv'
  <1>1. /\ UNCHANGED <<clientVars, talkVars, serverVars, historyVars>>
        /\ UNCHANGED connVars \/ OnConnection
    BY DEF ResetBegin, ResetDone
  <1>2. /\ ConnShape'
        /\ Opening' => Opening
        /\ Serving' => Serving
    <2>1. CASE UNCHANGED connVars
      BY <2>1, FrameConn DEF HInv
    <2>2. CASE OnConnection
      <3>1. ConnShape'
        BY <2>2, ConnStepShape DEF HInv, IInv, TypeOK
      <3>2. (Opening' => Opening) /\ (Serving' => Serving)
        BY <2>2 DEF OnConnection, Opening, Serving
      <3>. QED  BY <3>1, <3>2
    <2>. QED  BY <1>1, <2>1, <2>2
  <1>3. ResetShape'
    BY DEF ResetBegin, ResetDone, ResetShape, connVars
  <1>4. Attached'
    BY <1>1, FrameAttached DEF HInv, clientVars
  <1>5. ASSUME NEW t \in Talkers PROVE NotYetServed(t)' /\ DeclaredInTime(t)'
    BY <1>1, <1>2, FrameHead DEF clientVars, talkVars, serverVars, historyVars
  <1>. QED  BY <1>2, <1>3, <1>4, <1>5 DEF HInv

\* On a new connection no queue has been created or reset yet.
LEMMA ReconnectHInv ==
    ASSUME IInv, HInv, Reconnect
    PROVE  HInv'
  <1>1. ConnShape'
    BY ConnStepShape DEF Reconnect, HInv, IInv, TypeOK
  <1>2. ResetShape'
    BY DEF Reconnect, NewClient, HInv, ResetShape, resetVars
  <1>3. Attached'
    BY FrameAttached DEF Reconnect, HInv, clientVars
  <1>4. ASSUME NEW t \in Talkers PROVE NotYetServed(t)' /\ DeclaredInTime(t)'
    <2>1. fresh' = [s \in Talkers |-> FALSE]
      BY DEF Reconnect
    <2>2. ~fresh'[t]
      BY <2>1
    <2>. QED  BY <2>2 DEF NotYetServed, DeclaredInTime
  <1>. QED  BY <1>1, <1>2, <1>3, <1>4 DEF HInv

\* A queue attached while the connection opened has its head message still to
\* come when the connection is open: talk() was told that it was not active.
LEMMA ConnectionHInv ==
    ASSUME IInv, HInv, RunnerOther \/ ConnectionEvent \/ UserThrows
    PROVE  HInv'
  <1>1. /\ UNCHANGED <<clientVars, talkVars, reset_i, reset_end, serverVars, fresh, raced>>
        /\ \/ Dial \/ RunReturns \/ ClearSender \/ ClearActive \/ ConnectReturns \/ OnClose
           \/ NetworkEvents \/ PongMissed \/ ConnectThrows \/ CallbackThrows
    BY DEF RunnerOther, ConnectionEvent, UserThrows, historyVars, resetVars
  <1>2. ConnTypeOK /\ ConnShape
    BY DEF HInv, IInv, TypeOK
  <1>3. ConnShape'
    BY <1>1, <1>2, ConnStepShape
  <1>4. ResetShape'
    <2>1. CASE UserThrows
      BY <2>1 DEF UserThrows, ResetShape
    <2>2. CASE RunnerOther \/ ConnectionEvent
      <3>1. runner = "on_open" => runner' = runner
        BY <2>2 DEF RunnerOther, ConnectionEvent, Dial, RunReturns, ClearSender, ClearActive,
                    ConnectReturns, OnClose, NetworkEvents, OpenHandshake, OpenFails,
                    RemoteClose, Terminate, MessageThrows, ConnectThrows, PongMissed
      <3>2. reset_at' = reset_at
        BY <2>2 DEF RunnerOther, ConnectionEvent, resetVars
      <3>. QED  BY <3>1, <3>2 DEF HInv, ResetShape
    <2>. QED  BY <2>1, <2>2
  <1>5. Attached'
    BY <1>1, FrameAttached DEF HInv, clientVars
  <1>6. ASSUME NEW t \in Talkers PROVE NotYetServed(t)' /\ DeclaredInTime(t)'
    <2>1. (Opening' => Opening) /\ (Serving' => Serving \/ Opening)
      BY <1>1, <1>2, ServingFrom
    <2>2. CASE Serving' => Serving
      BY <1>1, <2>1, <2>2, FrameHead DEF clientVars, talkVars, serverVars
    <2>3. CASE Serving' /\ Opening
      <3>1. ~Opening'
        BY <2>3 DEF Opening, Serving
      <3>2. NotYetServed(t)'
        BY <3>1 DEF NotYetServed
      <3>3. fresh[t] => ~tq[t].head_popped /\ ~Serves(t)
        BY <2>3 DEF HInv, NotYetServed
      <3>4. DeclaredInTime(t)'
        BY <1>1, <3>3 DEF DeclaredInTime, Serves, TalkTo, clientVars, talkVars
      <3>. QED  BY <3>2, <3>4
    <2>. QED  BY <2>1, <2>2, <2>3
  <1>. QED  BY <1>3, <1>4, <1>5, <1>6 DEF HInv

\* The invariant depends on the variables of the specification alone.
LEMMA StutterHInv ==
    ASSUME HInv, UNCHANGED vars
    PROVE  HInv'
  <1>1. ConnShape' /\ Opening' = Opening /\ Serving' = Serving
    BY FrameConn DEF HInv, vars
  <1>2. ResetShape'
    BY DEF HInv, ResetShape, vars, connVars, resetVars
  <1>3. Attached'
    BY FrameAttached DEF HInv, vars, clientVars
  <1>4. ASSUME NEW t \in Talkers PROVE NotYetServed(t)' /\ DeclaredInTime(t)'
    BY <1>1, FrameHead DEF vars, clientVars, talkVars, serverVars, historyVars
  <1>. QED  BY <1>1, <1>2, <1>3, <1>4 DEF HInv

\* Every step of every thread preserves the invariant.
LEMMA NextHInv == IInv /\ HInv /\ [Next]_vars => HInv'
  <1>. SUFFICES ASSUME IInv, HInv, [Next]_vars PROVE HInv'
    OBVIOUS
  <1>1. ASSUME NEW t \in Talkers, Attach(t) PROVE HInv'
    BY <1>1, AttachHInv
  <1>2. ASSUME NEW t \in Talkers, Push(t) \/ Destroy(t) PROVE HInv'
    BY <1>2, PushOrDestroyHInv
  <1>3. CASE TalkSteps
    BY <1>3, TalkMoveHInv, TalkSendHInv, TalkPopHInv DEF TalkSteps
  <1>4. CASE ResetBegin \/ ResetTalker \/ ResetDone
    BY <1>4, ResetBeginEndHInv, ResetTalkerHInv
  <1>5. CASE Reconnect \/ RunnerOther \/ ConnectionEvent \/ UserThrows
    BY <1>5, ReconnectHInv, ConnectionHInv
  <1>6. CASE UNCHANGED vars
    BY <1>6, StutterHInv
  <1>. QED  BY <1>1, <1>2, <1>3, <1>4, <1>5, <1>6 DEF Next

-----------------------------------------------------------------------------
\* A queue created or reset during a connection lets its other messages pass
\* only behind its head message, whatever the number of owners and however the
\* three threads interleave, unless resetTalkers() fell between a next() and
\* its pop() on that queue (rosbridgeclient.cpp:72-87).
THEOREM HeadLostOnlyByRaceHolds == Spec => []HeadLostOnlyByRace
  <1>1. HInv => HeadLostOnlyByRace
    BY DEF HInv, DeclaredInTime, HeadLostOnlyByRace
  <1>. QED  BY <1>1, InitHInv, NextHInv, Invariance, PTL DEF Spec

-----------------------------------------------------------------------------
(***************************************************************************)
(* NothingLostWithoutOutage: a third invariant, on top of IInv and HInv.   *)
(***************************************************************************)

\* active() is no between two connections.  Until a connection is lost or a
\* callback throws, the only exception is one of connect() before it assigns
\* active(), and talk() is past active() only while a connection is served.
Steady ==
    /\ runner \in {"sleep", "loop", "dial"} => active = "false"
    /\ ~outage =>
          /\ runner = "unwind" => active = "false"
          /\ active = "live" => alive
          /\ talk_at \in {"empty", "next", "check", "send", "pop"} => Serving

\* Only the farewell is pushed beyond MaxPush.
Bounded(t) ==
    /\ pushed[t] <= MaxPush + 1
    /\ owner[t] # "destroyed" => pushed[t] <= MaxPush

Roomy(t) == AsSizeT(QSize[t]) > MaxPush

\* The last message removed from the queue.
Removed(t) == pushed[t] - Len(tq[t].q)

\* Until a connection is lost, what has been removed was transmitted, and what
\* talk() holds is still the front of the queue, transmitted before its pop().
Kept(t) ==
    (~outage /\ Roomy(t)) =>
        /\ Removed(t) <= lastSent[t]
        /\ (Holding(t) /\ talk_msg = HEAD_MSG) => ~tq[t].head_popped
        /\ (Holding(t) /\ talk_msg # HEAD_MSG) => talk_msg = Removed(t) + 1
        /\ (Holding(t) /\ talk_msg # HEAD_MSG /\ talk_at = "pop") => lastSent[t] = talk_msg

NInv == Steady /\ \A t \in Talkers : Bounded(t) /\ Kept(t)

\* Initially nothing is held, pushed or removed.
LEMMA InitNInv == Init => NInv
  <1>. SUFFICES ASSUME Init PROVE NInv
    OBVIOUS
  <1>1. Steady
    BY DEF Init, ConnInit, Steady
  <1>2. ASSUME NEW t \in Talkers PROVE Bounded(t) /\ Kept(t)
    <2>1. pushed[t] = 0 /\ lastSent[t] = 0 /\ tq[t].q = << >> /\ talk_at = "idle"
      BY DEF Init, NewTalkerQueue, TalkerQueue
    <2>. QED  BY <2>1, TalkersAssumption DEF Bounded, Kept, Removed, Holding
  <1>. QED  BY <1>1, <1>2 DEF NInv

\* A step that neither moves talk() nor removes a message keeps what was kept.
LEMMA FrameKept ==
    ASSUME NEW t \in Talkers, Kept(t),
           outage => outage',
           UNCHANGED <<talk_at, talk_msg>>,
           talk_at # "idle" => TalkTo' = TalkTo,
           Removed(t)' = Removed(t),
           lastSent'[t] = lastSent[t],
           tq'[t].head_popped => tq[t].head_popped
    PROVE  Kept(t)'
  <1>1. Holding(t)' => Holding(t)
    BY DEF Holding
  <1>2. Roomy(t)' = Roomy(t)
    BY DEF Roomy
  <1>. HIDE DEF Roomy
  <1>. QED  BY <1>1, <1>2 DEF Kept

\* The talker thread and the loop of resetTalkers() leave Connection alone.
LEMMA FrameSteady ==
    ASSUME Steady, UNCHANGED <<connVars, outage>>,
           \/ talk_at' \in {"active", "idle"}
           \/ talk_at \in {"empty", "next", "check", "send", "pop"}
           \/ talk_at' = talk_at
    PROVE  Steady'
  BY DEF Steady, connVars, Serving

\* push() drops nothing while fewer messages were pushed than the queue holds.
LEMMA PushWithRoom ==
    ASSUME NEW v \in TalkerQueueType(Nat), NEW size \in Int, NEW p \in Nat,
           LastOf(v.q, p), NEW m \in Nat, p <= m, AsSizeT(size) > m
    PROVE  p + 1 - Len(TQPush(v, size, p + 1).q) = p - Len(v.q)
  <1>. DEFINE a == Append(v.q, p + 1)
              n == AsSizeT(size)
  <1>1. v.q \in Seq(Nat)
    BY DEF TalkerQueueType
  <1>2. n \in Nat
    BY AsSizeTNat
  <1>3. Len(a) = Len(v.q) + 1 /\ Len(v.q) \in Nat /\ Len(v.q) <= p
    BY <1>1, AppendLast DEF LastOf
  <1>4. TQPush(v, size, p + 1).q = DropOldest(a, n)
    BY DEF TQPush, TalkerQueue
  <1>5. n > m
    OBVIOUS
  <1>. HIDE DEF a, n
  <1>6. ~(Len(a) > n)
    BY <1>2, <1>3, <1>5
  <1>7. TQPush(v, size, p + 1).q = a
    BY <1>4, <1>6 DEF DropOldest
  <1>8. p + 1 - Len(a) = p - Len(v.q)
    BY <1>3
  <1>. QED  BY <1>7, <1>8

\* The application attaches, pushes where there is room, and destroys: nothing
\* is removed.
LEMMA ApplicationNInv ==
    ASSUME IInv, HInv, NInv, NEW u \in Talkers, Attach(u) \/ Push(u) \/ Destroy(u)
    PROVE  NInv'
  <1>1. UNCHANGED <<connVars, talkVars, outage, lastSent>>
    BY DEF Attach, Push, Destroy, serverVars, historyVars
  <1>2. Steady'
    BY <1>1, FrameSteady DEF NInv, talkVars
  <1>3. talk_at # "idle" => TalkTo' = TalkTo
    <2>1. CASE Attach(u)
      <3>1. talkers' = Append(talkers, u) /\ talkers \in Seq(Talkers)
        BY <2>1 DEF Attach, IInv, TypeOK
      <3>2. talk_at # "idle" => talk_i \in 1 .. Len(talkers)
        BY <3>1 DEF IInv, TypeOK, Loops
      <3>. QED  BY <1>1, <3>1, <3>2 DEF TalkTo, talkVars
    <2>2. CASE Push(u) \/ Destroy(u)
      BY <2>2 DEF Push, Destroy, TalkTo, talkVars
    <2>. QED  BY <2>1, <2>2
  <1>4. ASSUME NEW t \in Talkers, tq'[t] = tq[t], pushed'[t] = pushed[t]
        PROVE  Kept(t)'
    BY <1>1, <1>3, <1>4, FrameKept DEF NInv, Removed, talkVars
  <1>5. ASSUME PushMessage(u), pushed[u] <= MaxPush
        PROVE  /\ pushed'[u] = pushed[u] + 1
               /\ Kept(u)'
               /\ \A t \in Talkers : t # u => tq'[t] = tq[t] /\ pushed'[t] = pushed[t]
    <2>. DEFINE w == TQPush(tq[u], QSize[u], pushed[u] + 1)
    <2>1. /\ pushed'[u] = pushed[u] + 1 /\ tq'[u] = w
          /\ \A t \in Talkers : t # u => tq'[t] = tq[t] /\ pushed'[t] = pushed[t]
      BY <1>5 DEF PushMessage, IInv, TypeOK
    <2>2. /\ tq[u] \in TalkerQueueType(Nat) /\ LastOf(tq[u].q, pushed[u])
          /\ pushed[u] \in Nat /\ Len(tq[u].q) \in Nat
          /\ QSize[u] \in Int /\ MaxPush \in Nat
      BY TalkersAssumption DEF IInv, TypeOK, Contents, TalkerQueueType
    <2>4. w.head_popped = tq[u].head_popped
      BY DEF TQPush, TalkerQueue
    <2>5. ASSUME Roomy(u) PROVE Removed(u)' = Removed(u)
      <3>1. pushed[u] + 1 - Len(w.q) = pushed[u] - Len(tq[u].q)
        BY <1>5, <2>2, <2>5, PushWithRoom DEF Roomy
      <3>. HIDE DEF w
      <3>2. pushed'[u] - Len(tq'[u].q) = pushed[u] - Len(tq[u].q)
        BY SMTT(30), <2>1, <2>2, <3>1
      <3>. QED  BY <3>2 DEF Removed
    <2>6. Kept(u)'
      <3>1. CASE Roomy(u)
        BY <1>1, <1>3, <2>1, <2>4, <2>5, <3>1, FrameKept DEF NInv, talkVars
      <3>2. CASE ~Roomy(u)
        <4>1. ~Roomy(u)'
          BY <3>2 DEF Roomy
        <4>. QED  BY <4>1 DEF Kept
      <3>. QED  BY <3>1, <3>2
    <2>. QED  BY <2>1, <2>6
  <1>6. ASSUME NEW t \in Talkers PROVE Bounded(t)' /\ Kept(t)'
    <2>1. Bounded(t) /\ Bounded(u) /\ pushed[t] \in Nat /\ MaxPush \in Nat
      BY TalkersAssumption DEF NInv, IInv, TypeOK
    <2>2. CASE Attach(u)
      <3>1. UNCHANGED <<tq, pushed>> /\ (owner'[t] # "destroyed" => owner[t] # "destroyed")
        BY <2>2 DEF Attach, IInv, TypeOK
      <3>. QED  BY <1>4, <2>1, <3>1 DEF Bounded
    <2>3. CASE Push(u)
      <3>1. PushMessage(u) /\ owner' = owner /\ pushed[u] < MaxPush /\ pushed[u] \in Nat
        BY <2>3 DEF Push, IInv, TypeOK
      <3>2. pushed[u] <= MaxPush
        BY <2>1, <3>1
      <3>3. CASE t = u
        BY <1>5, <2>1, <3>1, <3>2, <3>3 DEF Bounded
      <3>4. CASE t # u
        BY <1>4, <1>5, <2>1, <3>1, <3>2, <3>4 DEF Bounded
      <3>. QED  BY <3>3, <3>4
    <2>4. CASE Destroy(u)
      <3>1. /\ owner[u] = "attached" /\ owner'[u] = "destroyed"
            /\ t # u => owner'[t] = owner[t]
            /\ PushMessage(u) \/ UNCHANGED <<tq, pushed>>
        BY <2>4 DEF Destroy, IInv, TypeOK
      <3>2. pushed[u] <= MaxPush
        BY <2>1, <3>1 DEF Bounded
      <3>3. CASE UNCHANGED <<tq, pushed>>
        BY <1>4, <2>1, <3>1, <3>3 DEF Bounded
      <3>4. CASE PushMessage(u) /\ t = u
        BY <1>5, <2>1, <3>1, <3>2, <3>4 DEF Bounded
      <3>5. CASE PushMessage(u) /\ t # u
        BY <1>4, <1>5, <2>1, <3>1, <3>2, <3>5 DEF Bounded
      <3>. QED  BY <3>1, <3>3, <3>4, <3>5
    <2>. QED  BY <2>2, <2>3, <2>4
  <1>. QED  BY <1>2, <1>6 DEF NInv

\* talk() finds the connection active only if it is served, and takes the front
\* of the queue (rosbridgeclient.cpp:76-78).
LEMMA TalkMoveNInv ==
    ASSUME IInv, HInv, NInv,
           TalkBegin \/ TalkActive \/ TalkEmpty \/ TalkNext \/ TalkCheck
    PROVE  NInv'
  <1>1. UNCHANGED <<connVars, clientVars, resetVars, serverVars, historyVars>>
    BY DEF TalkBegin, TalkActive, TalkEmpty, TalkNext, TalkCheck
  <1>2. Serving => ActiveResults = {TRUE}
    BY ActiveAnswers DEF HInv, IInv, TypeOK
  <1>3. UNCHANGED <<connVars, outage, tq, pushed, owner, lastSent, talkers>>
    BY <1>1 DEF clientVars, serverVars, historyVars
  <1>4. Steady'
    <2>1. CASE TalkActive /\ talk_at' = "empty"
      <3>1. TRUE \in ActiveResults /\ active' = active /\ runner' = runner
        BY <1>3, <2>1, Zenon DEF TalkActive, connVars
      <3>2. ~outage => Serving
        <4>1. active \in {"false", "live"}
          BY DEF IInv, TypeOK, ConnTypeOK
        <4>2. active = "live" /\ (alive => ws = "open")
          BY <3>1, <4>1 DEF ActiveResults
        <4>. QED  BY <4>2 DEF NInv, Steady, Serving
      <3>. QED  BY <1>3, <3>2 DEF NInv, Steady, connVars, Serving
    <2>2. CASE ~(TalkActive /\ talk_at' = "empty")
      BY <1>3, <2>2, FrameSteady
      DEF NInv, TalkBegin, TalkActive, TalkEmpty, TalkNext, TalkCheck, TalkAdvance
    <2>. QED  BY <2>1, <2>2
  <1>5. ASSUME NEW t \in Talkers PROVE Bounded(t)' /\ Kept(t)'
    <2>1. Bounded(t)' /\ Kept(t) /\ Removed(t)' = Removed(t)
      BY <1>3 DEF NInv, Bounded, Removed
    <2>2. CASE talk_at' \in {"active", "idle", "empty", "next"}
      <3>1. ~Holding(t)'
        BY <2>2 DEF Holding
      <3>2. Removed(t) <= lastSent[t] => (Removed(t) <= lastSent[t])'
        BY <1>3, <2>1
      <3>3. outage' = outage /\ Roomy(t)' = Roomy(t)
        BY <1>3 DEF Roomy
      <3>. HIDE DEF Roomy
      <3>. QED  BY <2>1, <3>1, <3>2, <3>3 DEF Kept
    <2>3. CASE TalkNext
      <3>1. /\ talk_at = "next" /\ talk_at' = "check" /\ TalkTo' = TalkTo
            /\ talk_msg' = TQNext(tq[TalkTo], HEAD_MSG)
        BY <1>3, <2>3 DEF TalkNext, TalkTo
      <3>2. /\ TalkTo \in Talkers /\ tq[TalkTo] \in TalkerQueueType(Nat)
            /\ pushed[TalkTo] \in Nat /\ Len(tq[TalkTo].q) \in Nat
            /\ LastOf(tq[TalkTo].q, pushed[TalkTo]) /\ ~TQEmpty(tq[TalkTo])
        BY <3>1, TalkToType DEF IInv, Contents, NoUnderflow
      <3>3. talk_msg' # HEAD_MSG => talk_msg' = Removed(TalkTo) + 1
        BY <3>1, <3>2, NextIsFront DEF Removed
      <3>4. talk_msg' = HEAD_MSG => ~tq[TalkTo].head_popped
        <4>. SUFFICES ASSUME tq[TalkTo].head_popped PROVE talk_msg' # HEAD_MSG
          OBVIOUS
        <4>1. talk_msg' = Head(tq[TalkTo].q) /\ tq[TalkTo].q # << >>
          BY <3>1, <3>2 DEF TQNext, TQEmpty
        <4>2. tq[TalkTo].q \in Seq(Nat)
          BY <3>2 DEF TalkerQueueType
        <4>3. /\ Head(tq[TalkTo].q) = pushed[TalkTo] - Len(tq[TalkTo].q) + 1
              /\ Len(tq[TalkTo].q) <= pushed[TalkTo]
          BY <3>2, <4>1, <4>2, HeadLast DEF LastOf
        <4>. QED  BY <3>2, <4>1, <4>3 DEF HEAD_MSG
      <3>5. outage' = outage /\ Roomy(t)' = Roomy(t) /\ lastSent' = lastSent /\ tq' = tq
        BY <1>3 DEF Roomy
      <3>6. Holding(t)' => t = TalkTo
        BY <3>1 DEF Holding
      <3>. HIDE DEF Roomy, Removed
      <3>. QED  BY <2>1, <3>1, <3>3, <3>4, <3>5, <3>6 DEF Kept
    <2>4. CASE TalkCheck
      <3>1. /\ talk_at = "check" /\ TalkTo' = TalkTo /\ talk_msg' = talk_msg
            /\ \E a \in ActiveResults : talk_at' = IF a THEN "send" ELSE "pop"
        BY <1>3, <2>4 DEF TalkCheck, TalkTo
      <3>2. ~outage => talk_at' = "send"
        <4>. SUFFICES ASSUME ~outage PROVE talk_at' = "send"
          OBVIOUS
        <4>1. ActiveResults = {TRUE}
          BY <1>2, <3>1 DEF NInv, Steady
        <4>. QED  BY <3>1, <4>1
      <3>3. outage' = outage /\ Roomy(t)' = Roomy(t) /\ lastSent' = lastSent /\ tq' = tq
        BY <1>3 DEF Roomy
      <3>4. ~outage /\ Holding(t)' => Holding(t) /\ talk_at' # "pop"
        BY <3>1, <3>2 DEF Holding
      <3>. HIDE DEF Roomy, Removed
      <3>. QED  BY <2>1, <3>1, <3>3, <3>4 DEF Kept
    <2>. QED
      BY <2>2, <2>3, <2>4 DEF TalkBegin, TalkActive, TalkEmpty, TalkAdvance
  <1>. QED  BY <1>4, <1>5 DEF NInv

\* What talk() holds goes out (rosbridgeclient.cpp:78).
LEMMA TalkSendNInv ==
    ASSUME IInv, HInv, NInv, TalkSend
    PROVE  NInv'
  <1>1. /\ UNCHANGED <<connVars, clientVars, talk_i, talk_end, talk_msg, resetVars,
                       historyVars>>
        /\ talk_at = "send" /\ talk_at' = "pop"
    BY DEF TalkSend
  <1>2. UNCHANGED <<connVars, outage, tq, pushed, owner, talkers, TalkTo>>
    BY <1>1 DEF clientVars, historyVars, TalkTo
  <1>3. Steady'
    BY <1>1, <1>2, FrameSteady DEF NInv
  <1>4. ~outage => Receive(TalkTo, talk_msg)
    BY <1>1, ActiveAnswers DEF HInv, NInv, Steady, IInv, TypeOK, TalkSend
  <1>5. TalkTo \in Talkers
    BY <1>1, TalkToType
  <1>6. Receive(TalkTo, talk_msg) =>
          /\ talk_msg = HEAD_MSG => lastSent' = lastSent
          /\ talk_msg # HEAD_MSG => lastSent'[TalkTo] = talk_msg
          /\ \A t \in Talkers : t # TalkTo => lastSent'[t] = lastSent[t]
    BY <1>5 DEF Receive, IInv, TypeOK
  <1>7. ASSUME NEW t \in Talkers PROVE Bounded(t)' /\ Kept(t)'
    <2>1. Bounded(t)' /\ Kept(t) /\ Removed(t)' = Removed(t)
      BY <1>2 DEF NInv, Bounded, Removed
    <2>2. /\ outage' = outage /\ Roomy(t)' = Roomy(t) /\ tq' = tq /\ talk_msg' = talk_msg
          /\ Holding(t)' <=> t = TalkTo
          /\ Holding(t) <=> t = TalkTo
      BY <1>1, <1>2 DEF Roomy, Holding
    <2>3. Removed(t) \in Int
      BY DEF Removed, IInv, TypeOK, TalkerQueueType
    <2>. HIDE DEF Roomy, Removed, Holding
    <2>4. CASE t = TalkTo
      <3>1. ~outage /\ talk_msg = HEAD_MSG => lastSent'[t] = lastSent[t]
        BY <1>4, <1>6
      <3>2. ~outage /\ talk_msg # HEAD_MSG => lastSent'[t] = talk_msg
        BY <1>4, <1>6, <2>4
      <3>. QED  BY <2>1, <2>2, <2>3, <2>4, <3>1, <3>2 DEF Kept
    <2>5. CASE t # TalkTo
      <3>1. ~outage => lastSent'[t] = lastSent[t]
        BY <1>4, <1>6, <2>5
      <3>. QED  BY <2>1, <2>2, <2>5, <3>1 DEF Kept
    <2>. QED  BY <2>4, <2>5
  <1>. QED  BY <1>3, <1>7 DEF NInv

\* pop() removes the message that was transmitted, or marks the head message
\* (rosbridgeclient.cpp:79).
LEMMA TalkPopNInv ==
    ASSUME IInv, HInv, NInv, TalkPop
    PROVE  NInv'
  <1>. DEFINE u == TalkTo
  <1>1. /\ UNCHANGED <<connVars, talkers, owner, pushed, resetVars, serverVars, historyVars>>
        /\ talk_at = "pop" /\ talk_at' \in {"active", "idle"}
        /\ tq' = [tq EXCEPT ![u] = TQPop(tq[u])]
    BY DEF TalkPop, TalkAdvance
  <1>2. UNCHANGED <<connVars, outage, lastSent>>
    BY <1>1 DEF serverVars, historyVars
  <1>3. Steady'
    BY <1>1, <1>2, FrameSteady DEF NInv
  <1>4. /\ u \in Talkers /\ tq[u] \in TalkerQueueType(Nat) /\ pushed[u] \in Nat
        /\ Len(tq[u].q) \in Nat /\ LastOf(tq[u].q, pushed[u]) /\ ~TQEmpty(tq[u])
    BY <1>1, TalkToType DEF IInv, Contents, NoUnderflow
  <1>5. /\ tq'[u] = TQPop(tq[u])
        /\ \A t \in Talkers : t # u => tq'[t] = tq[t]
    BY <1>1, <1>4 DEF IInv, TypeOK
  <1>6. ASSUME NEW t \in Talkers, t = u
        PROVE  Removed(t)' = IF tq[t].head_popped THEN Removed(t) + 1 ELSE Removed(t)
    <2>1. Len(TQPop(tq[t]).q) = IF tq[t].head_popped THEN Len(tq[t].q) - 1 ELSE Len(tq[t].q)
      BY <1>4, <1>6, PopKeepsLast
    <2>2. tq'[t] = TQPop(tq[t]) /\ pushed'[t] = pushed[t]
      BY <1>1, <1>5, <1>6
    <2>. QED  BY <1>4, <1>6, <2>1, <2>2 DEF Removed
  <1>7. ASSUME NEW t \in Talkers PROVE Bounded(t)' /\ Kept(t)'
    <2>1. Bounded(t)' /\ Kept(t) /\ outage' = outage /\ lastSent' = lastSent
      BY <1>1, <1>2 DEF NInv, Bounded
    <2>2. ~Holding(t)'
      BY <1>1 DEF Holding
    <2>3. Roomy(t)' = Roomy(t)
      BY DEF Roomy
    <2>4. ~outage /\ Roomy(t) => Removed(t)' <= lastSent[t]
      <3>1. CASE t = u
        <4>1. Holding(t)
          BY <1>1, <3>1 DEF Holding
        <4>2. Removed(t) \in Int
          BY <1>4, <3>1 DEF Removed
        <4>3. Removed(t)' = IF tq[t].head_popped THEN Removed(t) + 1 ELSE Removed(t)
          BY <1>6, <3>1
        <4>. HIDE DEF Removed
        <4>. QED  BY <1>1, <2>1, <4>1, <4>2, <4>3 DEF Kept
      <3>2. CASE t # u
        <4>1. Removed(t)' = Removed(t)
          BY <1>1, <1>5, <3>2 DEF Removed
        <4>. QED  BY <2>1, <4>1 DEF Kept
      <3>. QED  BY <3>1, <3>2
    <2>. HIDE DEF Roomy, Removed
    <2>. QED  BY <2>1, <2>2, <2>3, <2>4 DEF Kept
  <1>. QED  BY <1>3, <1>7 DEF NInv

\* The reset of a queue removes nothing (rosbridgeclient.cpp:83-87).
LEMMA ResetNInv ==
    ASSUME IInv, HInv, NInv, ResetBegin \/ ResetTalker \/ ResetDone
    PROVE  NInv'
  <1>1. UNCHANGED <<talkers, owner, pushed, talkVars, serverVars, outage>>
    BY DEF ResetBegin, ResetTalker, ResetDone, clientVars, historyVars
  <1>2. \A t \in Talkers : /\ tq'[t].q = tq[t].q
                           /\ tq'[t].head_popped => tq[t].head_popped
    <2>1. CASE UNCHANGED tq
      BY <2>1
    <2>2. CASE ResetTalker
      <3>. DEFINE r == talkers[reset_i]
      <3>1. tq' = [tq EXCEPT ![r] = TQReset(tq[r])]
        BY <2>2 DEF ResetTalker
      <3>2. TQReset(tq[r]).q = tq[r].q /\ ~TQReset(tq[r]).head_popped
        BY DEF TQReset, TalkerQueue
      <3>. HIDE DEF r
      <3>. QED  BY <3>1, <3>2 DEF IInv, TypeOK
    <2>. QED  BY <2>1, <2>2 DEF ResetBegin, ResetDone, clientVars
  <1>3. Steady'
    <2>1. UNCHANGED connVars \/ OnConnection
      BY DEF ResetBegin, ResetTalker, ResetDone
    <2>2. CASE UNCHANGED connVars
      BY <1>1, <2>2, FrameSteady DEF NInv, talkVars
    <2>3. CASE OnConnection
      BY <1>1, <2>3 DEF OnConnection, NInv, Steady, Serving, talkVars
    <2>. QED  BY <2>1, <2>2, <2>3
  <1>4. ASSUME NEW t \in Talkers PROVE Bounded(t)' /\ Kept(t)'
    <2>1. Bounded(t)' /\ Kept(t) /\ Removed(t)' = Removed(t)
      BY <1>1, <1>2 DEF NInv, Bounded, Removed
    <2>. QED  BY <1>1, <1>2, <2>1, FrameKept DEF talkVars, serverVars, TalkTo
  <1>. QED  BY <1>3, <1>4 DEF NInv

\* A connection that was served ends with an outage, and an exception of a
\* callback is one; otherwise active() is no when the locals go.
LEMMA ConnectionNInv ==
    ASSUME IInv, HInv, NInv, Reconnect \/ RunnerOther \/ ConnectionEvent \/ UserThrows
    PROVE  NInv'
  <1>1. UNCHANGED <<clientVars, talkVars, lastSent>> /\ (outage => outage')
    <2>1. CASE Reconnect
      BY <2>1 DEF Reconnect
    <2>2. CASE RunnerOther
      BY <2>2 DEF RunnerOther, serverVars, historyVars
    <2>3. CASE ConnectionEvent
      <3>1. UNCHANGED <<clientVars, talkVars, lastSent>>
        BY <2>3 DEF ConnectionEvent, serverVars
      <3>2. outage => outage'
        BY <2>3 DEF ConnectionEvent
      <3>. QED  BY <3>1, <3>2
    <2>4. CASE UserThrows
      BY <2>4 DEF UserThrows, serverVars
    <2>. QED  BY <2>1, <2>2, <2>3, <2>4
  <1>2. Steady'
    <2>. USE DEF Steady, Serving
    <2>0. Steady /\ ConnShape /\ talk_at' = talk_at
      BY <1>1 DEF NInv, HInv, talkVars
    <2>1. CASE Reconnect
      <3>1. NewClient /\ outage' = outage
        BY <2>1 DEF Reconnect
      <3>. QED  BY <2>0, <3>1 DEF NewClient, ConnShape
    <2>2. CASE RunnerOther
      <3>1. outage' = outage
        BY <2>2 DEF RunnerOther, historyVars
      <3>2. CASE Dial
        BY <2>0, <3>1, <3>2 DEF Dial, ConnShape, Opening
      <3>3. CASE RunReturns \/ OnClose
        BY <2>0, <3>1, <3>3 DEF RunReturns, OnClose
      <3>4. CASE ClearSender \/ ClearActive
        BY <2>0, <3>1, <3>4 DEF ClearSender, ClearActive
      <3>5. CASE ConnectReturns
        <4>1. ~outage => active = "false" /\ ~Serving
          BY <2>0, <3>5 DEF ConnectReturns, ConnShape
        <4>2. runner' = "exit" /\ UNCHANGED <<active, ws>>
          BY <3>5 DEF ConnectReturns
        <4>. QED  BY <2>0, <3>1, <4>1, <4>2
      <3>. QED  BY <2>2, <3>2, <3>3, <3>4, <3>5 DEF RunnerOther
    <2>3. CASE ConnectionEvent
      <3>1. outage' = (outage \/ ws = "open") /\ (NetworkEvents \/ PongMissed \/ ConnectThrows)
        BY <2>3 DEF ConnectionEvent
      <3>2. CASE NetworkEvents \/ PongMissed
        BY <2>0, <3>1, <3>2
        DEF NetworkEvents, OpenHandshake, OpenFails, RemoteClose, Terminate, MessageThrows,
            PongMissed
      <3>3. CASE ConnectThrows
        BY <2>0, <3>1, <3>3 DEF ConnectThrows, ConnShape
      <3>. QED  BY <3>1, <3>2, <3>3
    <2>4. CASE UserThrows
      <3>1. outage' /\ runner' = "unwind"
        BY <2>4 DEF UserThrows, CallbackThrows
      <3>. QED  BY <3>1
    <2>. QED  BY <2>1, <2>2, <2>3, <2>4
  <1>3. ASSUME NEW t \in Talkers PROVE Bounded(t)' /\ Kept(t)'
    <2>1. Bounded(t)' /\ Kept(t) /\ Removed(t)' = Removed(t)
      BY <1>1 DEF NInv, Bounded, Removed, clientVars
    <2>. QED  BY <1>1, <2>1, FrameKept DEF talkVars, clientVars, TalkTo
  <1>. QED  BY <1>2, <1>3 DEF NInv

\* Every step of every thread preserves the invariant.
LEMMA NextNInv == IInv /\ HInv /\ NInv /\ [Next]_vars => NInv'
  <1>. SUFFICES ASSUME IInv, HInv, NInv, [Next]_vars PROVE NInv'
    OBVIOUS
  <1>1. ASSUME NEW t \in Talkers, Attach(t) \/ Push(t) \/ Destroy(t) PROVE NInv'
    BY <1>1, ApplicationNInv
  <1>2. CASE TalkSteps
    BY <1>2, TalkMoveNInv, TalkSendNInv, TalkPopNInv DEF TalkSteps
  <1>3. CASE ResetBegin \/ ResetTalker \/ ResetDone
    BY <1>3, ResetNInv
  <1>4. CASE Reconnect \/ RunnerOther \/ ConnectionEvent \/ UserThrows
    BY <1>4, ConnectionNInv
  <1>5. CASE UNCHANGED vars
    <2>1. UNCHANGED <<connVars, clientVars, talkVars, serverVars, outage>>
      BY <1>5 DEF vars, historyVars
    <2>2. Steady'
      BY <2>1, FrameSteady DEF NInv, talkVars
    <2>3. ASSUME NEW t \in Talkers PROVE Bounded(t)' /\ Kept(t)'
      <3>1. Bounded(t)' /\ Kept(t) /\ Removed(t)' = Removed(t)
        BY <2>1 DEF NInv, Bounded, Removed, clientVars
      <3>. QED  BY <2>1, <3>1, FrameKept DEF talkVars, clientVars, serverVars, TalkTo
    <2>. QED  BY <2>2, <2>3 DEF NInv
  <1>. QED  BY <1>1, <1>2, <1>3, <1>4, <1>5 DEF Next

\* Until a connection that was open is lost or a callback of the user throws, a
\* message leaves a queue that has room for all only after it was transmitted,
\* whatever the number of owners and however pushes, resets and talk()
\* interleave (rosbridgeclient.cpp:72-87, queues.cpp:33-50).
THEOREM NothingLostWithoutOutageHolds == Spec => []NothingLostWithoutOutage
  <1>1. NInv => NothingLostWithoutOutage
    BY DEF NInv, Kept, Roomy, Removed, NothingLostWithoutOutage
  <1>2. Spec => []HInv
    BY InitHInv, NextHInv, Invariance, PTL DEF Spec
  <1>. QED  BY <1>1, <1>2, InitNInv, NextNInv, Invariance, PTL DEF Spec

-----------------------------------------------------------------------------
(***************************************************************************)
(* RepeatedOnlyByReset: a fourth invariant, on top of IInv and HInv.       *)
(***************************************************************************)

\* The vector holds every owner once.
Once == \A i, j \in 1 .. Len(talkers) : talkers[i] = talkers[j] => i = j

\* resetTalkers() of this connection has yet to come to the queue of t.
Due(t) ==
    \/ Opening
    \/ /\ runner = "on_open"
       /\ reset_at = "loop" => \E i \in reset_i .. Len(talkers) : talkers[i] = t

\* One reset on each connection, and at most one before it that talk() has
\* slept through.
RacedTwice(t) ==
    /\ raced[t] <= 2
    /\ Due(t) => raced[t] <= 1
    /\ owner[t] = "none" => raced[t] = 0

\* talk() is about to transmit the last message again.
Again(t) ==
    /\ talk_at \in {"check", "send"} /\ TalkTo = t
    /\ talk_msg # HEAD_MSG /\ talk_msg = lastSent[t]

\* The last message transmitted is the front of the queue, and the pop() that
\* is due, if any, will not remove it.
Stays(t) ==
    /\ lastSent[t] = Removed(t) + 1
    /\ ~(Holding(t) /\ tq[t].head_popped)

\* A reset has come between next() and pop().
Overtaken(t) == Holding(t) /\ talk_msg # HEAD_MSG /\ ~tq[t].head_popped

\* The transmissions to come count like those that have been.
Counted(t) ==
    /\ copies[t] <= 1 + raced[t]
    /\ Again(t) \/ Stays(t) => copies[t] <= raced[t]
    /\ Again(t) /\ Stays(t) => copies[t] + 1 <= raced[t]
    /\ Overtaken(t) => raced[t] >= 1

CInv == Once /\ \A t \in Talkers : RacedTwice(t) /\ Counted(t)

\* Initially nothing has been transmitted.
LEMMA InitCInv == Init => CInv
  <1>. SUFFICES ASSUME Init PROVE CInv
    OBVIOUS
  <1>1. Once
    BY DEF Init, Once
  <1>2. ASSUME NEW t \in Talkers PROVE RacedTwice(t) /\ Counted(t)
    <2>1. /\ pushed[t] = 0 /\ lastSent[t] = 0 /\ tq[t].q = << >> /\ talk_at = "idle"
          /\ copies[t] = 0 /\ raced[t] = 0
      BY DEF Init, NewTalkerQueue, TalkerQueue
    <2>2. ~Again(t) /\ ~Stays(t) /\ ~Overtaken(t)
      BY <2>1 DEF Again, Stays, Overtaken, Holding, Removed
    <2>. QED  BY <2>1, <2>2 DEF RacedTwice, Counted
  <1>. QED  BY <1>1, <1>2 DEF CInv

\* A step that adds no transmission, past or to come, and does not race.
LEMMA FrameCounted ==
    ASSUME NEW t \in Talkers, Counted(t),
           copies'[t] = copies[t], raced'[t] = raced[t],
           Again(t)' => Again(t),
           Stays(t)' => Stays(t),
           Overtaken(t)' => Overtaken(t)
    PROVE  Counted(t)'
  BY DEF Counted

\* A step that leaves alone what talk() holds and where the front of the queue
\* is.
LEMMA FrameTold ==
    ASSUME NEW t \in Talkers,
           UNCHANGED <<talk_at, talk_msg>>,
           talk_at # "idle" => TalkTo' = TalkTo,
           lastSent'[t] = lastSent[t],
           Removed(t)' = Removed(t),
           tq'[t].head_popped = tq[t].head_popped
    PROVE  /\ Again(t)' = Again(t)
           /\ Stays(t)' = Stays(t)
           /\ Overtaken(t)' = Overtaken(t)
  <1>1. Holding(t)' = Holding(t)
    BY DEF Holding
  <1>. HIDE DEF Removed, Holding
  <1>. QED  BY <1>1 DEF Again, Stays, Overtaken

\* A step that does not race.
LEMMA FrameRaced ==
    ASSUME NEW t \in Talkers, RacedTwice(t),
           raced'[t] = raced[t],
           owner'[t] = "none" => owner[t] = "none",
           Due(t)' => Due(t)
    PROVE  RacedTwice(t)'
  BY DEF RacedTwice

\* The counters are natural numbers, the front of a queue is known.
LEMMA CounterTypes ==
    ASSUME IInv, NEW t \in Talkers
    PROVE  /\ copies[t] \in Nat /\ raced[t] \in Nat /\ lastSent[t] \in Nat
           /\ pushed[t] \in Nat /\ Len(tq[t].q) \in Nat
           /\ Removed(t) \in Int
           /\ lastSent[t] <= Removed(t) + 1
  <1>1. /\ copies[t] \in Nat /\ raced[t] \in Nat /\ lastSent[t] \in Nat
        /\ pushed[t] \in Nat /\ tq[t] \in TalkerQueueType(Nat)
    BY DEF IInv, TypeOK
  <1>2. Len(tq[t].q) \in Nat
    BY <1>1 DEF TalkerQueueType
  <1>3. lastSent[t] <= Removed(t) + 1
    BY DEF IInv, Unsent, Removed
  <1>. QED  BY <1>1, <1>2, <1>3 DEF Removed

\* A new owner is not in the vector yet, and has seen no reset.
LEMMA AttachCInv ==
    ASSUME IInv, HInv, CInv, NEW u \in Talkers, Attach(u)
    PROVE  CInv'
  <1>1. /\ talkers' = Append(talkers, u) /\ talkers \in Seq(Talkers)
        /\ owner[u] = "none"
        /\ \A t \in Talkers : owner'[t] = "none" => owner[t] = "none"
        /\ UNCHANGED <<connVars, tq, pushed, talkVars, resetVars, lastSent, copies, raced>>
    BY DEF Attach, IInv, TypeOK, serverVars
  <1>2. /\ Len(talkers') = Len(talkers) + 1 /\ Len(talkers) \in Nat
        /\ \A i \in 1 .. Len(talkers) : talkers'[i] = talkers[i]
        /\ talkers'[Len(talkers) + 1] = u
    BY <1>1
  <1>3. \A i \in 1 .. Len(talkers) : talkers[i] # u
    BY <1>1 DEF HInv, Attached
  <1>4. Once'
    BY <1>2, <1>3 DEF CInv, Once
  <1>5. talk_at # "idle" => TalkTo' = TalkTo
    <2>1. talk_at # "idle" => talk_i \in 1 .. Len(talkers)
      BY <1>2 DEF IInv, TypeOK, Loops
    <2>. QED  BY <1>1, <1>2, <2>1 DEF TalkTo, talkVars
  <1>6. ASSUME NEW t \in Talkers PROVE RacedTwice(t)' /\ Counted(t)'
    <2>1. RacedTwice(t) /\ Counted(t)
      BY DEF CInv
    <2>2. Removed(t)' = Removed(t)
      BY <1>1 DEF Removed
    <2>3. Counted(t)'
      BY <1>1, <1>5, <2>1, <2>2, FrameTold, FrameCounted DEF talkVars
    <2>4. CASE t = u
      <3>1. raced[t] = 0
        BY <1>1, <2>1, <2>4 DEF RacedTwice
      <3>2. raced'[t] = 0
        BY <1>1, <3>1
      <3>. QED  BY <2>3, <3>2 DEF RacedTwice
    <2>5. CASE t # u
      <3>1. Opening' = Opening /\ runner' = runner /\ reset_at' = reset_at /\ reset_i' = reset_i
        BY <1>1 DEF Opening, connVars, resetVars
      <3>2. reset_i \in Nat /\ reset_i >= 1
        BY DEF IInv, TypeOK, Loops
      <3>3. ASSUME NEW i \in reset_i .. Len(talkers'), talkers'[i] = t
            PROVE  i \in reset_i .. Len(talkers) /\ talkers[i] = t
        BY <1>2, <2>5, <3>2, <3>3
      <3>4. Due(t)' => Due(t)
        BY <3>1, <3>3 DEF Due
      <3>. QED  BY <1>1, <2>1, <2>3, <3>4, FrameRaced
    <2>. QED  BY <2>4, <2>5
  <1>. QED  BY <1>4, <1>6 DEF CInv

\* A push, with the messages that it drops, moves the front of the queue away
\* from what was transmitted, or not at all.
LEMMA PushOrDestroyCInv ==
    ASSUME IInv, HInv, CInv, NEW u \in Talkers, Push(u) \/ Destroy(u)
    PROVE  CInv'
  <1>1. /\ UNCHANGED <<connVars, talkers, talkVars, resetVars, lastSent, copies, raced>>
        /\ \A t \in Talkers : owner'[t] = "none" => owner[t] = "none"
        /\ PushMessage(u) \/ UNCHANGED <<tq, pushed>>
    BY DEF Push, Destroy, IInv, TypeOK, serverVars, historyVars
  <1>2. Once'
    BY <1>1 DEF CInv, Once
  <1>3. TalkTo' = TalkTo /\ talk_at' = talk_at /\ talk_msg' = talk_msg
    BY <1>1 DEF TalkTo, talkVars
  <1>4. ASSUME NEW t \in Talkers
        PROVE  /\ Removed(t) <= Removed(t)'
               /\ Removed(t)' \in Int
               /\ tq'[t].head_popped = tq[t].head_popped
    <2>1. Removed(t) \in Int
      BY CounterTypes
    <2>2. CASE UNCHANGED <<tq, pushed>>
      <3>1. Removed(t)' = Removed(t)
        BY <2>2 DEF Removed
      <3>. QED  BY <2>1, <2>2, <3>1
    <2>3. CASE PushMessage(u) /\ t # u
      <3>1. tq'[t] = tq[t] /\ pushed'[t] = pushed[t]
        BY <2>3 DEF PushMessage, IInv, TypeOK
      <3>2. Removed(t)' = Removed(t)
        BY <3>1 DEF Removed
      <3>. QED  BY <2>1, <3>1, <3>2
    <2>4. CASE PushMessage(u) /\ t = u
      <3>. DEFINE w == TQPush(tq[u], QSize[u], pushed[u] + 1)
      <3>1. pushed'[u] = pushed[u] + 1 /\ tq'[u] = w
        BY <2>4 DEF PushMessage, IInv, TypeOK
      <3>2. /\ tq[u] \in TalkerQueueType(Nat) /\ QSize[u] \in Int /\ pushed[u] \in Nat
            /\ LastOf(tq[u].q, pushed[u]) /\ Len(tq[u].q) <= AsSizeT(QSize[u])
        BY TalkersAssumption DEF IInv, TypeOK, Contents
      <3>3. /\ w \in TalkerQueueType(Nat) /\ w.head_popped = tq[u].head_popped
            /\ Len(w.q) <= Len(tq[u].q) + 1
        BY <3>2, PushKeepsLast
      <3>. HIDE DEF w
      <3>4. Len(w.q) \in Nat /\ Len(tq[u].q) \in Nat
        BY <3>2, <3>3 DEF TalkerQueueType
      <3>5. /\ Removed(u) = pushed[u] - Len(tq[u].q)
            /\ Removed(u)' = pushed'[u] - Len(tq'[u].q)
        BY DEF Removed
      <3>6. Removed(u) <= Removed(u)' /\ Removed(u)' \in Int
        BY <3>1, <3>2, <3>3, <3>4, <3>5
      <3>. QED  BY <2>4, <3>1, <3>3, <3>6
    <2>. QED  BY <1>1, <2>2, <2>3, <2>4
  <1>5. ASSUME NEW t \in Talkers PROVE RacedTwice(t)' /\ Counted(t)'
    <2>1. RacedTwice(t) /\ Counted(t)
      BY DEF CInv
    <2>2. Due(t)' => Due(t)
      BY <1>1 DEF Due, Opening, connVars, resetVars
    <2>3. RacedTwice(t)'
      BY <1>1, <2>1, <2>2, FrameRaced
    <2>4. Holding(t)' = Holding(t)
      BY <1>3 DEF Holding
    <2>5. Stays(t)' => Stays(t)
      <3>1. /\ lastSent[t] \in Nat /\ Removed(t) \in Int /\ lastSent[t] <= Removed(t) + 1
            /\ lastSent'[t] = lastSent[t]
        BY <1>1, CounterTypes
      <3>2. /\ Removed(t) <= Removed(t)' /\ Removed(t)' \in Int
            /\ tq'[t].head_popped = tq[t].head_popped
        BY <1>4
      <3>. HIDE DEF Removed
      <3>. QED  BY <2>4, <3>1, <3>2 DEF Stays
    <2>6. (Again(t)' => Again(t)) /\ (Overtaken(t)' => Overtaken(t))
      BY <1>1, <1>3, <1>4, <2>4 DEF Again, Overtaken
    <2>7. copies'[t] = copies[t] /\ raced'[t] = raced[t]
      BY <1>1
    <2>8. Counted(t)'
      BY <2>1, <2>5, <2>6, <2>7, FrameCounted
    <2>. QED  BY <2>3, <2>8
  <1>. QED  BY <1>2, <1>5 DEF CInv

\* Steps of talk() do not concern the vector, nor the resets.
LEMMA TalkRaced ==
    ASSUME CInv, UNCHANGED <<connVars, talkers, owner, resetVars, raced>>
    PROVE  Once' /\ \A t \in Talkers : RacedTwice(t)'
  <1>1. Once'
    BY DEF CInv, Once
  <1>2. ASSUME NEW t \in Talkers PROVE RacedTwice(t)'
    <2>1. Due(t)' => Due(t)
      BY DEF Due, Opening, connVars, resetVars
    <2>. QED  BY <2>1, FrameRaced DEF CInv
  <1>. QED  BY <1>1, <1>2

\* next() returns the last message transmitted only where it has stayed at the
\* front of the queue, and only if pop() will remove it.
LEMMA TalkMoveCInv ==
    ASSUME IInv, HInv, CInv,
           TalkBegin \/ TalkActive \/ TalkEmpty \/ TalkNext \/ TalkCheck
    PROVE  CInv'
  <1>1. UNCHANGED <<connVars, clientVars, resetVars, serverVars, historyVars>>
    BY DEF TalkBegin, TalkActive, TalkEmpty, TalkNext, TalkCheck
  <1>2. UNCHANGED <<connVars, talkers, tq, pushed, owner, resetVars, lastSent, copies, raced>>
    BY <1>1 DEF clientVars, serverVars, historyVars
  <1>3. Once' /\ \A t \in Talkers : RacedTwice(t)'
    BY <1>2, TalkRaced
  <1>4. ASSUME NEW t \in Talkers PROVE Counted(t)'
    <2>1. /\ Counted(t) /\ Removed(t)' = Removed(t) /\ tq' = tq /\ lastSent' = lastSent
          /\ copies' = copies /\ raced' = raced
      BY <1>2 DEF CInv, Removed
    <2>2. CASE /\ talk_at \in {"idle", "active", "empty"}
               /\ talk_at' \in {"idle", "active", "empty", "next"}
      <3>1. ~Holding(t) /\ ~Holding(t)'
        BY <2>2 DEF Holding
      <3>2. ~Again(t)' /\ ~Overtaken(t)'
        BY <2>2, <3>1 DEF Again, Overtaken
      <3>. HIDE DEF Removed, Holding
      <3>3. Stays(t)' => Stays(t)
        BY <2>1, <3>1 DEF Stays
      <3>. QED  BY <2>1, <3>2, <3>3, FrameCounted
    <2>3. CASE TalkNext
      <3>1. /\ talk_at = "next" /\ talk_at' = "check" /\ TalkTo' = TalkTo
            /\ talk_msg' = TQNext(tq[TalkTo], HEAD_MSG)
        BY <1>2, <2>3 DEF TalkNext, TalkTo
      <3>2. ~Holding(t) /\ (Holding(t)' <=> t = TalkTo) /\ ~Again(t)
        BY <3>1 DEF Holding, Again
      <3>3. CASE t # TalkTo
        <4>1. ~Again(t)' /\ ~Overtaken(t)'
          BY <3>1, <3>2, <3>3 DEF Again, Overtaken
        <4>. HIDE DEF Removed, Holding
        <4>2. Stays(t)' => Stays(t)
          BY <2>1, <3>2, <3>3 DEF Stays
        <4>. QED  BY <2>1, <4>1, <4>2, FrameCounted
      <3>4. CASE t = TalkTo /\ ~tq[t].head_popped
        <4>1. talk_msg' = HEAD_MSG
          BY <3>1, <3>4 DEF TQNext
        <4>2. ~Again(t)' /\ ~Overtaken(t)'
          BY <4>1 DEF Again, Overtaken
        <4>. HIDE DEF Removed, Holding
        <4>3. Stays(t)' => Stays(t)
          BY <2>1, <3>2 DEF Stays
        <4>. QED  BY <2>1, <4>2, <4>3, FrameCounted
      <3>5. CASE t = TalkTo /\ tq[t].head_popped
        <4>1. /\ tq[t] \in TalkerQueueType(Nat) /\ pushed[t] \in Nat
              /\ LastOf(tq[t].q, pushed[t]) /\ ~TQEmpty(tq[t])
          BY <3>1, <3>5, TalkToType DEF IInv, Contents, NoUnderflow
        <4>2. talk_msg' # HEAD_MSG => talk_msg' = Removed(t) + 1
          BY <3>1, <3>5, <4>1, NextIsFront DEF Removed
        <4>3. ~Overtaken(t)' /\ ~Stays(t)'
          BY <2>1, <3>2, <3>5 DEF Overtaken, Stays
        <4>. HIDE DEF Removed, Holding
        <4>4. Again(t)' => Stays(t)
          BY <2>1, <3>2, <4>2 DEF Again, Stays
        <4>. QED  BY <2>1, <4>3, <4>4 DEF Counted
      <3>. QED  BY <3>3, <3>4, <3>5
    <2>4. CASE TalkCheck
      <3>1. /\ talk_at = "check" /\ TalkTo' = TalkTo /\ talk_msg' = talk_msg
            /\ talk_at' \in {"send", "pop"}
        BY <1>2, <2>4 DEF TalkCheck, TalkTo
      <3>2. Holding(t)' = Holding(t)
        BY <3>1 DEF Holding
      <3>3. Again(t)' => Again(t)
        BY <2>1, <3>1 DEF Again
      <3>. HIDE DEF Removed, Holding
      <3>4. (Stays(t)' => Stays(t)) /\ (Overtaken(t)' => Overtaken(t))
        BY <2>1, <3>1, <3>2 DEF Stays, Overtaken
      <3>. QED  BY <2>1, <3>3, <3>4, FrameCounted
    <2>. QED
      BY <2>2, <2>3, <2>4 DEF TalkBegin, TalkActive, TalkEmpty, TalkAdvance
  <1>. QED  BY <1>3, <1>4 DEF CInv

\* A transmission that was to come has come.
LEMMA TalkSendCInv ==
    ASSUME IInv, HInv, CInv, TalkSend
    PROVE  CInv'
  <1>. DEFINE u == TalkTo
  <1>1. /\ UNCHANGED <<connVars, clientVars, talk_i, talk_end, talk_msg, resetVars,
                       historyVars>>
        /\ talk_at = "send" /\ talk_at' = "pop"
        /\ Receive(u, talk_msg) \/ UNCHANGED serverVars
    BY DEF TalkSend
  <1>2. UNCHANGED <<connVars, talkers, tq, pushed, owner, resetVars, raced, TalkTo>>
    BY <1>1 DEF clientVars, historyVars, TalkTo
  <1>3. Once' /\ \A t \in Talkers : RacedTwice(t)'
    BY <1>2, TalkRaced
  <1>4. u \in Talkers
    BY <1>1, TalkToType
  <1>5. \/ copies' = copies /\ lastSent' = lastSent
        \/ /\ talk_msg # HEAD_MSG
           /\ lastSent' = [lastSent EXCEPT ![u] = talk_msg]
           /\ copies' = [copies EXCEPT ![u] =
                             IF talk_msg = lastSent[u] THEN copies[u] + 1 ELSE 1]
    BY <1>1 DEF Receive, serverVars
  <1>6. ASSUME NEW t \in Talkers PROVE Counted(t)'
    <2>1. /\ Counted(t) /\ Removed(t)' = Removed(t) /\ tq' = tq /\ raced' = raced
          /\ talk_msg' = talk_msg
      BY <1>1, <1>2 DEF CInv, Removed
    <2>2. /\ Holding(t)' = Holding(t) /\ (Holding(t) <=> t = u) /\ ~Again(t)'
      BY <1>1, <1>2 DEF Holding, Again
    <2>3. Overtaken(t)' = Overtaken(t)
      BY <2>1, <2>2 DEF Overtaken
    <2>4. CASE copies'[t] = copies[t] /\ lastSent'[t] = lastSent[t]
      <3>. HIDE DEF Removed, Holding
      <3>1. Stays(t)' => Stays(t)
        BY <2>1, <2>2, <2>4 DEF Stays
      <3>. QED  BY <2>1, <2>2, <2>3, <2>4, <3>1, FrameCounted
    <2>5. CASE /\ t = u /\ talk_msg # HEAD_MSG /\ talk_msg = lastSent[t]
               /\ copies'[t] = copies[t] + 1 /\ lastSent'[t] = lastSent[t]
      <3>1. Again(t)
        BY <1>1, <2>5 DEF Again
      <3>2. copies[t] \in Nat /\ raced[t] \in Nat /\ raced'[t] = raced[t]
        BY <2>1, CounterTypes
      <3>. HIDE DEF Removed, Holding
      <3>3. Stays(t)' => Stays(t)
        BY <2>1, <2>2, <2>5 DEF Stays
      <3>. QED  BY <2>1, <2>2, <2>3, <2>5, <3>1, <3>2, <3>3 DEF Counted
    <2>6. CASE t = u /\ talk_msg # HEAD_MSG /\ copies'[t] = 1
      <3>1. raced[t] \in Nat /\ raced'[t] = raced[t]
        BY <2>1, CounterTypes
      <3>. HIDE DEF Removed, Holding
      <3>2. Stays(t)' => Overtaken(t)
        BY <2>1, <2>2, <2>6 DEF Stays, Overtaken
      <3>. QED  BY <2>1, <2>2, <2>3, <2>6, <3>1, <3>2 DEF Counted
    <2>7. copies \in [Talkers -> Nat] /\ lastSent \in [Talkers -> Nat]
      BY DEF IInv, TypeOK
    <2>. HIDE DEF u
    <2>. QED  BY <1>4, <1>5, <2>4, <2>5, <2>6, <2>7
  <1>. QED  BY <1>3, <1>6 DEF CInv

\* What pop() leaves at the front of the queue was going to stay there.
LEMMA TalkPopCInv ==
    ASSUME IInv, HInv, CInv, TalkPop
    PROVE  CInv'
  <1>. DEFINE u == TalkTo
  <1>1. /\ UNCHANGED <<connVars, talkers, owner, pushed, resetVars, serverVars, historyVars>>
        /\ talk_at = "pop" /\ talk_at' \in {"active", "idle"}
        /\ tq' = [tq EXCEPT ![u] = TQPop(tq[u])]
    BY DEF TalkPop, TalkAdvance
  <1>2. UNCHANGED <<raced, copies, lastSent>>
    BY <1>1 DEF serverVars, historyVars
  <1>3. Once' /\ \A t \in Talkers : RacedTwice(t)'
    BY <1>1, <1>2, TalkRaced
  <1>4. /\ u \in Talkers /\ tq[u] \in TalkerQueueType(Nat) /\ pushed[u] \in Nat
        /\ Len(tq[u].q) \in Nat /\ LastOf(tq[u].q, pushed[u]) /\ ~TQEmpty(tq[u])
    BY <1>1, TalkToType DEF IInv, Contents, NoUnderflow
  <1>5. /\ tq'[u] = TQPop(tq[u])
        /\ \A t \in Talkers : t # u => tq'[t] = tq[t]
    BY <1>1, <1>4 DEF IInv, TypeOK
  <1>6. ASSUME NEW t \in Talkers, t = u
        PROVE  Removed(t)' = IF tq[t].head_popped THEN Removed(t) + 1 ELSE Removed(t)
    <2>1. Len(TQPop(tq[t]).q) = IF tq[t].head_popped THEN Len(tq[t].q) - 1 ELSE Len(tq[t].q)
      BY <1>4, <1>6, PopKeepsLast
    <2>2. tq'[t] = TQPop(tq[t]) /\ pushed'[t] = pushed[t]
      BY <1>1, <1>5, <1>6
    <2>. QED  BY <1>4, <1>6, <2>1, <2>2 DEF Removed
  <1>7. ASSUME NEW t \in Talkers PROVE Counted(t)'
    <2>1. Counted(t) /\ copies'[t] = copies[t] /\ raced'[t] = raced[t] /\ lastSent'[t] = lastSent[t]
      BY <1>2 DEF CInv
    <2>2. ~Holding(t)' /\ ~Again(t)' /\ ~Overtaken(t)'
      BY <1>1 DEF Holding, Again, Overtaken
    <2>3. (Holding(t) <=> t = u)
      BY <1>1 DEF Holding
    <2>4. lastSent[t] \in Nat /\ Removed(t) \in Int /\ lastSent[t] <= Removed(t) + 1
      BY CounterTypes
    <2>5. Stays(t)' => Stays(t)
      <3>1. CASE t = u
        <4>1. Removed(t)' = IF tq[t].head_popped THEN Removed(t) + 1 ELSE Removed(t)
          BY <1>6, <3>1
        <4>. HIDE DEF Removed, Holding
        <4>. QED  BY <2>1, <2>4, <4>1 DEF Stays
      <3>2. CASE t # u
        <4>1. Removed(t)' = Removed(t)
          BY <1>1, <1>5, <3>2 DEF Removed
        <4>. HIDE DEF Removed, Holding
        <4>. QED  BY <2>1, <2>3, <3>2, <4>1 DEF Stays
      <3>. QED  BY <3>1, <3>2
    <2>. QED  BY <2>1, <2>2, <2>5, FrameCounted
  <1>. QED  BY <1>3, <1>7 DEF CInv

\* A reset that meets talk() makes room for one more copy, and there is one
\* reset of a queue on a connection (rosbridgeclient.cpp:83-87).
LEMMA ResetTalkerCInv ==
    ASSUME IInv, HInv, CInv, ResetTalker
    PROVE  CInv'
  <1>. DEFINE r == talkers[reset_i]
  <1>1. /\ UNCHANGED <<connVars, talkers, owner, pushed, talkVars, reset_at, lastSent, copies>>
        /\ reset_at = "loop" /\ reset_i' = reset_i + 1
        /\ tq' = [tq EXCEPT ![r] = TQReset(tq[r])]
        /\ raced' = [raced EXCEPT ![r] = IF Holding(r) THEN raced[r] + 1 ELSE raced[r]]
    BY DEF ResetTalker, serverVars
  <1>2. reset_i \in 1 .. Len(talkers) /\ reset_i \in Nat /\ Len(talkers) \in Nat /\ r \in Talkers
    <2>1. /\ talkers \in Seq(Talkers) /\ reset_i \in Nat /\ reset_i >= 1 /\ reset_end \in Nat
          /\ reset_end <= Len(talkers) /\ reset_i <= reset_end
      BY DEF IInv, TypeOK, Loops, ResetTalker
    <2>2. Len(talkers) \in Nat /\ reset_i \in 1 .. Len(talkers)
      BY <2>1
    <2>. QED  BY <2>1, <2>2
  <1>3. Once'
    BY <1>1 DEF CInv, Once
  <1>4. TalkTo' = TalkTo /\ talk_at' = talk_at /\ talk_msg' = talk_msg
    BY <1>1 DEF TalkTo, talkVars
  <1>5. /\ TQReset(tq[r]).q = tq[r].q /\ ~TQReset(tq[r]).head_popped
        /\ tq'[r] = TQReset(tq[r])
        /\ raced'[r] = IF Holding(r) THEN raced[r] + 1 ELSE raced[r]
        /\ \A t \in Talkers : t # r => tq'[t] = tq[t] /\ raced'[t] = raced[t]
    BY <1>1, <1>2 DEF TQReset, TalkerQueue, IInv, TypeOK
  <1>6. runner = "on_open" /\ ~Opening /\ ~Opening'
    BY <1>1 DEF HInv, ResetShape, ConnShape, Opening, connVars
  <1>7. ASSUME NEW t \in Talkers PROVE RacedTwice(t)' /\ Counted(t)'
    <2>1. RacedTwice(t) /\ Counted(t) /\ raced[t] \in Nat /\ copies[t] \in Nat
      BY CounterTypes DEF CInv
    <2>2. CASE t # r
      <3>1. Due(t)' => Due(t)
        BY <1>1, <1>2, <1>6 DEF Due, connVars
      <3>2. RacedTwice(t)'
        BY <1>1, <1>5, <2>1, <2>2, <3>1, FrameRaced
      <3>3. Removed(t)' = Removed(t)
        BY <1>1, <1>5, <2>2 DEF Removed
      <3>4. Counted(t)'
        BY <1>1, <1>4, <1>5, <2>1, <2>2, <3>3, FrameTold, FrameCounted
      <3>. QED  BY <3>2, <3>4
    <2>3. CASE t = r
      <3>1. Due(t) /\ ~Due(t)'
        <4>1. Due(t)
          BY <1>2, <1>6, <2>3 DEF Due
        <4>2. ASSUME NEW i \in reset_i' .. Len(talkers), talkers[i] = t PROVE FALSE
          <5>1. i \in 1 .. Len(talkers) /\ i # reset_i
            BY <1>1, <1>2
          <5>. QED  BY <1>2, <2>3, <4>2, <5>1 DEF CInv, Once
        <4>3. ~Due(t)'
          BY <1>1, <1>6, <4>2 DEF Due, connVars
        <4>. QED  BY <4>1, <4>3
      <3>2. owner'[t] # "none"
        BY <1>1, <1>2, <2>3 DEF HInv, Attached
      <3>3. raced'[t] = IF Holding(t) THEN raced[t] + 1 ELSE raced[t]
        BY <1>5, <2>3
      <3>4. RacedTwice(t)'
        BY <2>1, <3>1, <3>2, <3>3 DEF RacedTwice
      <3>5. Removed(t)' = Removed(t) /\ Holding(t)' = Holding(t) /\ copies'[t] = copies[t]
        BY <1>1, <1>4, <1>5, <2>3 DEF Removed, Holding
      <3>6. Again(t)' = Again(t) /\ (Again(t) => Holding(t))
        BY <1>1, <1>4 DEF Again, Holding
      <3>7. ASSUME Holding(t) PROVE Counted(t)'
        BY <2>1, <3>3, <3>5, <3>6, <3>7 DEF Counted
      <3>8. ASSUME ~Holding(t) PROVE Counted(t)'
        <4>1. ~Overtaken(t)'
          BY <3>5, <3>8 DEF Overtaken
        <4>. HIDE DEF Removed, Holding
        <4>2. Stays(t)' => Stays(t)
          BY <1>1, <3>5, <3>8 DEF Stays
        <4>. QED  BY <2>1, <3>3, <3>5, <3>6, <3>8, <4>1, <4>2, FrameCounted
      <3>. QED  BY <3>4, <3>7, <3>8
    <2>. QED  BY <2>2, <2>3
  <1>. QED  BY <1>3, <1>7 DEF CInv

\* The other steps of the runner thread begin no second round of resets.
LEMMA RunnerCInv ==
    ASSUME IInv, HInv, CInv,
           ResetBegin \/ ResetDone \/ RunnerOther \/ ConnectionEvent \/ UserThrows
    PROVE  CInv'
  <1>1. UNCHANGED <<clientVars, talkVars, serverVars, raced>>
    BY DEF ResetBegin, ResetDone, RunnerOther, ConnectionEvent, UserThrows, historyVars
  <1>2. UNCHANGED <<talkers, tq, owner, pushed, talk_at, talk_msg, TalkTo, lastSent, copies>>
    BY <1>1 DEF clientVars, talkVars, serverVars, TalkTo
  <1>3. Once'
    BY <1>2 DEF CInv, Once
  <1>4. ASSUME NEW t \in Talkers PROVE Due(t)' => Due(t)
    <2>1. CASE ResetBegin
      BY <2>1 DEF ResetBegin, Due, Opening, connVars
    <2>2. CASE ResetDone
      <3>1. Opening' = Opening /\ runner' = "run"
        BY <2>2 DEF ResetDone, OnConnection, Opening
      <3>. QED  BY <3>1 DEF Due
    <2>3. CASE RunnerOther \/ ConnectionEvent
      <3>1. /\ \/ Dial \/ RunReturns \/ ClearSender \/ ClearActive \/ ConnectReturns
               \/ OnClose \/ NetworkEvents \/ PongMissed \/ ConnectThrows
            /\ UNCHANGED <<reset_at, reset_i, talkers>>
        BY <2>3 DEF RunnerOther, ConnectionEvent, resetVars, clientVars
      <3>2. Opening' => Opening
        BY <3>1, ServingFrom DEF HInv, IInv, TypeOK
      <3>3. runner' = "on_open" => runner = "on_open" \/ Opening
        BY <3>1 DEF Dial, RunReturns, ClearSender, ClearActive, ConnectReturns, OnClose,
                    NetworkEvents, OpenHandshake, OpenFails, RemoteClose, Terminate,
                    MessageThrows, ConnectThrows, PongMissed, Opening, HInv, ConnShape
      <3>. QED  BY <3>1, <3>2, <3>3 DEF Due
    <2>4. CASE UserThrows
      <3>1. runner' = "unwind" /\ ~Opening
        BY <2>4 DEF UserThrows, CallbackThrows, Opening, HInv, ConnShape
      <3>2. Opening' => Opening
        BY <2>4 DEF UserThrows, CallbackThrows, Opening
      <3>. QED  BY <3>1, <3>2 DEF Due
    <2>. QED  BY <2>1, <2>2, <2>3, <2>4
  <1>5. ASSUME NEW t \in Talkers PROVE RacedTwice(t)' /\ Counted(t)'
    <2>1. RacedTwice(t)'
      BY <1>1, <1>2, <1>4, FrameRaced DEF CInv
    <2>2. Removed(t)' = Removed(t)
      BY <1>2 DEF Removed
    <2>. QED  BY <1>1, <1>2, <2>1, <2>2, FrameTold, FrameCounted DEF CInv
  <1>. QED  BY <1>3, <1>5 DEF CInv

\* A new connection has seen no copy; what talk() has held since a reset can
\* become one.
LEMMA ReconnectCInv ==
    ASSUME IInv, HInv, CInv, Reconnect
    PROVE  CInv'
  <1>1. /\ UNCHANGED <<clientVars, talkVars, lastSent>>
        /\ copies' = [t \in Talkers |-> 0]
        /\ raced' = [t \in Talkers |-> IF Holding(t) /\ raced[t] > 0 THEN 1 ELSE 0]
    BY DEF Reconnect
  <1>2. UNCHANGED <<talkers, tq, owner, pushed, talk_at, talk_msg, TalkTo>>
    BY <1>1 DEF clientVars, talkVars, TalkTo
  <1>3. Once'
    BY <1>2 DEF CInv, Once
  <1>4. ASSUME NEW t \in Talkers PROVE RacedTwice(t)' /\ Counted(t)'
    <2>1. RacedTwice(t) /\ Counted(t) /\ raced[t] \in Nat /\ copies[t] \in Nat
      BY CounterTypes DEF CInv
    <2>2. copies'[t] = 0 /\ raced'[t] = IF Holding(t) /\ raced[t] > 0 THEN 1 ELSE 0
      BY <1>1
    <2>3. RacedTwice(t)'
      BY <1>2, <2>1, <2>2 DEF RacedTwice
    <2>4. Removed(t)' = Removed(t)
      BY <1>2 DEF Removed
    <2>5. /\ Again(t)' = Again(t) /\ Stays(t)' = Stays(t) /\ Overtaken(t)' = Overtaken(t)
      BY <1>1, <1>2, <2>4, FrameTold
    <2>6. (Again(t) => Holding(t)) /\ (Overtaken(t) => Holding(t))
      BY DEF Again, Overtaken, Holding
    <2>7. Counted(t)'
      BY <2>1, <2>2, <2>5, <2>6 DEF Counted
    <2>. QED  BY <2>3, <2>7
  <1>. QED  BY <1>3, <1>4 DEF CInv

\* Every step of every thread preserves the invariant.
LEMMA NextCInv == IInv /\ HInv /\ CInv /\ [Next]_vars => CInv'
  <1>. SUFFICES ASSUME IInv, HInv, CInv, [Next]_vars PROVE CInv'
    OBVIOUS
  <1>1. ASSUME NEW t \in Talkers, Attach(t) \/ Push(t) \/ Destroy(t) PROVE CInv'
    BY <1>1, AttachCInv, PushOrDestroyCInv
  <1>2. CASE TalkSteps
    BY <1>2, TalkMoveCInv, TalkSendCInv, TalkPopCInv DEF TalkSteps
  <1>3. CASE ResetTalker
    BY <1>3, ResetTalkerCInv
  <1>4. CASE ResetBegin \/ ResetDone \/ RunnerOther \/ ConnectionEvent \/ UserThrows
    BY <1>4, RunnerCInv
  <1>5. CASE Reconnect
    BY <1>5, ReconnectCInv
  <1>6. CASE UNCHANGED vars
    <2>1. UNCHANGED <<connVars, clientVars, talkVars, resetVars, lastSent, copies, raced>>
      BY <1>6 DEF vars, serverVars, historyVars
    <2>2. UNCHANGED <<talkers, tq, owner, pushed, talk_at, talk_msg, TalkTo>>
      BY <2>1 DEF clientVars, talkVars, TalkTo
    <2>3. Once' /\ \A t \in Talkers : RacedTwice(t)'
      BY <2>1, <2>2, TalkRaced
    <2>4. ASSUME NEW t \in Talkers PROVE Counted(t)'
      <3>1. Removed(t)' = Removed(t)
        BY <2>2 DEF Removed
      <3>. QED  BY <2>1, <2>2, <3>1, FrameTold, FrameCounted DEF CInv
    <2>. QED  BY <2>3, <2>4 DEF CInv
  <1>. QED  BY <1>1, <1>2, <1>3, <1>4, <1>5, <1>6 DEF Next

\* On one connection a message is transmitted more than once only if
\* resetTalkers() fell between a next() and its pop() on that queue, once for
\* every such race, and never more than three times; whatever the number of
\* owners, the queue sizes and the reconnections (rosbridgeclient.cpp:72-87).
THEOREM RepeatedOnlyByResetHolds == Spec => []RepeatedOnlyByReset
  <1>1. IInv /\ CInv => RepeatedOnlyByReset
    <2>. SUFFICES ASSUME IInv, CInv, NEW t \in Talkers
                  PROVE  copies[t] <= 1 + raced[t] /\ copies[t] <= 3
      BY DEF RepeatedOnlyByReset
    <2>. QED  BY CounterTypes DEF CInv, RacedTwice, Counted
  <1>2. Spec => []HInv
    BY InitHInv, NextHInv, Invariance, PTL DEF Spec
  <1>. QED  BY <1>1, <1>2, InitCInv, NextCInv, Invariance, PTL DEF Spec

-----------------------------------------------------------------------------
(***************************************************************************)
(* PopTakesAnotherOnlyByOverflow: a fifth invariant, on top of IInv.       *)
(***************************************************************************)

\* What talk() holds is the front of the queue, or as many messages have been
\* pushed since as the queue holds.
Shifted(t) ==
    (Holding(t) /\ talk_msg # HEAD_MSG /\ tq[t].head_popped) =>
        \/ talk_msg = Removed(t) + 1
        \/ pushed[t] - talk_msg >= AsSizeT(QSize[t])

SInv == \A t \in Talkers : Shifted(t)

\* A step that neither moves talk() nor the front of the queue.
LEMMA FrameShifted ==
    ASSUME NEW t \in Talkers, Shifted(t),
           Holding(t)' => Holding(t) /\ talk_msg' = talk_msg,
           pushed'[t] = pushed[t],
           tq'[t].q = tq[t].q,
           tq'[t].head_popped => tq[t].head_popped
    PROVE  Shifted(t)'
  <1>1. Removed(t)' = Removed(t)
    BY DEF Removed
  <1>. HIDE DEF Removed, Holding
  <1>. QED  BY <1>1 DEF Shifted

\* A push leaves the front where it is unless the queue is full, and then what
\* talk() holds is as many messages behind as the queue holds.
LEMMA PushShifted ==
    ASSUME IInv, SInv, NEW u \in Talkers, PushMessage(u), UNCHANGED <<talkers, talkVars>>
    PROVE  SInv'
  <1>. DEFINE w == TQPush(tq[u], QSize[u], pushed[u] + 1)
              n == AsSizeT(QSize[u])
  <1>1. /\ pushed'[u] = pushed[u] + 1 /\ tq'[u] = w
        /\ \A t \in Talkers : t # u => tq'[t] = tq[t] /\ pushed'[t] = pushed[t]
    BY DEF PushMessage, IInv, TypeOK
  <1>2. /\ tq[u] \in TalkerQueueType(Nat) /\ QSize[u] \in Int /\ pushed[u] \in Nat
        /\ LastOf(tq[u].q, pushed[u]) /\ Len(tq[u].q) <= n /\ Len(tq[u].q) \in Nat
    BY TalkersAssumption DEF IInv, TypeOK, Contents, TalkerQueueType
  <1>3. n \in Nat
    BY <1>2, AsSizeTNat
  <1>4. /\ Len(w.q) = IF Len(tq[u].q) < n THEN Len(tq[u].q) + 1 ELSE n
        /\ w.head_popped = tq[u].head_popped
    BY <1>2, PushKeepsLast
  <1>5. talk_at' = talk_at /\ talk_msg' = talk_msg /\ TalkTo' = TalkTo /\ talk_msg \in Nat
    BY DEF TalkTo, talkVars, IInv, TypeOK
  <1>6. \A t \in Talkers : Holding(t)' = Holding(t)
    BY <1>5 DEF Holding
  <1>. HIDE DEF w, n, Holding
  <1>7. ASSUME NEW t \in Talkers, t = u PROVE Shifted(t)'
    <2>. SUFFICES ASSUME Holding(u), talk_msg # HEAD_MSG, tq[u].head_popped
                  PROVE  \/ talk_msg = pushed'[u] - Len(tq'[u].q) + 1
                         \/ pushed'[u] - talk_msg >= n
      BY <1>1, <1>4, <1>5, <1>6, <1>7 DEF Shifted, Removed, n
    <2>1. \/ talk_msg = pushed[u] - Len(tq[u].q) + 1
          \/ pushed[u] - talk_msg >= n
      BY DEF SInv, Shifted, Removed, n
    <2>. QED  BY <1>1, <1>2, <1>3, <1>4, <1>5, <2>1
  <1>8. ASSUME NEW t \in Talkers, t # u PROVE Shifted(t)'
    BY <1>1, <1>5, <1>6, <1>8, FrameShifted DEF SInv
  <1>. QED  BY <1>7, <1>8 DEF SInv

\* talk() takes the front of the queue, and holds nothing after its pop().
LEMMA TalkShifted ==
    ASSUME IInv, SInv, TalkSteps
    PROVE  SInv'
  <1>. SUFFICES ASSUME NEW t \in Talkers PROVE Shifted(t)'
    BY DEF SInv
  <1>1. CASE talk_at' \notin {"check", "send", "pop"}
    BY <1>1 DEF Shifted, Holding
  <1>2. CASE TalkNext
    <2>1. /\ talk_at = "next" /\ TalkTo' = TalkTo /\ tq' = tq /\ pushed' = pushed
          /\ talk_msg' = TQNext(tq[TalkTo], HEAD_MSG)
      BY <1>2 DEF TalkNext, TalkTo, clientVars
    <2>2. /\ TalkTo \in Talkers /\ tq[TalkTo] \in TalkerQueueType(Nat)
          /\ pushed[TalkTo] \in Nat
          /\ LastOf(tq[TalkTo].q, pushed[TalkTo]) /\ ~TQEmpty(tq[TalkTo])
      BY <2>1, TalkToType DEF IInv, Contents, NoUnderflow
    <2>3. talk_msg' # HEAD_MSG => talk_msg' = Removed(TalkTo) + 1
      BY <2>1, <2>2, NextIsFront DEF Removed
    <2>4. /\ Holding(t)' => t = TalkTo
          /\ Removed(t)' = Removed(t)
      BY <2>1 DEF Holding, Removed
    <2>. HIDE DEF Removed, Holding
    <2>5. Holding(t)' /\ talk_msg' # HEAD_MSG => talk_msg' = Removed(t)' + 1
      BY <2>3, <2>4
    <2>. QED  BY <2>5 DEF Shifted
  <1>3. CASE TalkCheck \/ TalkSend
    <2>1. /\ talk_at \in {"check", "send"} /\ TalkTo' = TalkTo /\ talk_msg' = talk_msg
          /\ tq' = tq /\ pushed' = pushed
      BY <1>3 DEF TalkCheck, TalkSend, TalkTo, clientVars
    <2>2. Holding(t)' => Holding(t)
      BY <2>1 DEF Holding
    <2>. QED  BY <2>1, <2>2, FrameShifted DEF SInv
  <1>. QED
    BY <1>1, <1>2, <1>3
    DEF TalkSteps, TalkBegin, TalkActive, TalkEmpty, TalkPop, TalkAdvance

\* Every step of every thread preserves the invariant: the runner thread only
\* makes head messages due again.
LEMMA NextSInv == IInv /\ SInv /\ [Next]_vars => SInv'
  <1>. SUFFICES ASSUME IInv, SInv, [Next]_vars PROVE SInv'
    OBVIOUS
  <1>1. ASSUME NEW u \in Talkers, Attach(u) PROVE SInv'
    <2>1. /\ talkers' = Append(talkers, u) /\ talkers \in Seq(Talkers)
          /\ UNCHANGED <<tq, pushed, talkVars>>
      BY <1>1 DEF Attach, IInv, TypeOK
    <2>2. talk_at # "idle" => talk_i \in 1 .. Len(talkers)
      BY <2>1 DEF IInv, TypeOK, Loops
    <2>3. talk_at # "idle" => TalkTo' = TalkTo
      BY <2>1, <2>2 DEF TalkTo, talkVars
    <2>4. ASSUME NEW t \in Talkers PROVE Holding(t)' => Holding(t) /\ talk_msg' = talk_msg
      BY <2>1, <2>3 DEF Holding, talkVars
    <2>. QED  BY <2>1, <2>4, FrameShifted DEF SInv
  <1>2. ASSUME NEW u \in Talkers, Push(u) \/ Destroy(u) PROVE SInv'
    <2>1. UNCHANGED <<talkers, talkVars>> /\ (PushMessage(u) \/ UNCHANGED <<tq, pushed>>)
      BY <1>2 DEF Push, Destroy
    <2>2. CASE PushMessage(u)
      BY <2>1, <2>2, PushShifted
    <2>3. CASE UNCHANGED <<tq, pushed>>
      <3>1. ASSUME NEW t \in Talkers PROVE Holding(t)' => Holding(t) /\ talk_msg' = talk_msg
        BY <2>1 DEF Holding, TalkTo, talkVars
      <3>. QED  BY <2>3, <3>1, FrameShifted DEF SInv
    <2>. QED  BY <2>1, <2>2, <2>3
  <1>3. CASE TalkSteps
    BY <1>3, TalkShifted
  <1>4. CASE \/ ResetBegin \/ ResetTalker \/ ResetDone
             \/ Reconnect \/ RunnerOther \/ ConnectionEvent \/ UserThrows
             \/ UNCHANGED vars
    <2>1. UNCHANGED <<talkers, pushed, talkVars>>
      BY <1>4 DEF ResetBegin, ResetTalker, ResetDone, Reconnect, RunnerOther, ConnectionEvent,
                  UserThrows, vars, clientVars
    <2>2. \A t \in Talkers : /\ tq'[t].q = tq[t].q
                             /\ tq'[t].head_popped => tq[t].head_popped
      <3>1. CASE ResetTalker
        <4>. DEFINE r == talkers[reset_i]
        <4>1. tq' = [tq EXCEPT ![r] = TQReset(tq[r])]
          BY <3>1 DEF ResetTalker
        <4>2. TQReset(tq[r]).q = tq[r].q /\ ~TQReset(tq[r]).head_popped
          BY DEF TQReset, TalkerQueue
        <4>. HIDE DEF r
        <4>. QED  BY <4>1, <4>2 DEF IInv, TypeOK
      <3>2. CASE UNCHANGED tq
        BY <3>2
      <3>. QED
        BY <1>4, <3>1, <3>2 DEF ResetBegin, ResetDone, Reconnect, RunnerOther, ConnectionEvent,
                                UserThrows, vars, clientVars
    <2>3. ASSUME NEW t \in Talkers PROVE Holding(t)' => Holding(t) /\ talk_msg' = talk_msg
      BY <2>1 DEF Holding, TalkTo, talkVars
    <2>. QED  BY <2>1, <2>2, <2>3, FrameShifted DEF SInv
  <1>. QED  BY <1>1, <1>2, <1>3, <1>4 DEF Next

\* The message that pop() takes away is the one next() returned, unless as many
\* have been pushed in between as the queue holds; whatever the number of owners
\* and the sizes, negative ones included (rosbridgeclient.cpp:78-79,
\* queues.cpp:33-50).
THEOREM PopTakesAnotherOnlyByOverflowHolds == Spec => []PopTakesAnotherOnlyByOverflow
  <1>1. Init => SInv
    BY DEF Init, SInv, Shifted, Holding
  <1>2. IInv /\ SInv => PopTakesAnotherOnlyByOverflow
    <2>. SUFFICES ASSUME IInv, SInv, talk_at = "pop", talk_msg # HEAD_MSG,
                         tq[TalkTo].head_popped
                  PROVE  \/ Head(tq[TalkTo].q) = talk_msg
                         \/ pushed[TalkTo] - talk_msg >= AsSizeT(QSize[TalkTo])
      BY DEF PopTakesAnotherOnlyByOverflow
    <2>. DEFINE u == TalkTo
    <2>1. /\ u \in Talkers /\ tq[u] \in TalkerQueueType(Nat) /\ pushed[u] \in Nat
          /\ LastOf(tq[u].q, pushed[u]) /\ tq[u].q # << >>
      BY TalkToType DEF IInv, Contents, NoUnderflow, TQEmpty
    <2>2. Head(tq[u].q) = Removed(u) + 1
      BY <2>1, HeadLast DEF TalkerQueueType, Removed
    <2>3. Holding(u)
      BY DEF Holding
    <2>. HIDE DEF Holding, Removed
    <2>. QED  BY <2>1, <2>2, <2>3 DEF SInv, Shifted
  <1>3. Spec => []IInv
    BY InitIInv, NextIInv, PTL DEF Spec
  <1>. QED  BY <1>1, <1>2, <1>3, NextSInv, PTL DEF Spec

=============================================================================
