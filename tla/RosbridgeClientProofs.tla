----------------------- MODULE RosbridgeClientProofs ------------------------
(***************************************************************************)
(* Proofs about RosbridgeClient, for any number of owners, any queue sizes *)
(* and any number of pushes: type correctness, that no queue underflows,   *)
(* and that the sending half implements OrderedChannel.                    *)
(***************************************************************************)
EXTENDS RosbridgeClient, ConnectionProofs

-----------------------------------------------------------------------------
(***************************************************************************)
(* The inductive invariant.                                                *)
(***************************************************************************)

\* q is the last messages of p that were pushed, in order.
LastOf(q, p) ==
    /\ Len(q) <= p
    /\ \A i \in 1 .. Len(q) : q[i] = p - Len(q) + i

\* A queue holds the last messages pushed, and is within its bound.
Contents(t) ==
    /\ LastOf(tq[t].q, pushed[t])
    /\ Len(tq[t].q) <= AsSizeT(QSize[t])

\* The two loops over talkers stay within the vector.
Loops ==
    /\ talk_at # "idle" => talk_i \in 1 .. talk_end
    /\ talk_end <= Len(talkers)
    /\ reset_i >= 1
    /\ reset_end <= Len(talkers)

\* Nothing behind the first message of the queue has been transmitted.
Unsent(t) ==
    /\ lastSent[t] <= pushed[t]
    /\ lastSent[t] <= pushed[t] - Len(tq[t].q) + 1

\* The message that talk() holds is not older than the last one transmitted,
\* and is not behind the first message of the queue.
Held(t) ==
    (Holding(t) /\ talk_msg # HEAD_MSG) =>
        /\ lastSent[t] <= talk_msg
        /\ talk_msg <= pushed[t]
        /\ talk_msg <= pushed[t] - Len(tq[t].q) + 1

IInv ==
    /\ TypeOK
    /\ Loops
    /\ NoUnderflow
    /\ \A t \in Talkers : Contents(t) /\ Unsent(t) /\ Held(t)

-----------------------------------------------------------------------------
(***************************************************************************)
(* Lemmas about the queue operators.                                       *)
(***************************************************************************)

\* The bound that q.size() is compared with is never negative.
LEMMA AsSizeTNat == ASSUME NEW n \in Int PROVE AsSizeT(n) \in Nat
  BY SizeModulusAssumption DEF AsSizeT

\* DropOldest keeps the last n elements of a sequence, or all of them.
LEMMA DropOldestKeepsLast ==
    ASSUME NEW S, NEW q \in Seq(S), NEW n \in Nat
    PROVE  LET r == DropOldest(q, n) IN
           /\ r \in Seq(S)
           /\ Len(r) = IF Len(q) > n THEN n ELSE Len(q)
           /\ \A i \in 1 .. Len(r) : r[i] = q[Len(q) - Len(r) + i]
  <1>1. CASE Len(q) > n
    BY <1>1 DEF DropOldest
  <1>2. CASE ~(Len(q) > n)
    BY <1>2 DEF DropOldest
  <1>. QED  BY <1>1, <1>2

\* Appending the next message leaves the last messages pushed, in order.
LEMMA AppendLast ==
    ASSUME NEW q \in Seq(Nat), NEW p \in Nat, LastOf(q, p)
    PROVE  /\ Append(q, p + 1) \in Seq(Nat)
           /\ Len(Append(q, p + 1)) = Len(q) + 1
           /\ LastOf(Append(q, p + 1), p + 1)
  <1>. DEFINE a == Append(q, p + 1)
  <1>1. a \in Seq(Nat) /\ Len(a) = Len(q) + 1 /\ Len(q) \in Nat
    OBVIOUS
  <1>2. ASSUME NEW i \in 1 .. Len(a)
        PROVE  a[i] = p + 1 - Len(a) + i
    <2>1. CASE i = Len(q) + 1
      <3>1. a[i] = p + 1
        BY <2>1
      <3>. QED  BY <1>1, <2>1, <3>1
    <2>2. CASE i \in 1 .. Len(q)
      <3>1. a[i] = q[i]
        BY <2>2
      <3>2. q[i] = p - Len(q) + i
        BY <2>2 DEF LastOf
      <3>. QED  BY <1>1, <2>2, <3>1, <3>2
    <2>. QED  BY <1>1, <2>1, <2>2
  <1>3. Len(a) <= p + 1
    BY <1>1 DEF LastOf
  <1>. QED  BY <1>1, <1>2, <1>3 DEF LastOf

\* Dropping the oldest messages leaves the last ones pushed, in order, as many
\* as the bound allows.
LEMMA DropLast ==
    ASSUME NEW a \in Seq(Nat), NEW p \in Nat, LastOf(a, p), NEW n \in Nat
    PROVE  /\ DropOldest(a, n) \in Seq(Nat)
           /\ Len(DropOldest(a, n)) = IF Len(a) > n THEN n ELSE Len(a)
           /\ LastOf(DropOldest(a, n), p)
  <1>. DEFINE r == DropOldest(a, n)
  <1>1. /\ r \in Seq(Nat)
        /\ Len(r) = IF Len(a) > n THEN n ELSE Len(a)
        /\ \A i \in 1 .. Len(r) : r[i] = a[Len(a) - Len(r) + i]
    BY DropOldestKeepsLast
  <1>. HIDE DEF r
  <1>2. /\ Len(r) \in Nat /\ Len(a) \in Nat
        /\ Len(r) <= Len(a) /\ Len(a) <= p
    BY <1>1 DEF LastOf
  <1>3. ASSUME NEW i \in 1 .. Len(r)
        PROVE  r[i] = p - Len(r) + i
    <2>. DEFINE j == Len(a) - Len(r) + i
    <2>1. j \in 1 .. Len(a)
      BY <1>2
    <2>2. a[j] = p - Len(a) + j
      BY <2>1 DEF LastOf
    <2>3. r[i] = a[j]
      BY <1>1
    <2>. QED  BY <1>2, <2>2, <2>3
  <1>4. LastOf(r, p)
    BY <1>2, <1>3 DEF LastOf
  <1>. QED  BY <1>1, <1>4 DEF r

\* Removing the front leaves the last messages pushed, in order.
LEMMA TailLast ==
    ASSUME NEW q \in Seq(Nat), NEW p \in Nat, LastOf(q, p), q # << >>
    PROVE  /\ Tail(q) \in Seq(Nat)
           /\ Len(q) > 0
           /\ Len(Tail(q)) = Len(q) - 1
           /\ LastOf(Tail(q), p)
  <1>. DEFINE s == Tail(q)
  <1>1. /\ s \in Seq(Nat)
        /\ Len(q) \in Nat
        /\ Len(q) > 0
        /\ Len(s) = Len(q) - 1
        /\ \A i \in 1 .. Len(s) : s[i] = q[i + 1]
    OBVIOUS
  <1>. HIDE DEF s
  <1>2. ASSUME NEW i \in 1 .. Len(s)
        PROVE  s[i] = p - Len(s) + i
    <2>1. i + 1 \in 1 .. Len(q)
      BY <1>1
    <2>2. q[i + 1] = p - Len(q) + (i + 1)
      BY <2>1 DEF LastOf
    <2>. QED  BY <1>1, <2>2
  <1>3. LastOf(s, p)
    BY <1>1, <1>2 DEF LastOf
  <1>. QED  BY <1>1, <1>3 DEF s

\* The front of a queue is the push that its length tells.
LEMMA HeadLast ==
    ASSUME NEW q \in Seq(Nat), NEW p \in Nat, LastOf(q, p), q # << >>
    PROVE  /\ Head(q) \in Nat
           /\ Head(q) = p - Len(q) + 1
           /\ Len(q) > 0
  <1>1. Head(q) = q[1] /\ Head(q) \in Nat /\ Len(q) \in Nat /\ Len(q) > 0
    OBVIOUS
  <1>2. 1 \in 1 .. Len(q)
    BY <1>1
  <1>3. q[1] = p - Len(q) + 1
    BY <1>2 DEF LastOf
  <1>. QED  BY <1>1, <1>3

\* A push, with the overflow loop that ends it, keeps the newest messages; it
\* empties no queue that held one, and never moves the front back.
LEMMA PushKeepsLast ==
    ASSUME NEW v \in TalkerQueueType(Nat), NEW size \in Int, NEW p \in Nat,
           LastOf(v.q, p), Len(v.q) <= AsSizeT(size)
    PROVE  /\ TQPush(v, size, p + 1) \in TalkerQueueType(Nat)
           /\ TQPush(v, size, p + 1).head_popped = v.head_popped
           /\ LastOf(TQPush(v, size, p + 1).q, p + 1)
           /\ Len(TQPush(v, size, p + 1).q) =
                IF Len(v.q) < AsSizeT(size) THEN Len(v.q) + 1 ELSE AsSizeT(size)
           /\ Len(TQPush(v, size, p + 1).q) <= AsSizeT(size)
           /\ Len(TQPush(v, size, p + 1).q) <= Len(v.q) + 1
           /\ v.q # << >> => TQPush(v, size, p + 1).q # << >>
  <1>. DEFINE a == Append(v.q, p + 1)
             r == DropOldest(a, AsSizeT(size))
  <1>1. v.q \in Seq(Nat) /\ v.head_popped \in BOOLEAN
    BY DEF TalkerQueueType
  <1>2. AsSizeT(size) \in Nat
    BY AsSizeTNat
  <1>3. a \in Seq(Nat) /\ Len(a) = Len(v.q) + 1 /\ LastOf(a, p + 1)
    BY <1>1, AppendLast
  <1>. HIDE DEF a
  <1>4. /\ r \in Seq(Nat)
        /\ Len(r) = IF Len(a) > AsSizeT(size) THEN AsSizeT(size) ELSE Len(a)
        /\ LastOf(r, p + 1)
    BY <1>2, <1>3, DropLast
  <1>. HIDE DEF r
  <1>5. Len(v.q) \in Nat /\ (v.q # << >> => Len(v.q) > 0)
    BY <1>1
  <1>6. /\ Len(r) = IF Len(v.q) < AsSizeT(size) THEN Len(v.q) + 1 ELSE AsSizeT(size)
        /\ Len(r) <= AsSizeT(size) /\ Len(r) <= Len(v.q) + 1
    BY <1>2, <1>3, <1>4, <1>5
  <1>7. v.q # << >> => r # << >>
    <2>1. v.q # << >> => Len(r) > 0
      BY <1>2, <1>3, <1>4, <1>5
    <2>. QED  BY <2>1
  <1>8. TQPush(v, size, p + 1) = [q |-> r, head_popped |-> v.head_popped]
    BY DEF TQPush, TalkerQueue, r, a
  <1>. QED  BY <1>1, <1>4, <1>6, <1>7, <1>8 DEF TalkerQueueType

\* A pop() on a queue that is not empty() marks the head message as sent, or
\* removes the front.
LEMMA PopKeepsLast ==
    ASSUME NEW v \in TalkerQueueType(Nat), NEW p \in Nat,
           LastOf(v.q, p), ~TQEmpty(v)
    PROVE  /\ TQPop(v) \in TalkerQueueType(Nat)
           /\ TQPop(v).head_popped
           /\ LastOf(TQPop(v).q, p)
           /\ Len(TQPop(v).q) = IF v.head_popped THEN Len(v.q) - 1 ELSE Len(v.q)
           /\ v.head_popped => Len(v.q) > 0
  <1>0. v.q \in Seq(Nat)
    BY DEF TalkerQueueType
  <1>1. CASE v.head_popped
    <2>1. v.q # << >>
      BY <1>1 DEF TQEmpty
    <2>2. /\ Tail(v.q) \in Seq(Nat)
          /\ Len(v.q) > 0
          /\ Len(Tail(v.q)) = Len(v.q) - 1
          /\ LastOf(Tail(v.q), p)
      BY <1>0, <2>1, TailLast
    <2>3. TQPop(v) = [q |-> Tail(v.q), head_popped |-> TRUE]
      BY <1>1 DEF TQPop, TalkerQueue
    <2>. QED  BY <1>1, <2>2, <2>3 DEF TalkerQueueType
  <1>2. CASE ~v.head_popped
    <2>1. TQPop(v) = [q |-> v.q, head_popped |-> TRUE]
      BY <1>2 DEF TQPop, TalkerQueue
    <2>. QED  BY <1>0, <1>2, <2>1 DEF TalkerQueueType
  <1>. QED  BY <1>1, <1>2

\* next() on a queue that is not empty() returns the head message or the front.
LEMMA NextIsFront ==
    ASSUME NEW v \in TalkerQueueType(Nat), NEW p \in Nat,
           LastOf(v.q, p), ~TQEmpty(v)
    PROVE  /\ TQNext(v, HEAD_MSG) \in Nat
           /\ TQNext(v, HEAD_MSG) # HEAD_MSG =>
                TQNext(v, HEAD_MSG) = p - Len(v.q) + 1 /\ Len(v.q) > 0
  <1>1. CASE v.head_popped
    <2>1. v.q \in Seq(Nat) /\ v.q # << >>
      BY <1>1 DEF TalkerQueueType, TQEmpty
    <2>2. /\ Head(v.q) \in Nat
          /\ Head(v.q) = p - Len(v.q) + 1
          /\ Len(v.q) > 0
      BY <2>1, HeadLast
    <2>3. TQNext(v, HEAD_MSG) = Head(v.q)
      BY <1>1 DEF TQNext
    <2>. QED  BY <2>2, <2>3
  <1>2. CASE ~v.head_popped
    BY <1>2 DEF TQNext, HEAD_MSG
  <1>. QED  BY <1>1, <1>2

-----------------------------------------------------------------------------
(***************************************************************************)
(* The steps preserve the invariant.                                       *)
(***************************************************************************)

\* A step that leaves Connection alone keeps its types.
LEMMA ConnUnchangedType ==
    ASSUME ConnTypeOK, UNCHANGED connVars
    PROVE  ConnTypeOK'
  BY DEF ConnTypeOK, connVars

\* The invariant holds initially: no queue is attached, both loops are idle.
LEMMA InitIInv == Init => IInv
  <1>. SUFFICES ASSUME Init PROVE IInv
    OBVIOUS
  <1>1. ConnTypeOK
    BY DEF Init, ConnInit, ConnTypeOK, RunnerStates, WsStates
  <1>2. NewTalkerQueue \in TalkerQueueType(Nat)
    BY DEF NewTalkerQueue, TalkerQueue, TalkerQueueType
  <1>3. TypeOK
    <2>1. talkers \in Seq(Talkers) /\ tq \in [Talkers -> TalkerQueueType(Nat)]
      BY <1>2 DEF Init
    <2>2. /\ owner \in [Talkers -> {"none", "attached", "destroyed"}]
          /\ pushed \in [Talkers -> Nat]
          /\ registered \in [Talkers -> {"unknown", "declared", "gone"}]
          /\ lastSent \in [Talkers -> Nat]
          /\ copies \in [Talkers -> Nat]
      BY DEF Init
    <2>3. /\ fresh \in [Talkers -> BOOLEAN]
          /\ raced \in [Talkers -> Nat]
          /\ outage \in BOOLEAN
      BY DEF Init
    <2>4. /\ talk_at \in TalkStates /\ talk_i \in Nat \ {0} /\ talk_end \in Nat
          /\ talk_msg \in Nat
          /\ reset_at \in {"idle", "loop"} /\ reset_i \in Nat \ {0} /\ reset_end \in Nat
      BY DEF Init, TalkStates, HEAD_MSG
    <2>. QED  BY <1>1, <2>1, <2>2, <2>3, <2>4 DEF TypeOK
  <1>4. Loops
    BY DEF Init, Loops
  <1>5. NoUnderflow
    BY DEF Init, NoUnderflow
  <1>6. ASSUME NEW t \in Talkers PROVE Contents(t) /\ Unsent(t) /\ Held(t)
    <2>1. /\ tq[t].q = << >> /\ pushed[t] = 0 /\ lastSent[t] = 0
          /\ AsSizeT(QSize[t]) \in Nat
      BY TalkersAssumption, AsSizeTNat DEF Init, NewTalkerQueue, TalkerQueue
    <2>2. Contents(t)
      BY <2>1 DEF Contents, LastOf
    <2>3. Unsent(t)
      BY <2>1 DEF Unsent
    <2>4. Held(t)
      BY DEF Held, Holding, Init
    <2>. QED  BY <2>2, <2>3, <2>4
  <1>. QED  BY <1>3, <1>4, <1>5, <1>6 DEF IInv

\* What a step of the other threads leaves alone is all that the invariant,
\* types of the connection and of the history excepted, depends on.
LEMMA FrameIInv ==
    ASSUME IInv, TypeOK',
           UNCHANGED <<talkers, tq, pushed, talk_at, talk_i, talk_end, talk_msg, lastSent>>,
           reset_i' >= 1, reset_end' <= Len(talkers)
    PROVE  IInv'
  <1>1. Loops'
    BY DEF IInv, Loops
  <1>2. NoUnderflow'
    BY DEF IInv, NoUnderflow, TalkTo
  <1>3. ASSUME NEW t \in Talkers PROVE (Contents(t) /\ Unsent(t) /\ Held(t))'
    <2>1. Contents(t)'
      BY DEF IInv, Contents
    <2>2. Unsent(t)'
      BY DEF IInv, Unsent
    <2>3. Held(t)'
      BY DEF IInv, Held, Holding, TalkTo
    <2>. QED  BY <2>1, <2>2, <2>3
  <1>. QED  BY <1>1, <1>2, <1>3 DEF IInv

\* The steps of the runner thread and of the network, the start of a new
\* connection included, touch no queue and not what talk() holds.
LEMMA ConnectionIInv ==
    ASSUME IInv, Reconnect \/ RunnerOther \/ ConnectionEvent \/ UserThrows
    PROVE  IInv'
  <1>1. ConnTypeOK'
    <2>1. ConnNext
      BY DEF Reconnect, RunnerOther, ConnectionEvent, UserThrows, ConnNext, RunnerSteps
    <2>. QED  BY <2>1, ConnTypesKept DEF IInv, TypeOK
  <1>2. /\ UNCHANGED <<clientVars, talkVars, reset_i, reset_end, lastSent>>
        /\ reset_at' \in {"idle", "loop"}
    BY DEF IInv, TypeOK, Reconnect, RunnerOther, ConnectionEvent, UserThrows, resetVars,
           serverVars
  <1>3. /\ registered' \in [Talkers -> {"unknown", "declared", "gone"}]
        /\ copies' \in [Talkers -> Nat]
    BY SMTT(30) DEF IInv, TypeOK, Reconnect, RunnerOther, ConnectionEvent, UserThrows,
                    serverVars
  <1>4. /\ fresh' \in [Talkers -> BOOLEAN]
        /\ outage' \in BOOLEAN
    BY DEF IInv, TypeOK, Reconnect, RunnerOther, ConnectionEvent, UserThrows, historyVars
  <1>5. raced' \in [Talkers -> Nat]
    <2>1. CASE Reconnect
      <3>1. raced' = [t \in Talkers |-> IF Holding(t) /\ raced[t] > 0 THEN 1 ELSE 0]
        BY <2>1, Zenon DEF Reconnect
      <3>. QED  BY <3>1
    <2>2. CASE RunnerOther \/ ConnectionEvent \/ UserThrows
      BY <2>2 DEF IInv, TypeOK, RunnerOther, ConnectionEvent, UserThrows, historyVars
    <2>. QED  BY <2>1, <2>2
  <1>6. TypeOK'
    BY <1>1, <1>2, <1>3, <1>4, <1>5 DEF IInv, TypeOK, clientVars, talkVars
  <1>. QED
    BY <1>2, <1>6, FrameIInv DEF IInv, Loops, clientVars, talkVars

\* The steps before and after the loop of resetTalkers(): it takes the end()
\* of the vector as it is (rosbridgeclient.cpp:86).
LEMMA ResetBeginEndIInv ==
    ASSUME IInv, ResetBegin \/ ResetDone
    PROVE  IInv'
  <1>1. ConnTypeOK'
    BY ConnTypesKept, ConnUnchangedType
    DEF IInv, TypeOK, ResetBegin, ResetDone, ConnNext, RunnerSteps
  <1>2. /\ UNCHANGED <<clientVars, talkVars, serverVars, historyVars>>
        /\ reset_at' \in {"idle", "loop"}
        /\ \/ reset_i' = 1 /\ reset_end' = Len(talkers)
           \/ reset_i' = reset_i /\ reset_end' = reset_end
    BY DEF ResetBegin, ResetDone, resetVars
  <1>3. Len(talkers) \in Nat
    BY DEF IInv, TypeOK
  <1>4. TypeOK'
    BY <1>1, <1>2, <1>3
    DEF IInv, TypeOK, clientVars, talkVars, serverVars, historyVars
  <1>5. reset_i' >= 1 /\ reset_end' <= Len(talkers)
    BY <1>2, <1>3 DEF IInv, Loops
  <1>6. UNCHANGED <<talkers, tq, pushed, talk_at, talk_i, talk_end, talk_msg, lastSent>>
    BY <1>2 DEF clientVars, talkVars, serverVars
  <1>. QED  BY <1>4, <1>5, <1>6, FrameIInv

\* resetTalkers() touches head_popped alone, which can only make a queue less
\* empty for talk().
LEMMA ResetTalkerIInv ==
    ASSUME IInv, ResetTalker
    PROVE  IInv'
  <1>. DEFINE r == talkers[reset_i]
  <1>1. /\ r \in Talkers
        /\ reset_i \in Nat /\ reset_i \in 1 .. Len(talkers)
        /\ tq \in [Talkers -> TalkerQueueType(Nat)]
    <2>1. /\ talkers \in Seq(Talkers) /\ reset_i \in Nat \ {0} /\ reset_end \in Nat
          /\ tq \in [Talkers -> TalkerQueueType(Nat)]
      BY DEF IInv, TypeOK
    <2>2. reset_i \in 1 .. Len(talkers)
      BY <2>1 DEF IInv, Loops, ResetTalker
    <2>. QED  BY <2>1, <2>2
  <1>2. /\ tq' = [tq EXCEPT ![r] = TQReset(tq[r])]
        /\ reset_i' = reset_i + 1
        /\ UNCHANGED <<connVars, talkers, owner, pushed, talkVars, reset_at, reset_end,
                       serverVars, outage>>
    BY DEF ResetTalker
  <1>3. TQReset(tq[r]) = [q |-> tq[r].q, head_popped |-> FALSE]
    BY DEF TQReset, TalkerQueue
  <1>4. /\ TQReset(tq[r]) \in TalkerQueueType(Nat)
        /\ TQReset(tq[r]).q = tq[r].q
        /\ ~TQReset(tq[r]).head_popped
    BY <1>1, <1>3 DEF TalkerQueueType
  <1>5. /\ tq' \in [Talkers -> TalkerQueueType(Nat)]
        /\ \A t \in Talkers : tq'[t].q = tq[t].q
        /\ \A t \in Talkers : tq'[t].head_popped => tq[t].head_popped
    BY <1>1, <1>2, <1>4
  <1>6. /\ fresh' \in [Talkers -> BOOLEAN]
        /\ raced' \in [Talkers -> Nat]
    <2>1. fresh' = [fresh EXCEPT ![r] = TRUE] /\ fresh \in [Talkers -> BOOLEAN]
      BY DEF ResetTalker, IInv, TypeOK
    <2>2. /\ raced' = [raced EXCEPT ![r] = IF Holding(r) THEN raced[r] + 1 ELSE raced[r]]
          /\ raced \in [Talkers -> Nat]
      BY DEF ResetTalker, IInv, TypeOK
    <2>3. (IF Holding(r) THEN raced[r] + 1 ELSE raced[r]) \in Nat
      BY <1>1, <2>2
    <2>. QED  BY <1>1, <2>1, <2>2, <2>3
  <1>7. ConnTypeOK'
    BY <1>2, ConnUnchangedType DEF IInv, TypeOK
  <1>8. TypeOK'
    <2>1. /\ owner' = owner /\ pushed' = pushed /\ talkers' = talkers
          /\ talk_at' = talk_at /\ talk_i' = talk_i /\ talk_end' = talk_end
          /\ talk_msg' = talk_msg /\ reset_at' = reset_at /\ reset_end' = reset_end
          /\ registered' = registered /\ lastSent' = lastSent /\ copies' = copies
          /\ outage' = outage
      BY <1>2 DEF talkVars, serverVars
    <2>2. reset_i' \in Nat \ {0}
      BY <1>1, <1>2
    <2>. QED  BY <1>5, <1>6, <1>7, <2>1, <2>2 DEF IInv, TypeOK
  <1>9. Loops'
    BY <1>1, <1>2 DEF IInv, Loops, talkVars
  <1>10. NoUnderflow'
    <2>. SUFFICES ASSUME talk_at \in {"next", "check", "send", "pop"}
                  PROVE  ~TQEmpty(tq'[TalkTo])
      BY <1>2 DEF NoUnderflow, TalkTo, talkVars
    <2>1. TalkTo \in Talkers
      BY DEF IInv, TypeOK, Loops, TalkTo
    <2>2. ~TQEmpty(tq[TalkTo])
      BY DEF IInv, NoUnderflow
    <2>. QED  BY <1>5, <2>1, <2>2 DEF TQEmpty
  <1>11. ASSUME NEW t \in Talkers PROVE (Contents(t) /\ Unsent(t) /\ Held(t))'
    <2>1. tq'[t].q = tq[t].q /\ pushed' = pushed /\ lastSent' = lastSent
      BY <1>2, <1>5 DEF serverVars
    <2>2. Contents(t)'
      BY <2>1 DEF IInv, Contents
    <2>3. Unsent(t)'
      BY <2>1 DEF IInv, Unsent
    <2>4. Held(t)'
      BY <1>2, <2>1 DEF IInv, Held, Holding, TalkTo, talkVars
    <2>. QED  BY <2>2, <2>3, <2>4
  <1>. QED  BY <1>8, <1>9, <1>10, <1>11 DEF IInv

\* A queue attached while talk() or resetTalkers() is in its loop is behind
\* the end() that the loop runs to.
LEMMA AttachIInv ==
    ASSUME IInv, NEW u \in Talkers, Attach(u)
    PROVE  IInv'
  <1>1. /\ talkers \in Seq(Talkers)
        /\ talkers' \in Seq(Talkers)
        /\ Len(talkers') = Len(talkers) + 1
        /\ Len(talkers) \in Nat
        /\ \A i \in 1 .. Len(talkers) : talkers'[i] = talkers[i]
    BY DEF IInv, TypeOK, Attach
  <1>2. /\ UNCHANGED <<connVars, tq, pushed, talkVars, resetVars, serverVars, raced, outage>>
        /\ owner' \in [Talkers -> {"none", "attached", "destroyed"}]
        /\ fresh' \in [Talkers -> BOOLEAN]
    BY DEF IInv, TypeOK, Attach
  <1>3. ConnTypeOK'
    BY <1>2, ConnUnchangedType DEF IInv, TypeOK
  <1>4. TypeOK'
    BY <1>1, <1>2, <1>3 DEF IInv, TypeOK, talkVars, resetVars, serverVars
  <1>5. Loops'
    BY SMTT(30), <1>1, <1>2 DEF IInv, TypeOK, Loops, talkVars, resetVars
  <1>6. talk_at # "idle" => TalkTo' = TalkTo
    BY <1>1, <1>2 DEF IInv, TypeOK, Loops, TalkTo, talkVars
  <1>7. NoUnderflow'
    BY <1>2, <1>6 DEF IInv, NoUnderflow, talkVars
  <1>8. ASSUME NEW t \in Talkers PROVE (Contents(t) /\ Unsent(t) /\ Held(t))'
    <2>1. Contents(t)'
      BY <1>2 DEF IInv, Contents
    <2>2. Unsent(t)'
      BY <1>2 DEF IInv, Unsent, serverVars
    <2>3. Holding(t)' => Holding(t)
      BY <1>2, <1>6 DEF Holding, talkVars
    <2>4. Held(t)'
      BY <1>2, <2>3 DEF IInv, Held, talkVars, serverVars
    <2>. QED  BY <2>1, <2>2, <2>4
  <1>. QED  BY <1>4, <1>5, <1>7, <1>8 DEF IInv

\* A push appends behind what talk() may hold and, if it drops anything, moves
\* the front of the queue forward.
LEMMA PushIInv ==
    ASSUME IInv, NEW u \in Talkers, PushMessage(u), TypeOK',
           UNCHANGED <<talkers, talkVars, resetVars, lastSent>>
    PROVE  IInv'
  <1>. DEFINE w == TQPush(tq[u], QSize[u], pushed[u] + 1)
  <1>1. /\ tq[u] \in TalkerQueueType(Nat) /\ QSize[u] \in Int /\ pushed[u] \in Nat
        /\ LastOf(tq[u].q, pushed[u]) /\ Len(tq[u].q) <= AsSizeT(QSize[u])
    BY TalkersAssumption DEF IInv, TypeOK, Contents
  <1>2. /\ w \in TalkerQueueType(Nat)
        /\ w.head_popped = tq[u].head_popped
        /\ LastOf(w.q, pushed[u] + 1)
        /\ Len(w.q) <= AsSizeT(QSize[u])
        /\ Len(w.q) <= Len(tq[u].q) + 1
        /\ tq[u].q # << >> => w.q # << >>
    BY <1>1, PushKeepsLast
  <1>. HIDE DEF w
  <1>3. /\ tq' = [tq EXCEPT ![u] = w]
        /\ pushed' = [pushed EXCEPT ![u] = pushed[u] + 1]
    BY DEF PushMessage, w
  <1>4. /\ tq'[u] = w /\ pushed'[u] = pushed[u] + 1
        /\ \A t \in Talkers : t # u => tq'[t] = tq[t] /\ pushed'[t] = pushed[t]
    BY <1>3 DEF IInv, TypeOK
  <1>5. Loops'
    BY DEF IInv, Loops, talkVars, resetVars
  <1>6. NoUnderflow'
    <2>. SUFFICES ASSUME talk_at \in {"next", "check", "send", "pop"}
                  PROVE  ~TQEmpty(tq'[TalkTo])
      BY DEF NoUnderflow, TalkTo, talkVars
    <2>1. TalkTo \in Talkers
      BY SMTT(30) DEF IInv, TypeOK, Loops, TalkTo
    <2>2. ~TQEmpty(tq[TalkTo])
      BY DEF IInv, NoUnderflow
    <2>. QED  BY <1>2, <1>4, <2>1, <2>2 DEF TQEmpty
  <1>7. ASSUME NEW t \in Talkers PROVE (Contents(t) /\ Unsent(t) /\ Held(t))'
    <2>1. Contents(t) /\ Unsent(t) /\ Held(t)
      BY DEF IInv
    <2>2. CASE t = u
      <3>1. /\ lastSent[t] \in Nat /\ pushed[t] \in Nat /\ talk_msg \in Nat
            /\ tq[t] \in TalkerQueueType(Nat)
        BY DEF IInv, TypeOK
      <3>2. Len(w.q) \in Nat /\ Len(tq[t].q) \in Nat
        BY <1>2, <3>1 DEF TalkerQueueType
      <3>3. /\ tq'[t] = w /\ pushed'[t] = pushed[t] + 1 /\ lastSent'[t] = lastSent[t]
            /\ talk_msg' = talk_msg /\ Len(w.q) <= Len(tq[t].q) + 1
        BY <1>2, <1>4, <2>2 DEF talkVars
      <3>4. Contents(t)'
        BY <1>2, <2>2, <3>3 DEF Contents
      <3>5. Unsent(t)'
        BY SMTT(30), <2>1, <3>1, <3>2, <3>3 DEF Unsent
      <3>6. Holding(t)' => Holding(t)
        BY DEF Holding, TalkTo, talkVars
      <3>7. Held(t)'
        <4>. SUFFICES ASSUME Holding(t)', talk_msg' # HEAD_MSG
                      PROVE  /\ lastSent'[t] <= talk_msg'
                             /\ talk_msg' <= pushed'[t]
                             /\ talk_msg' <= pushed'[t] - Len(tq'[t].q) + 1
          BY Zenon DEF Held
        <4>1. /\ lastSent[t] <= talk_msg /\ talk_msg <= pushed[t]
              /\ talk_msg <= pushed[t] - Len(tq[t].q) + 1
          BY <2>1, <3>3, <3>6, Zenon DEF Held
        <4>. QED  BY SMTT(30), <3>1, <3>2, <3>3, <4>1
      <3>. QED  BY <3>4, <3>5, <3>7
    <2>3. CASE t # u
      BY <1>4, <2>1, <2>3 DEF Contents, Unsent, Held, Holding, TalkTo, talkVars
    <2>. QED  BY <2>2, <2>3
  <1>. QED  BY <1>5, <1>6, <1>7 DEF IInv

\* A destructor without farewell pushes nothing; with one, it is a push
\* (publisher.cpp:32-39).
LEMMA PushOrDestroyIInv ==
    ASSUME IInv, NEW u \in Talkers, Push(u) \/ Destroy(u)
    PROVE  IInv'
  <1>1. /\ UNCHANGED <<connVars, talkers, talkVars, resetVars, serverVars, historyVars>>
        /\ owner' \in [Talkers -> {"none", "attached", "destroyed"}]
        /\ PushMessage(u) \/ UNCHANGED <<tq, pushed>>
    BY DEF IInv, TypeOK, Push, Destroy
  <1>2. ConnTypeOK'
    BY <1>1, ConnUnchangedType DEF IInv, TypeOK
  <1>3. tq' \in [Talkers -> TalkerQueueType(Nat)] /\ pushed' \in [Talkers -> Nat]
    <2>1. /\ tq \in [Talkers -> TalkerQueueType(Nat)] /\ pushed \in [Talkers -> Nat]
          /\ TQPush(tq[u], QSize[u], pushed[u] + 1) \in TalkerQueueType(Nat)
      BY TalkersAssumption, PushKeepsLast DEF IInv, TypeOK, Contents
    <2>. QED  BY <1>1, <2>1 DEF PushMessage
  <1>4. TypeOK'
    BY <1>1, <1>2, <1>3 DEF IInv, TypeOK, talkVars, resetVars, serverVars, historyVars
  <1>5. CASE PushMessage(u)
    BY <1>1, <1>4, <1>5, PushIInv DEF serverVars
  <1>6. CASE UNCHANGED <<tq, pushed>>
    BY <1>1, <1>4, <1>6, FrameIInv DEF IInv, Loops, talkVars, resetVars, serverVars
  <1>. QED  BY <1>1, <1>5, <1>6

\* The steps of talk() that touch neither a queue nor the server.
LEMMA TalkMoveIInv ==
    ASSUME IInv, TalkBegin \/ TalkActive \/ TalkEmpty \/ TalkCheck
    PROVE  IInv'
  <1>1. UNCHANGED <<connVars, clientVars, talk_msg, resetVars, serverVars, historyVars>>
    BY DEF TalkBegin, TalkActive, TalkEmpty, TalkCheck
  <1>2. /\ talkers \in Seq(Talkers) /\ Len(talkers) \in Nat
        /\ talk_i \in Nat /\ talk_end \in Nat /\ talk_at \in TalkStates
        /\ talk_end <= Len(talkers)
        /\ talk_at # "idle" => talk_i \in 1 .. talk_end
    BY DEF IInv, TypeOK, Loops
  <1>3. /\ talk_i' \in Nat \ {0} /\ talk_end' \in Nat /\ talk_at' \in TalkStates
        /\ talk_end' <= Len(talkers)
        /\ talk_at' # "idle" => talk_i' \in 1 .. talk_end'
    <2>1. CASE TalkBegin
      <3>1. talkers # << >> => Len(talkers) >= 1
        BY <1>2
      <3>. QED  BY <1>2, <2>1, <3>1 DEF TalkBegin, TalkStates
    <2>2. CASE TalkActive
      BY <1>2, <2>2 DEF TalkActive, TalkStates
    <2>3. CASE TalkEmpty
      BY <1>2, <2>3 DEF TalkEmpty, TalkAdvance, TalkStates
    <2>4. CASE TalkCheck
      BY <1>2, <2>4 DEF TalkCheck, TalkStates
    <2>. QED  BY <2>1, <2>2, <2>3, <2>4
  <1>4. ConnTypeOK'
    BY <1>1, ConnUnchangedType DEF IInv, TypeOK
  <1>5. TypeOK'
    BY <1>1, <1>3, <1>4 DEF IInv, TypeOK, clientVars, resetVars, serverVars, historyVars
  <1>6. Loops'
    BY <1>1, <1>3 DEF IInv, Loops, clientVars, resetVars
  <1>7. NoUnderflow'
    <2>1. CASE TalkBegin \/ TalkActive
      BY <2>1 DEF TalkBegin, TalkActive, NoUnderflow
    <2>2. CASE TalkEmpty
      BY <1>1, <2>2 DEF TalkEmpty, TalkAdvance, NoUnderflow, TalkTo, clientVars
    <2>3. CASE TalkCheck
      BY <1>1, <2>3 DEF IInv, TalkCheck, NoUnderflow, TalkTo, clientVars
    <2>. QED  BY <2>1, <2>2, <2>3
  <1>8. ASSUME NEW t \in Talkers PROVE (Contents(t) /\ Unsent(t) /\ Held(t))'
    <2>1. Contents(t)'
      BY <1>1 DEF IInv, Contents, clientVars
    <2>2. Unsent(t)'
      BY <1>1 DEF IInv, Unsent, clientVars, serverVars
    <2>3. Holding(t)' => Holding(t)
      <3>1. CASE TalkBegin \/ TalkActive \/ TalkEmpty
        BY <3>1 DEF TalkBegin, TalkActive, TalkEmpty, TalkAdvance, Holding
      <3>2. CASE TalkCheck
        BY <1>1, <3>2 DEF TalkCheck, Holding, TalkTo, clientVars
      <3>. QED  BY <3>1, <3>2
    <2>4. Held(t)'
      BY <1>1, <2>3 DEF IInv, Held, clientVars, serverVars
    <2>. QED  BY <2>1, <2>2, <2>4
  <1>. QED  BY <1>5, <1>6, <1>7, <1>8 DEF IInv

\* What the remaining steps of talk() have in common.
LEMMA TalkToType ==
    ASSUME IInv, talk_at # "idle"
    PROVE  /\ TalkTo \in Talkers
           /\ talk_i \in Nat /\ talk_end \in Nat /\ talk_i \in 1 .. talk_end
           /\ tq[TalkTo] \in TalkerQueueType(Nat)
           /\ Len(tq[TalkTo].q) \in Nat
           /\ pushed[TalkTo] \in Nat /\ lastSent[TalkTo] \in Nat
  <1>1. /\ talkers \in Seq(Talkers) /\ talk_i \in Nat \ {0} /\ talk_end \in Nat
        /\ talk_i \in 1 .. talk_end /\ talk_end <= Len(talkers)
    BY DEF IInv, TypeOK, Loops
  <1>2. TalkTo \in Talkers
    BY <1>1 DEF TalkTo
  <1>3. /\ tq[TalkTo] \in TalkerQueueType(Nat)
        /\ pushed[TalkTo] \in Nat /\ lastSent[TalkTo] \in Nat
    BY <1>2 DEF IInv, TypeOK
  <1>4. Len(tq[TalkTo].q) \in Nat
    BY <1>3 DEF TalkerQueueType
  <1>. QED  BY <1>1, <1>2, <1>3, <1>4

\* What next() returns is the head message or the front of the queue, which
\* is not older than the last message transmitted (rosbridgeclient.cpp:78).
LEMMA TalkNextIInv ==
    ASSUME IInv, TalkNext
    PROVE  IInv'
  <1>. DEFINE u == TalkTo
  <1>1. /\ UNCHANGED <<connVars, clientVars, talk_i, talk_end, resetVars, serverVars,
                       historyVars>>
        /\ talk_at = "next" /\ talk_at' = "check"
        /\ talk_msg' = TQNext(tq[u], HEAD_MSG)
    BY DEF TalkNext
  <1>2. /\ u \in Talkers /\ tq[u] \in TalkerQueueType(Nat) /\ pushed[u] \in Nat
        /\ lastSent[u] \in Nat /\ Len(tq[u].q) \in Nat
    BY <1>1, TalkToType
  <1>3. ~TQEmpty(tq[u]) /\ LastOf(tq[u].q, pushed[u])
    BY <1>1, <1>2 DEF IInv, NoUnderflow, Contents
  <1>4. /\ talk_msg' \in Nat
        /\ talk_msg' # HEAD_MSG =>
              talk_msg' = pushed[u] - Len(tq[u].q) + 1 /\ Len(tq[u].q) > 0
    BY <1>1, <1>2, <1>3, NextIsFront
  <1>5. ConnTypeOK'
    BY <1>1, ConnUnchangedType DEF IInv, TypeOK
  <1>6. TypeOK'
    BY <1>1, <1>4, <1>5
    DEF IInv, TypeOK, TalkStates, clientVars, resetVars, serverVars, historyVars
  <1>7. Loops'
    BY <1>1 DEF IInv, Loops, clientVars, resetVars
  <1>8. NoUnderflow'
    BY <1>1, <1>3 DEF NoUnderflow, TalkTo, clientVars
  <1>9. ASSUME NEW t \in Talkers PROVE (Contents(t) /\ Unsent(t) /\ Held(t))'
    <2>1. Contents(t)'
      BY <1>1 DEF IInv, Contents, clientVars
    <2>2. Unsent(t)'
      BY <1>1 DEF IInv, Unsent, clientVars, serverVars
    <2>3. Held(t)'
      <3>. SUFFICES ASSUME Holding(t)', talk_msg' # HEAD_MSG
                    PROVE  /\ lastSent'[t] <= talk_msg'
                           /\ talk_msg' <= pushed'[t]
                           /\ talk_msg' <= pushed'[t] - Len(tq'[t].q) + 1
        BY Zenon DEF Held
      <3>1. t = u
        BY <1>1 DEF Holding, TalkTo, clientVars
      <3>2. lastSent'[t] = lastSent[u] /\ pushed'[t] = pushed[u] /\ tq'[t] = tq[u]
        BY <1>1, <3>1 DEF clientVars, serverVars
      <3>3. lastSent[u] <= pushed[u] - Len(tq[u].q) + 1
        BY <1>2 DEF IInv, Unsent
      <3>. QED  BY <1>2, <1>4, <3>2, <3>3
    <2>. QED  BY <2>1, <2>2, <2>3
  <1>. QED  BY <1>6, <1>7, <1>8, <1>9 DEF IInv

\* What talk() holds may be transmitted: it is neither older than the last
\* message transmitted nor behind the front.
LEMMA TalkSendIInv ==
    ASSUME IInv, TalkSend
    PROVE  IInv'
  <1>. DEFINE u == TalkTo
  <1>1. /\ UNCHANGED <<connVars, clientVars, talk_i, talk_end, talk_msg, resetVars,
                       historyVars>>
        /\ talk_at = "send" /\ talk_at' = "pop"
        /\ Receive(u, talk_msg) \/ UNCHANGED serverVars
    BY DEF TalkSend
  <1>2. /\ u \in Talkers /\ pushed[u] \in Nat /\ lastSent[u] \in Nat
        /\ Len(tq[u].q) \in Nat /\ talk_msg \in Nat
    BY <1>1, TalkToType DEF IInv, TypeOK
  <1>3. talk_msg # HEAD_MSG =>
          /\ lastSent[u] <= talk_msg
          /\ talk_msg <= pushed[u]
          /\ talk_msg <= pushed[u] - Len(tq[u].q) + 1
    BY <1>1, <1>2, Zenon DEF IInv, Held, Holding
  <1>4. \/ UNCHANGED lastSent
        \/ talk_msg # HEAD_MSG /\ lastSent' = [lastSent EXCEPT ![u] = talk_msg]
    BY <1>1 DEF Receive, serverVars
  <1>5. /\ registered' \in [Talkers -> {"unknown", "declared", "gone"}]
        /\ lastSent' \in [Talkers -> Nat]
        /\ copies' \in [Talkers -> Nat]
    <2>1. /\ registered \in [Talkers -> {"unknown", "declared", "gone"}]
          /\ lastSent \in [Talkers -> Nat]
          /\ copies \in [Talkers -> Nat]
      BY DEF IInv, TypeOK
    <2>2. CASE Receive(u, talk_msg)
      <3>1. registered' \in [Talkers -> {"unknown", "declared", "gone"}]
        BY <2>1, <2>2 DEF Receive
      <3>2. copies' \in [Talkers -> Nat]
        BY <2>1, <2>2 DEF Receive
      <3>. QED  BY <1>2, <1>4, <2>1, <3>1, <3>2
    <2>3. CASE UNCHANGED serverVars
      BY <2>1, <2>3 DEF serverVars
    <2>. QED  BY <1>1, <2>2, <2>3
  <1>6. ConnTypeOK'
    BY <1>1, ConnUnchangedType DEF IInv, TypeOK
  <1>7. TypeOK'
    BY <1>1, <1>5, <1>6 DEF IInv, TypeOK, TalkStates, clientVars, resetVars, historyVars
  <1>8. Loops'
    BY <1>1 DEF IInv, Loops, clientVars, resetVars
  <1>9. NoUnderflow'
    BY <1>1 DEF IInv, NoUnderflow, TalkTo, clientVars
  <1>10. ASSUME NEW t \in Talkers PROVE (Contents(t) /\ Unsent(t) /\ Held(t))'
    <2>1. Contents(t)'
      BY <1>1 DEF IInv, Contents, clientVars
    <2>2. CASE t = u /\ talk_msg # HEAD_MSG /\ lastSent' = [lastSent EXCEPT ![u] = talk_msg]
      <3>1. lastSent'[t] = talk_msg /\ talk_msg' = talk_msg /\ tq'[t] = tq[u]
            /\ pushed'[t] = pushed[u]
        BY <1>1, <1>2, <2>2 DEF IInv, TypeOK, clientVars
      <3>2. Unsent(t)'
        BY <1>2, <1>3, <2>2, <3>1 DEF Unsent
      <3>3. Held(t)'
        BY <1>2, <1>3, <2>2, <3>1 DEF Held
      <3>. QED  BY <2>1, <3>2, <3>3
    <2>3. CASE lastSent'[t] = lastSent[t]
      <3>1. Unsent(t)'
        BY <1>1, <2>3 DEF IInv, Unsent, clientVars
      <3>2. Holding(t)' => Holding(t)
        BY <1>1 DEF Holding, TalkTo, clientVars
      <3>3. Held(t)'
        BY <1>1, <2>3, <3>2 DEF IInv, Held, clientVars
      <3>. QED  BY <2>1, <3>1, <3>3
    <2>4. \/ t = u /\ talk_msg # HEAD_MSG /\ lastSent' = [lastSent EXCEPT ![u] = talk_msg]
          \/ lastSent'[t] = lastSent[t]
      BY <1>4 DEF IInv, TypeOK
    <2>. QED  BY <2>2, <2>3, <2>4
  <1>. QED  BY <1>7, <1>8, <1>9, <1>10 DEF IInv

\* pop() removes at most the front, and talk() then holds nothing
\* (rosbridgeclient.cpp:79).
LEMMA TalkPopIInv ==
    ASSUME IInv, TalkPop
    PROVE  IInv'
  <1>. DEFINE u == TalkTo
  <1>1. /\ UNCHANGED <<connVars, talkers, owner, pushed, resetVars, serverVars,
                       historyVars>>
        /\ talk_at = "pop"
        /\ TalkAdvance
        /\ tq' = [tq EXCEPT ![u] = TQPop(tq[u])]
        /\ talk_msg' = HEAD_MSG
    BY DEF TalkPop
  <1>2. /\ u \in Talkers /\ tq[u] \in TalkerQueueType(Nat) /\ pushed[u] \in Nat
        /\ lastSent[u] \in Nat /\ Len(tq[u].q) \in Nat
        /\ talk_i \in Nat \ {0} /\ talk_end \in Nat
    BY <1>1, TalkToType
  <1>3. ~TQEmpty(tq[u]) /\ LastOf(tq[u].q, pushed[u])
    BY <1>1, <1>2 DEF IInv, NoUnderflow, Contents
  <1>4. /\ TQPop(tq[u]) \in TalkerQueueType(Nat)
        /\ LastOf(TQPop(tq[u]).q, pushed[u])
        /\ Len(TQPop(tq[u]).q) <= Len(tq[u].q)
        /\ Len(TQPop(tq[u]).q) \in Nat
    <2>1. Len(TQPop(tq[u]).q) = IF tq[u].head_popped THEN Len(tq[u].q) - 1 ELSE Len(tq[u].q)
      BY <1>2, <1>3, PopKeepsLast
    <2>2. TQPop(tq[u]) \in TalkerQueueType(Nat) /\ LastOf(TQPop(tq[u]).q, pushed[u])
      BY <1>2, <1>3, PopKeepsLast
    <2>3. Len(TQPop(tq[u]).q) \in Nat
      BY <2>2 DEF TalkerQueueType
    <2>. QED  BY <1>2, <2>1, <2>2, <2>3
  <1>5. tq' \in [Talkers -> TalkerQueueType(Nat)]
    BY <1>1, <1>2, <1>4 DEF IInv, TypeOK
  <1>6. /\ tq'[u] = TQPop(tq[u])
        /\ \A t \in Talkers : t # u => tq'[t] = tq[t]
    BY <1>1, <1>2 DEF IInv, TypeOK
  <1>7. /\ talk_i' \in Nat \ {0} /\ talk_end' = talk_end
        /\ talk_at' \in {"active", "idle"}
        /\ talk_at' # "idle" => talk_i' \in 1 .. talk_end'
    BY <1>1, <1>2 DEF TalkAdvance
  <1>8. ConnTypeOK'
    BY <1>1, ConnUnchangedType DEF IInv, TypeOK
  <1>9. TypeOK'
    BY <1>1, <1>5, <1>7, <1>8
    DEF IInv, TypeOK, TalkStates, HEAD_MSG, resetVars, serverVars, historyVars
  <1>10. Loops'
    BY <1>1, <1>7 DEF IInv, Loops, resetVars
  <1>11. NoUnderflow'
    BY <1>7 DEF NoUnderflow
  <1>12. ASSUME NEW t \in Talkers PROVE (Contents(t) /\ Unsent(t) /\ Held(t))'
    <2>1. pushed' = pushed /\ lastSent' = lastSent
      BY <1>1 DEF serverVars
    <2>2. Held(t)'
      BY <1>1 DEF Held
    <2>3. CASE t = u
      <3>1. Contents(u) /\ Unsent(u) /\ AsSizeT(QSize[u]) \in Nat
        BY <1>2, TalkersAssumption, AsSizeTNat DEF IInv
      <3>2. Contents(t)'
        BY <1>2, <1>4, <1>6, <2>1, <2>3, <3>1 DEF Contents
      <3>3. Unsent(t)'
        BY SMTT(30), <1>2, <1>4, <1>6, <2>1, <2>3, <3>1 DEF Unsent
      <3>. QED  BY <2>2, <3>2, <3>3
    <2>4. CASE t # u
      BY <1>6, <2>1, <2>2, <2>4 DEF IInv, Contents, Unsent
    <2>. QED  BY <2>3, <2>4
  <1>. QED  BY <1>9, <1>10, <1>11, <1>12 DEF IInv

\* The invariant depends on the variables of the specification alone.
LEMMA StutterIInv ==
    ASSUME IInv, UNCHANGED vars
    PROVE  IInv'
  <1>1. ConnTypeOK'
    BY ConnUnchangedType DEF IInv, TypeOK, vars
  <1>2. TypeOK'
    BY <1>1 DEF IInv, TypeOK, vars, clientVars, talkVars, resetVars, serverVars, historyVars
  <1>. QED
    BY <1>2, FrameIInv DEF IInv, Loops, vars, clientVars, talkVars, resetVars, serverVars

\* Every step of every thread preserves the invariant.
LEMMA NextIInv == IInv /\ [Next]_vars => IInv'
  <1>. SUFFICES ASSUME IInv, [Next]_vars PROVE IInv'
    OBVIOUS
  <1>1. ASSUME NEW t \in Talkers, Attach(t) PROVE IInv'
    BY <1>1, AttachIInv
  <1>2. ASSUME NEW t \in Talkers, Push(t) \/ Destroy(t) PROVE IInv'
    BY <1>2, PushOrDestroyIInv
  <1>3. CASE TalkSteps
    BY <1>3, TalkMoveIInv, TalkNextIInv, TalkSendIInv, TalkPopIInv DEF TalkSteps
  <1>4. CASE ResetBegin \/ ResetTalker \/ ResetDone
    BY <1>4, ResetBeginEndIInv, ResetTalkerIInv
  <1>5. CASE Reconnect \/ RunnerOther \/ ConnectionEvent \/ UserThrows
    BY <1>5, ConnectionIInv
  <1>6. CASE UNCHANGED vars
    BY <1>6, StutterIInv
  <1>. QED  BY <1>1, <1>2, <1>3, <1>4, <1>5, <1>6 DEF Next

-----------------------------------------------------------------------------
(***************************************************************************)
(* The theorems.                                                           *)
(***************************************************************************)

\* The invariant holds in every reachable state, whatever the scheduling of
\* the talker, the runner and the application's threads.
THEOREM Invariance == Spec => []IInv
  <1>. QED  BY InitIInv, NextIInv, PTL DEF Spec

\* The variables keep their types: in particular talk() and resetTalkers()
\* index the vector of queues within its bounds (rosbridgeclient.cpp:74, 86).
THEOREM TypeCorrect == Spec => []TypeOK
  <1>1. IInv => TypeOK
    BY DEF IInv
  <1>. QED  BY <1>1, Invariance, PTL

\* talk() never calls front() or pop() on an empty queue, although empty(),
\* next() and pop() are three separate critical sections
\* (rosbridgeclient.cpp:77-79, queues.cpp:33-62).
THEOREM NeverUnderflows == Spec => []NoUnderflow
  <1>1. IInv => NoUnderflow
    BY DEF IInv
  <1>. QED  BY <1>1, Invariance, PTL

\* The sending half implements OrderedChannel: what talk() transmits for an
\* owner is never older than what it transmitted before and was pushed,
\* over overflows, resets and lost connections (rosbridgeclient.cpp:72-87).
THEOREM ImplementsOrderedChannel == Spec => InOrder
  <1>1. Init => Channel!Init
    BY DEF Init, Channel!Init
  <1>2. IInv /\ [Next]_vars => [Channel!Next]_(Channel!vars)
    <2>. SUFFICES ASSUME IInv, [Next]_vars PROVE [Channel!Next]_(Channel!vars)
      OBVIOUS
    <2>1. ASSUME NEW t \in Talkers, Push(t) \/ Destroy(t), PushMessage(t)
          PROVE  Channel!HandOver(t)
      BY <2>1 DEF Push, Destroy, PushMessage, serverVars, Channel!HandOver
    <2>2. ASSUME NEW t \in Talkers, Push(t) \/ Destroy(t)
          PROVE  PushMessage(t) \/ UNCHANGED Channel!vars
      BY <2>2 DEF Push, Destroy, serverVars, Channel!vars
    <2>3. CASE TalkSend
      <3>1. /\ TalkTo \in Talkers /\ pushed[TalkTo] \in Nat /\ talk_msg \in Nat
            /\ UNCHANGED pushed
        BY <2>3, TalkToType DEF IInv, TypeOK, TalkSend, clientVars
      <3>2. CASE UNCHANGED lastSent
        BY <3>1, <3>2 DEF Channel!vars
      <3>3. CASE talk_msg # HEAD_MSG /\ lastSent' = [lastSent EXCEPT ![TalkTo] = talk_msg]
        <4>1. lastSent[TalkTo] <= talk_msg /\ talk_msg <= pushed[TalkTo]
          BY <2>3, <3>1, <3>3, Zenon DEF IInv, Held, Holding, TalkSend
        <4>2. talk_msg \in 1 .. pushed[TalkTo] /\ talk_msg >= lastSent[TalkTo]
          BY <3>1, <3>3, <4>1, TalkToType, <2>3 DEF HEAD_MSG, TalkSend
        <4>3. Channel!Transmit(TalkTo)
          BY <3>1, <3>3, <4>2, Zenon DEF Channel!Transmit
        <4>. QED  BY <3>1, <4>3 DEF Channel!Next
      <3>. QED  BY <2>3, <3>2, <3>3 DEF TalkSend, Receive, serverVars
    <2>4. CASE \/ \E t \in Talkers : Attach(t)
               \/ TalkBegin \/ TalkActive \/ TalkEmpty \/ TalkNext \/ TalkCheck
               \/ TalkPop
      BY <2>4 DEF Attach, TalkBegin, TalkActive, TalkEmpty, TalkNext, TalkCheck, TalkPop,
                  clientVars, serverVars, Channel!vars
    <2>5. CASE \/ ResetBegin \/ ResetTalker \/ ResetDone
               \/ Reconnect \/ RunnerOther \/ ConnectionEvent \/ UserThrows
      BY <2>5 DEF ResetBegin, ResetTalker, ResetDone, Reconnect, RunnerOther,
                  ConnectionEvent, UserThrows, clientVars, serverVars, Channel!vars
    <2>6. CASE UNCHANGED vars
      BY <2>6 DEF vars, clientVars, serverVars, Channel!vars
    <2>. QED
      BY <2>1, <2>2, <2>3, <2>4, <2>5, <2>6 DEF Next, TalkSteps, Channel!Next
  <1>. QED  BY <1>1, <1>2, Invariance, PTL DEF Spec, InOrder, Channel!Spec

\* With what the client does left out, a step is one of Connection, or none.
LEMMA ClientStepsOfConnection == [Next]_vars => [ConnNext]_connVars
  <1>. SUFFICES ASSUME [Next]_vars PROVE [ConnNext]_connVars
    OBVIOUS
  <1>1. ASSUME NEW t \in Talkers, Attach(t) \/ Push(t) \/ Destroy(t)
        PROVE  UNCHANGED connVars
    BY <1>1 DEF Attach, Push, Destroy
  <1>2. CASE TalkSteps
    BY <1>2 DEF TalkSteps, TalkBegin, TalkActive, TalkEmpty, TalkNext, TalkCheck, TalkSend,
                TalkPop
  <1>3. CASE ResetBegin \/ ResetTalker \/ ResetDone
    BY <1>3 DEF ResetBegin, ResetTalker, ResetDone, ConnNext, RunnerSteps
  <1>4. CASE Reconnect \/ RunnerOther
    BY <1>4 DEF Reconnect, RunnerOther, ConnNext, RunnerSteps
  <1>5. CASE ConnectionEvent \/ UserThrows
    BY <1>5 DEF ConnectionEvent, UserThrows, ConnNext
  <1>6. CASE UNCHANGED vars
    BY <1>6 DEF vars
  <1>. QED  BY <1>1, <1>2, <1>3, <1>4, <1>5, <1>6 DEF Next

\* The safety half of ImplementsConnection: talk(), resetTalkers() and the
\* callbacks of the client do nothing to the runner thread and the websocket
\* that Connection does not (rosbridgeclient.cpp:25-27, 72-87).
THEOREM ClientImplementsConnectionSteps == Spec => ConnSafety
  <1>1. Init => ConnInit
    BY DEF Init
  <1>. QED  BY <1>1, ClientStepsOfConnection, PTL DEF Spec, ConnSafety

\* So the function objects through which talk() reaches the connection dangle,
\* and the end of a connection goes unreported, after an exception only.
THEOREM ClientInherits == Spec => []DanglingOnlyAfterThrow /\ []MissedOnlyByThrow
  BY ClientImplementsConnectionSteps, DanglingOnlyAfterThrowHolds, MissedOnlyByThrowHolds,
     PTL

=============================================================================
