-------------------------- MODULE ListenersProofs ---------------------------
(***************************************************************************)
(* Proofs about Listeners, for any owners, keys, queue sizes and arrivals: *)
(* what the callbacks get and in which order, that a listener thread never *)
(* meets an empty list, and what happens after a destructor has begun.     *)
(* First, about Messages: what a Serializer writes, listen() and           *)
(* Unserializer read as it was meant, for every id, every name of a topic  *)
(* or service, every payload.                                              *)
(***************************************************************************)
EXTENDS Listeners, TLAPS

-----------------------------------------------------------------------------
(***************************************************************************)
(* The two tables of op.cpp, each written out by hand, are inverse to each *)
(* other.                                                                  *)
(***************************************************************************)
LEMMA NamesReadBack ==
    ASSUME NEW op \in OP
    PROVE  stringToOP(to_string[op]) = op /\ to_string[op] # THROWS
  <1>1. CASE op = "ServiceAdvertiseOp"
    BY <1>1 DEF stringToOP, OPNames, to_string, THROWS
  <1>2. CASE op = "ServiceUnadvertiseOp"
    BY <1>2 DEF stringToOP, OPNames, to_string, THROWS
  <1>3. CASE op = "ServiceCallOp"
    BY <1>3 DEF stringToOP, OPNames, to_string, THROWS
  <1>4. CASE op = "ServiceResponseOp"
    BY <1>4 DEF stringToOP, OPNames, to_string, THROWS
  <1>5. CASE op = "TopicAdvertiseOp"
    BY <1>5 DEF stringToOP, OPNames, to_string, THROWS
  <1>6. CASE op = "TopicUnadvertiseOp"
    BY <1>6 DEF stringToOP, OPNames, to_string, THROWS
  <1>7. CASE op = "TopicSubscribeOp"
    BY <1>7 DEF stringToOP, OPNames, to_string, THROWS
  <1>8. CASE op = "TopicUnsubscribeOp"
    BY <1>8 DEF stringToOP, OPNames, to_string, THROWS
  <1>9. CASE op = "TopicPublishOp"
    BY <1>9 DEF stringToOP, OPNames, to_string, THROWS
  <1>10. CASE op = "InvalidOp"
    BY <1>10 DEF stringToOP, OPNames, to_string, THROWS
  <1> QED  BY <1>1, <1>2, <1>3, <1>4, <1>5, <1>6, <1>7, <1>8, <1>9, <1>10 DEF OP

\* type() of a message is the operation whose name op holds.
LEMMA TypeReadBack ==
    ASSUME NEW op \in OP, NEW m, Get(m, "op", "string") = to_string[op]
    PROVE  type(m) = op
  BY NamesReadBack DEF type

(***************************************************************************)
(* What the accessors and listen() make of the fields.                     *)
(***************************************************************************)
LEMMA DataAccessors ==
    ASSUME NEW m
    PROVE  /\ type(m) = "TopicPublishOp" =>
                 /\ Recipient(m) = Get(m, "topic", "string")
                 /\ payload(m) = Get(m, "msg", "object")
                 /\ result(m) = THROWS
           /\ type(m) = "ServiceCallOp" =>
                 /\ Recipient(m) = Get(m, "service", "string")
                 /\ payload(m) = Get(m, "args", "object")
                 /\ result(m) = THROWS
           /\ type(m) = "ServiceResponseOp" =>
                 /\ Recipient(m) = Get(m, "service", "string")
                 /\ payload(m) = Get(m, "values", "object")
                 /\ result(m) = Get(m, "result", "bool")
  BY DEF Recipient, payload, result, topic, service, isTopicOP, isServiceOP, THROWS

\* A declaration about a topic reaches no queue and carries its topic.
LEMMA TopicDeclarations ==
    ASSUME NEW m, NEW i, NEW k,
           NEW op \in {"TopicAdvertiseOp", "TopicUnadvertiseOp",
                       "TopicSubscribeOp", "TopicUnsubscribeOp"},
           type(m) = op, id(m) = i, Get(m, "topic", "string") = k
    PROVE  ReadAs(m, op, i, NOBODY, "{}") /\ topic(m) = k
  BY DEF ReadAs, Recipient, payload, topic, isTopicOP, THROWS

\* A declaration about a service reaches no queue and carries its service.
LEMMA ServiceDeclarations ==
    ASSUME NEW m, NEW i, NEW k,
           NEW op \in {"ServiceAdvertiseOp", "ServiceUnadvertiseOp"},
           type(m) = op, id(m) = i, Get(m, "service", "string") = k
    PROVE  ReadAs(m, op, i, NOBODY, "{}") /\ service(m) = k
  BY DEF ReadAs, Recipient, payload, service, isServiceOP, THROWS

(***************************************************************************)
(* The fields that a Serializer has set, one by one.                       *)
(***************************************************************************)
LEMMA TopicMessageFields ==
    ASSUME NEW i, NEW k, NEW p
    PROVE  LET m == SerializerTopicMessage(i, k, p)
           IN  /\ type(m) = "TopicPublishOp" /\ id(m) = i
               /\ Get(m, "topic", "string") = k
               /\ Get(m, "msg", "object") = p
  <1> DEFINE m == SerializerTopicMessage(i, k, p)
  <1>1. Get(m, "op", "string") = to_string["TopicPublishOp"]
    BY DEF SerializerTopicMessage, String, Object, Number, Boolean, Value, Null, THROWS,
           Get, Field
  <1>2. type(m) = "TopicPublishOp"
    BY <1>1, TypeReadBack DEF OP
  <1>3. id(m) = i
    BY DEF SerializerTopicMessage, id, String, Object, Number, Boolean, Value, Null, THROWS,
           Get, Field
  <1>4. Get(m, "topic", "string") = k /\ Get(m, "msg", "object") = p
    BY DEF SerializerTopicMessage, String, Object, Number, Boolean, Value, Null, THROWS,
           Get, Field
  <1> QED  BY <1>2, <1>3, <1>4

\* The fields of a request.
LEMMA ServiceRequestFields ==
    ASSUME NEW i, NEW k, NEW p
    PROVE  LET m == SerializerServiceRequest(i, k, p)
           IN  /\ type(m) = "ServiceCallOp" /\ id(m) = i
               /\ Get(m, "service", "string") = k
               /\ Get(m, "args", "object") = p
  <1> DEFINE m == SerializerServiceRequest(i, k, p)
  <1>1. Get(m, "op", "string") = to_string["ServiceCallOp"]
    BY DEF SerializerServiceRequest, String, Object, Number, Boolean, Value, Null, THROWS,
           Get, Field
  <1>2. type(m) = "ServiceCallOp"
    BY <1>1, TypeReadBack DEF OP
  <1>3. id(m) = i
    BY DEF SerializerServiceRequest, id, String, Object, Number, Boolean, Value, Null, THROWS,
           Get, Field
  <1>4. Get(m, "service", "string") = k /\ Get(m, "args", "object") = p
    BY DEF SerializerServiceRequest, String, Object, Number, Boolean, Value, Null, THROWS,
           Get, Field
  <1> QED  BY <1>2, <1>3, <1>4

\* The fields of a response.
LEMMA ServiceResponseFields ==
    ASSUME NEW i, NEW k, NEW p, NEW r
    PROVE  LET m == SerializerServiceResponse(i, k, p, r)
           IN  /\ type(m) = "ServiceResponseOp" /\ id(m) = i
               /\ Get(m, "service", "string") = k
               /\ Get(m, "values", "object") = p
               /\ Get(m, "result", "bool") = r
  <1> DEFINE m == SerializerServiceResponse(i, k, p, r)
  <1>1. Get(m, "op", "string") = to_string["ServiceResponseOp"]
    BY DEF SerializerServiceResponse, String, Object, Number, Boolean, Value, Null, THROWS,
           Get, Field
  <1>2. type(m) = "ServiceResponseOp"
    BY <1>1, TypeReadBack DEF OP
  <1>3. id(m) = i
    BY DEF SerializerServiceResponse, id, String, Object, Number, Boolean, Value, Null, THROWS,
           Get, Field
  <1>4. /\ Get(m, "service", "string") = k /\ Get(m, "values", "object") = p
        /\ Get(m, "result", "bool") = r
    BY DEF SerializerServiceResponse, String, Object, Number, Boolean, Value, Null, THROWS,
           Get, Field
  <1> QED  BY <1>2, <1>3, <1>4

\* What the constructor of a Publisher writes.
LEMMA TopicAdvertiseReadBack ==
    ASSUME NEW i, NEW k, NEW p
    PROVE  LET m == SerializerTopicAdvertise(i, k, p)
           IN  ReadAs(m, "TopicAdvertiseOp", i, NOBODY, "{}") /\ topic(m) = k
  <1> DEFINE m == SerializerTopicAdvertise(i, k, p)
  <1>1. Get(m, "op", "string") = to_string["TopicAdvertiseOp"]
    BY DEF SerializerTopicAdvertise, String, Object, Number, Boolean, Value, Null, THROWS,
           Get, Field
  <1>2. type(m) = "TopicAdvertiseOp"
    BY <1>1, TypeReadBack DEF OP
  <1>3. id(m) = i /\ Get(m, "topic", "string") = k
    BY DEF SerializerTopicAdvertise, id, String, Object, Number, Boolean, Value, Null, THROWS,
           Get, Field
  <1> HIDE DEF m
  <1>4. ReadAs(m, "TopicAdvertiseOp", i, NOBODY, "{}") /\ topic(m) = k
    BY <1>2, <1>3, TopicDeclarations
  <1> QED  BY <1>4 DEF m

\* What the destructor of a Publisher writes.
LEMMA TopicUnadvertiseReadBack ==
    ASSUME NEW i, NEW k
    PROVE  LET m == SerializerTopicUnadvertise(i, k)
           IN  ReadAs(m, "TopicUnadvertiseOp", i, NOBODY, "{}") /\ topic(m) = k
  <1> DEFINE m == SerializerTopicUnadvertise(i, k)
  <1>1. Get(m, "op", "string") = to_string["TopicUnadvertiseOp"]
    BY DEF SerializerTopicUnadvertise, String, Object, Number, Boolean, Value, Null, THROWS,
           Get, Field
  <1>2. type(m) = "TopicUnadvertiseOp"
    BY <1>1, TypeReadBack DEF OP
  <1>3. id(m) = i /\ Get(m, "topic", "string") = k
    BY DEF SerializerTopicUnadvertise, id, String, Object, Number, Boolean, Value, Null, THROWS,
           Get, Field
  <1> HIDE DEF m
  <1>4. ReadAs(m, "TopicUnadvertiseOp", i, NOBODY, "{}") /\ topic(m) = k
    BY <1>2, <1>3, TopicDeclarations
  <1> QED  BY <1>4 DEF m

\* What the constructor of a Subscriber writes.
LEMMA TopicSubscribeReadBack ==
    ASSUME NEW i, NEW k, NEW p
    PROVE  LET m == SerializerTopicSubscribe(i, k, p, p)
           IN  ReadAs(m, "TopicSubscribeOp", i, NOBODY, "{}") /\ topic(m) = k
  <1> DEFINE m == SerializerTopicSubscribe(i, k, p, p)
  <1>1. Get(m, "op", "string") = to_string["TopicSubscribeOp"]
    BY DEF SerializerTopicSubscribe, String, Object, Number, Boolean, Value, Null, THROWS,
           Get, Field
  <1>2. type(m) = "TopicSubscribeOp"
    BY <1>1, TypeReadBack DEF OP
  <1>3. id(m) = i /\ Get(m, "topic", "string") = k
    BY DEF SerializerTopicSubscribe, id, String, Object, Number, Boolean, Value, Null, THROWS,
           Get, Field
  <1> HIDE DEF m
  <1>4. ReadAs(m, "TopicSubscribeOp", i, NOBODY, "{}") /\ topic(m) = k
    BY <1>2, <1>3, TopicDeclarations
  <1> QED  BY <1>4 DEF m

\* What the destructor of a Subscriber writes.
LEMMA TopicUnsubscribeReadBack ==
    ASSUME NEW i, NEW k
    PROVE  LET m == SerializerTopicUnsubscribe(i, k)
           IN  ReadAs(m, "TopicUnsubscribeOp", i, NOBODY, "{}") /\ topic(m) = k
  <1> DEFINE m == SerializerTopicUnsubscribe(i, k)
  <1>1. Get(m, "op", "string") = to_string["TopicUnsubscribeOp"]
    BY DEF SerializerTopicUnsubscribe, String, Object, Number, Boolean, Value, Null, THROWS,
           Get, Field
  <1>2. type(m) = "TopicUnsubscribeOp"
    BY <1>1, TypeReadBack DEF OP
  <1>3. id(m) = i /\ Get(m, "topic", "string") = k
    BY DEF SerializerTopicUnsubscribe, id, String, Object, Number, Boolean, Value, Null, THROWS,
           Get, Field
  <1> HIDE DEF m
  <1>4. ReadAs(m, "TopicUnsubscribeOp", i, NOBODY, "{}") /\ topic(m) = k
    BY <1>2, <1>3, TopicDeclarations
  <1> QED  BY <1>4 DEF m

\* What the constructor of a ServiceServer writes.
LEMMA ServiceAdvertiseReadBack ==
    ASSUME NEW i, NEW k, NEW p
    PROVE  LET m == SerializerServiceAdvertise(i, k, p)
           IN  ReadAs(m, "ServiceAdvertiseOp", i, NOBODY, "{}") /\ service(m) = k
  <1> DEFINE m == SerializerServiceAdvertise(i, k, p)
  <1>1. Get(m, "op", "string") = to_string["ServiceAdvertiseOp"]
    BY DEF SerializerServiceAdvertise, String, Object, Number, Boolean, Value, Null, THROWS,
           Get, Field
  <1>2. type(m) = "ServiceAdvertiseOp"
    BY <1>1, TypeReadBack DEF OP
  <1>3. id(m) = i /\ Get(m, "service", "string") = k
    BY DEF SerializerServiceAdvertise, id, String, Object, Number, Boolean, Value, Null, THROWS,
           Get, Field
  <1> HIDE DEF m
  <1>4. ReadAs(m, "ServiceAdvertiseOp", i, NOBODY, "{}") /\ service(m) = k
    BY <1>2, <1>3, ServiceDeclarations
  <1> QED  BY <1>4 DEF m

\* What the destructor of a ServiceServer writes.
LEMMA ServiceUnadvertiseReadBack ==
    ASSUME NEW i, NEW k
    PROVE  LET m == SerializerServiceUnadvertise(i, k)
           IN  ReadAs(m, "ServiceUnadvertiseOp", i, NOBODY, "{}") /\ service(m) = k
  <1> DEFINE m == SerializerServiceUnadvertise(i, k)
  <1>1. Get(m, "op", "string") = to_string["ServiceUnadvertiseOp"]
    BY DEF SerializerServiceUnadvertise, String, Object, Number, Boolean, Value, Null, THROWS,
           Get, Field
  <1>2. type(m) = "ServiceUnadvertiseOp"
    BY <1>1, TypeReadBack DEF OP
  <1>3. id(m) = i /\ Get(m, "service", "string") = k
    BY DEF SerializerServiceUnadvertise, id, String, Object, Number, Boolean, Value, Null, THROWS,
           Get, Field
  <1> HIDE DEF m
  <1>4. ReadAs(m, "ServiceUnadvertiseOp", i, NOBODY, "{}") /\ service(m) = k
    BY <1>2, <1>3, ServiceDeclarations
  <1> QED  BY <1>4 DEF m

(***************************************************************************)
(* What follows from them for the accessors and for listen().              *)
(***************************************************************************)

\* Two clients understand each other (serializer.h, unserializer.h,
\* rosbridgeclient.cpp:51-70): a publish, a request and a response reach the
\* queues of their topic or service, and id(), payload() and result() return
\* what the other one wrote.
THEOREM DataIsReadBack ==
    \A i, k, p : DataReadBack(i, k, p)
  <1> SUFFICES ASSUME NEW i, NEW k, NEW p PROVE DataReadBack(i, k, p)
    OBVIOUS
  <1>1. LET m == SerializerTopicMessage(i, k, p)
        IN  ReadAs(m, "TopicPublishOp", i, k, p) /\ result(m) = THROWS
    BY TopicMessageFields, DataAccessors DEF ReadAs
  <1>2. LET m == SerializerServiceRequest(i, k, p)
        IN  ReadAs(m, "ServiceCallOp", i, k, p) /\ result(m) = THROWS
    BY ServiceRequestFields, DataAccessors DEF ReadAs
  <1>3. ASSUME NEW r \in {"true", "false"}
        PROVE  LET m == SerializerServiceResponse(i, k, p, r)
               IN  ReadAs(m, "ServiceResponseOp", i, k, p) /\ result(m) = r
    BY ServiceResponseFields, DataAccessors DEF ReadAs
  <1> QED  BY <1>1, <1>2, <1>3 DEF DataReadBack

\* The messages that declare an owner, or no longer, are read as what they
\* are and reach no queue, even if a server returned them to the client
\* (rosbridgeclient.cpp:69).
THEOREM DeclarationsAreReadBack ==
    \A i, k, p : DeclarationsReadBack(i, k, p)
  <1> SUFFICES ASSUME NEW i, NEW k, NEW p PROVE DeclarationsReadBack(i, k, p)
    OBVIOUS
  <1>1. LET m == SerializerTopicAdvertise(i, k, p)
        IN  ReadAs(m, "TopicAdvertiseOp", i, NOBODY, "{}") /\ topic(m) = k
    BY TopicAdvertiseReadBack
  <1>2. LET m == SerializerTopicUnadvertise(i, k)
        IN  ReadAs(m, "TopicUnadvertiseOp", i, NOBODY, "{}") /\ topic(m) = k
    BY TopicUnadvertiseReadBack
  <1>3. LET m == SerializerTopicSubscribe(i, k, p, p)
        IN  ReadAs(m, "TopicSubscribeOp", i, NOBODY, "{}") /\ topic(m) = k
    BY TopicSubscribeReadBack
  <1>4. LET m == SerializerTopicUnsubscribe(i, k)
        IN  ReadAs(m, "TopicUnsubscribeOp", i, NOBODY, "{}") /\ topic(m) = k
    BY TopicUnsubscribeReadBack
  <1>5. LET m == SerializerServiceAdvertise(i, k, p)
        IN  ReadAs(m, "ServiceAdvertiseOp", i, NOBODY, "{}") /\ service(m) = k
    BY ServiceAdvertiseReadBack
  <1>6. LET m == SerializerServiceUnadvertise(i, k)
        IN  ReadAs(m, "ServiceUnadvertiseOp", i, NOBODY, "{}") /\ service(m) = k
    BY ServiceUnadvertiseReadBack
  <1>7. LET m == Serializer("InvalidOp", i)
        IN  /\ ReadAs(m, "InvalidOp", i, NOBODY, "{}")
            /\ topic(m) = THROWS /\ service(m) = THROWS
    <2> DEFINE m == Serializer("InvalidOp", i)
    <2>1. Get(m, "op", "string") = to_string["InvalidOp"] /\ id(m) = i
      BY DEF Serializer, id, String, Value, Null, THROWS, Get, Field
    <2>2. type(m) = "InvalidOp"
      BY <2>1, TypeReadBack DEF OP
    <2> QED
      BY <2>1, <2>2
      DEF ReadAs, Recipient, payload, topic, service, isTopicOP, isServiceOP, THROWS
  <1> QED
    BY <1>1, <1>2, <1>3, <1>4, <1>5, <1>6, <1>7 DEF DeclarationsReadBack

-----------------------------------------------------------------------------
(***************************************************************************)
(* The inductive invariant.                                                *)
(***************************************************************************)

\* An owner is in the vector of its key, once, when it has been constructed.
Vectors ==
    /\ \A k \in Keys : \A p \in 1 .. Len(listeners[k]) :
          Key[listeners[k][p]] = k /\ life[listeners[k][p]] # "none"
    /\ \A k \in Keys : \A p, r \in 1 .. Len(listeners[k]) :
          listeners[k][p] = listeners[k][r] => p = r
    /\ \A o \in Owners : life[o] # "none" =>
          \E p \in 1 .. Len(listeners[Key[o]]) : listeners[Key[o]][p] = o

\* The loop of listen() stays within the vector, which only grows, and is about
\* the last message that arrived for the key.
Round ==
    /\ \A k \in Keys : arrived[k] <= MaxArrivals
    /\ dispatch.active =>
          /\ dispatch.end <= Len(listeners[dispatch.key])
          /\ dispatch.msg.n = arrived[dispatch.key]

\* The loop of listen() is under way and will come to o.
Pending(o) ==
    /\ dispatch.active
    /\ \E p \in dispatch.i .. dispatch.end : listeners[dispatch.key][p] = o

Delivered(o) == IF Pending(o) THEN arrived[Key[o]] - 1 ELSE arrived[Key[o]]

\* The message before the front of the queue.
Before(o) == Delivered(o) - Len(lq[o])

\* The elements are the messages after number b.
Follows(q, b) == \A j \in 1 .. Len(q) : q[j].n = b + j

\* A queue holds the last messages delivered, no more than its bound.
Contents(o) ==
    Len(lq[o]) <= AsSizeT(LQSize[o]) /\ Follows(lq[o], Before(o))

Lives(o) ==
    /\ life[o] = "none" => thread[o] = "none" /\ lq[o] = << >> /\ outbox[o] = << >>
    /\ life[o] # "none" => thread[o] # "none"
    /\ life[o] = "destroyed" => thread[o] = "exited"
    /\ thread[o] = "exited" => life[o] \in {"closing", "joining", "destroyed"}

Roomy(o) == AsSizeT(LQSize[o]) >= MaxArrivals

\* What an owner has taken is before the front, or at it until the pop(); with
\* room for everything, just before it.
Progress(o) ==
    /\ thread[o] \in {"loop", "check", "next", "exited"} =>
          called[o] <= Before(o) /\ (Roomy(o) => called[o] = Before(o))
    /\ thread[o] = "call" =>
          /\ called[o] < held[o].n /\ held[o].n <= Before(o) + 1
          /\ Roomy(o) => (held[o].n = called[o] + 1 /\ held[o].n = Before(o) + 1)
    /\ thread[o] \in {"busy", "pop"} =>
          /\ called[o] = held[o].n /\ held[o].n <= Before(o) + 1
          /\ Roomy(o) => held[o].n = Before(o) + 1
    /\ thread[o] \in {"call", "busy", "pop"} => held[o].n > 0

\* A thread that has begun a callback after the destructor does not get to
\* another one.
Late(o) ==
    /\ life[o] \in {"none", "live"} => late[o] = 0
    /\ late[o] <= 1
    /\ late[o] = 1 => thread[o] \in {"busy", "pop", "loop", "exited"}

\* The answers sent are to messages taken; the farewell is the last message
\* but for one answer, after which the thread does not get to another one.
Answers(o) ==
    /\ \A i \in 1 .. Len(outbox[o]) :
          /\ outbox[o][i] <= called[o]
          /\ thread[o] = "busy" => outbox[o][i] < called[o]
          /\ outbox[o][i] = FAREWELL => life[o] \in {"joining", "destroyed"}
          /\ (outbox[o][i] = FAREWELL /\ i # Len(outbox[o])) =>
                (i = Len(outbox[o]) - 1 /\ thread[o] \in {"pop", "loop", "exited"})
    /\ \A i, j \in 1 .. Len(outbox[o]) :
          (i < j /\ outbox[o][j] # FAREWELL) => outbox[o][i] < outbox[o][j]

OwnerInv(o) ==
    Lives(o) /\ Contents(o) /\ Progress(o) /\ Late(o) /\ Answers(o)

RInv ==
    /\ TypeOK
    /\ Vectors
    /\ Round
    /\ NoUnderflow
    /\ \A o \in Owners : OwnerInv(o)

-----------------------------------------------------------------------------
(***************************************************************************)
(* Queues.                                                                 *)
(***************************************************************************)

\* The constants, and what may arrive.
LEMMA Constants ==
    /\ \A o \in Owners : Key[o] \in Keys /\ LQSize[o] \in Int /\ AsSizeT(LQSize[o]) \in Nat
    /\ MaxArrivals \in Nat
    /\ DOMAIN Incoming = 1 .. MaxArrivals
    /\ SizeModulus \in Nat
  <1>1. \A o \in Owners : Key[o] \in Keys /\ LQSize[o] \in Int
    BY ListenersAssumption DEF Keys
  <1>2. \A n \in Int : AsSizeT(n) \in Nat
    BY SizeModulusAssumption DEF AsSizeT
  <1>3. MaxArrivals \in Nat /\ DOMAIN Incoming = 1 .. MaxArrivals
    BY ListenersAssumption DEF MaxArrivals
  <1>. QED  BY <1>1, <1>2, <1>3, SizeModulusAssumption

\* Messages have positive numbers, NoMessage has none.
LEMMA MessageNumbers ==
    /\ \A m \in Messages : m.n \in Nat /\ m.n > 0
    /\ NoMessage.n = 0
  <1>1. ASSUME NEW m \in Messages PROVE m.n \in Nat /\ m.n > 0
    <2>1. PICK n \in DOMAIN Incoming : m \in {Numbered(n, x) : x \in Incoming[n]}
      BY <1>1 DEF Messages
    <2>2. n \in Nat /\ n > 0
      BY Constants
    <2>. QED  BY <2>1, <2>2 DEF Numbered
  <1>. QED  BY <1>1 DEF NoMessage, Numbered

\* The call of listen() in progress.
LEMMA DispatchTypes ==
    ASSUME TypeOK, dispatch.active
    PROVE  /\ dispatch.key \in Keys /\ dispatch.msg \in Messages
           /\ dispatch.i \in Nat /\ dispatch.i > 0 /\ dispatch.end \in Nat
           /\ dispatch \in [active : {TRUE}, key : Keys, msg : Messages,
                            i : Nat \ {0}, end : Nat]
  <1>1. dispatch # Idle
    BY DEF Idle
  <1>2. dispatch \in [active : {TRUE}, key : Keys, msg : Messages, i : Nat \ {0}, end : Nat]
    BY <1>1 DEF TypeOK
  <1>3. dispatch.key \in Keys /\ dispatch.msg \in Messages
    BY <1>2
  <1>4. dispatch.i \in Nat \ {0} /\ dispatch.end \in Nat
    BY <1>2
  <1>5. dispatch.i > 0
    BY <1>4
  <1>. QED  BY <1>2, <1>3, <1>4, <1>5

\* What arrives is a message.
LEMMA ArrivalIsMessage ==
    ASSUME NEW n \in Nat, n < MaxArrivals, NEW m \in Incoming[n + 1]
    PROVE  Numbered(n + 1, m) \in Messages /\ Numbered(n + 1, m).n = n + 1
  <1>1. n + 1 \in DOMAIN Incoming
    BY Constants
  <1>. QED  BY <1>1 DEF Messages, Numbered

\* A push of the next message keeps the last messages, as many as fit; it
\* empties no list that held one.
LEMMA PushFollows ==
    ASSUME NEW q \in Seq(Messages), NEW size \in Int, NEW b \in Int, NEW m \in Messages,
           Len(q) <= AsSizeT(size), Follows(q, b), m.n = b + Len(q) + 1
    PROVE  LET r == LQPush(q, size, m) IN
           /\ r \in Seq(Messages)
           /\ Len(r) = IF Len(q) + 1 <= AsSizeT(size) THEN Len(q) + 1 ELSE AsSizeT(size)
           /\ Follows(r, m.n - Len(r))
           /\ q # << >> => r # << >>
  <1>. DEFINE a == Append(q, m)
              n == AsSizeT(size)
              r == DropOldest(a, n)
  <1>1. n \in Nat
    BY SizeModulusAssumption DEF AsSizeT
  <1>2. /\ a \in Seq(Messages) /\ Len(a) = Len(q) + 1 /\ Len(q) \in Nat
        /\ a[Len(q) + 1] = m
        /\ \A j \in 1 .. Len(q) : a[j] = q[j]
    OBVIOUS
  <1>. HIDE DEF a, n
  <1>3. Follows(a, b)
    <2>1. ASSUME NEW j \in 1 .. Len(a) PROVE a[j].n = b + j
      <3>1. CASE j = Len(q) + 1
        BY <1>2, <3>1
      <3>2. CASE j \in 1 .. Len(q)
        BY <1>2, <3>2 DEF Follows
      <3>. QED  BY <1>2, <3>1, <3>2
    <2>. QED  BY <2>1 DEF Follows
  <1>4. CASE Len(a) > n
    <2>1. r = SubSeq(a, Len(a) - n + 1, Len(a))
      BY <1>4 DEF DropOldest
    <2>2. /\ r \in Seq(Messages) /\ Len(r) = n
          /\ \A j \in 1 .. n : r[j] = a[Len(a) - n + j]
      BY <1>1, <1>2, <1>4, <2>1
    <2>. HIDE DEF r
    <2>3. \A j \in 1 .. n : r[j].n = b + Len(a) - n + j
      <3>. SUFFICES ASSUME NEW j \in 1 .. n PROVE r[j].n = b + Len(a) - n + j
        OBVIOUS
      <3>1. Len(a) - n + j \in 1 .. Len(a)
        BY <1>1, <1>2, <1>4
      <3>2. a[Len(a) - n + j].n = b + (Len(a) - n + j)
        BY <1>3, <3>1 DEF Follows
      <3>. QED  BY <1>1, <1>2, <2>2, <3>2
    <2>4. Follows(r, m.n - Len(r))
      BY <1>1, <1>2, <2>2, <2>3 DEF Follows
    <2>5. q # << >> => r # << >>
      <3>1. q # << >> => Len(q) >= 1
        BY <1>2
      <3>. QED  BY <1>1, <1>2, <1>4, <2>2, <3>1 DEF n
    <2>. QED  BY <1>1, <1>2, <1>4, <2>2, <2>4, <2>5 DEF LQPush, r, a, n
  <1>5. CASE ~(Len(a) > n)
    <2>1. r = a
      BY <1>5 DEF DropOldest
    <2>2. Follows(r, m.n - Len(r))
      <3>1. m.n - Len(a) = b
        BY <1>2
      <3>. QED  BY <1>3, <2>1, <3>1
    <2>3. r # << >>
      BY <1>2, <2>1
    <2>. QED  BY <1>1, <1>2, <1>5, <2>1, <2>2, <2>3 DEF LQPush, a, n
  <1>. QED  BY <1>4, <1>5

\* A pop takes the front, which is the message after number b.
LEMMA PopFollows ==
    ASSUME NEW q \in Seq(Messages), NEW b \in Int, Follows(q, b), ~LQEmpty(q)
    PROVE  /\ LQNext(q) \in Messages /\ LQNext(q).n = b + 1
           /\ LQPop(q) \in Seq(Messages)
           /\ Len(q) > 0 /\ Len(LQPop(q)) = Len(q) - 1
           /\ Follows(LQPop(q), b + 1)
  <1>1. /\ Len(q) \in Nat /\ Len(q) > 0
        /\ Head(q) = q[1] /\ Head(q) \in Messages
        /\ Tail(q) \in Seq(Messages) /\ Len(Tail(q)) = Len(q) - 1
        /\ \A j \in 1 .. Len(Tail(q)) : Tail(q)[j] = q[j + 1]
    BY DEF LQEmpty
  <1>2. q[1].n = b + 1
    BY <1>1 DEF Follows
  <1>3. Follows(Tail(q), b + 1)
    <2>. SUFFICES ASSUME NEW j \in 1 .. Len(Tail(q)) PROVE Tail(q)[j].n = b + 1 + j
      BY DEF Follows
    <2>1. j + 1 \in 1 .. Len(q) /\ j \in Nat
      BY <1>1
    <2>2. q[j + 1].n = b + (j + 1)
      BY <2>1 DEF Follows
    <2>. QED  BY <1>1, <2>1, <2>2
  <1>. QED  BY <1>1, <1>2, <1>3 DEF LQNext, LQPop

-----------------------------------------------------------------------------
(***************************************************************************)
(* The steps.                                                              *)
(***************************************************************************)

\* The invariant holds initially.
LEMMA InitRInv == Init => RInv
  <1>. SUFFICES ASSUME Init PROVE RInv
    OBVIOUS
  <1>. USE DEF Init, NewListenerQueue
  <1>1. TypeOK
    <2>1. terminated \in BOOLEAN /\ dispatch \in {Idle}
      BY Zenon
    <2>2. /\ life \in [Owners -> LifeStates] /\ thread \in [Owners -> ThreadStates]
      BY DEF LifeStates, ThreadStates
    <2>3. /\ listeners \in [Keys -> Seq(Owners)] /\ lq \in [Owners -> Seq(Messages)]
          /\ outbox \in [Owners -> Seq(Nat)] /\ held \in [Owners -> Messages \cup {NoMessage}]
      OBVIOUS
    <2>4. /\ arrived \in [Keys -> Nat] /\ called \in [Owners -> Nat]
          /\ late \in [Owners -> Nat]
      OBVIOUS
    <2>. QED  BY <2>1, <2>2, <2>3, <2>4 DEF TypeOK
  <1>2. Vectors /\ Round
    <2>1. \A k \in Keys : Len(listeners[k]) = 0
      OBVIOUS
    <2>2. ~dispatch.active
      BY DEF Idle
    <2>3. \A k \in Keys : arrived[k] <= MaxArrivals
      BY Constants
    <2>. QED  BY <2>1, <2>2, <2>3 DEF Vectors, Round
  <1>3. NoUnderflow
    BY DEF NoUnderflow
  <1>4. ASSUME NEW o \in Owners PROVE OwnerInv(o)
    <2>1. Len(lq[o]) = 0 /\ Len(outbox[o]) = 0 /\ lq[o] = << >> /\ outbox[o] = << >>
      OBVIOUS
    <2>2. Contents(o)
      BY <2>1, Constants DEF Contents, Follows
    <2>3. Lives(o) /\ Progress(o) /\ Late(o)
      BY <2>1 DEF Lives, Progress, Late
    <2>4. Answers(o)
      BY <2>1 DEF Answers
    <2>. QED  BY <2>2, <2>3, <2>4 DEF OwnerInv
  <1>. QED  BY <1>1, <1>2, <1>3, <1>4 DEF RInv

\* An owner that a step does not concern keeps its invariant.
LEMMA OtherOwner ==
    ASSUME NEW p \in Owners, OwnerInv(p), Delivered(p)' = Delivered(p),
           lq'[p] = lq[p], life'[p] = life[p], thread'[p] = thread[p],
           held'[p] = held[p], outbox'[p] = outbox[p], called'[p] = called[p],
           late'[p] = late[p]
    PROVE  OwnerInv(p)'
  <1>1. Before(p)' = Before(p)
    BY DEF Before
  <1>2. Lives(p)' /\ Late(p)'
    BY DEF OwnerInv, Lives, Late
  <1>3. Contents(p)'
    BY <1>1 DEF OwnerInv, Contents, Follows
  <1>4. Progress(p)'
    BY <1>1 DEF OwnerInv, Progress, Roomy
  <1>5. Answers(p)'
    BY DEF OwnerInv, Answers
  <1>. QED  BY <1>2, <1>3, <1>4, <1>5 DEF OwnerInv

\* Where listen() is concerns no step of the owners.
LEMMA ListenUndisturbed ==
    ASSUME RInv, UNCHANGED <<listeners, dispatch, arrived>>,
           \A o \in Owners : life[o] = "none" <=> life'[o] = "none"
    PROVE  /\ Vectors' /\ Round'
           /\ \A p \in Owners : Delivered(p)' = Delivered(p)
  <1>1. Vectors'
    <2>1. \A k \in Keys : \A p \in 1 .. Len(listeners[k]) : listeners[k][p] \in Owners
      BY DEF RInv, TypeOK
    <2>. QED  BY <2>1 DEF RInv, Vectors
  <1>2. Round' /\ \A p \in Owners : Delivered(p)' = Delivered(p)
    BY DEF RInv, Round, Delivered, Pending
  <1>. QED  BY <1>1, <1>2

\* The numbers that the invariant compares.
LEMMA Numbers ==
    ASSUME RInv, NEW o \in Owners
    PROVE  /\ Delivered(o) \in Int /\ Before(o) \in Int /\ Len(lq[o]) \in Nat
           /\ called[o] \in Nat /\ held[o].n \in Nat /\ late[o] \in Nat
           /\ outbox[o] \in Seq(Nat) /\ lq[o] \in Seq(Messages)
           /\ arrived[Key[o]] \in Nat
  <1>1. /\ called[o] \in Nat /\ late[o] \in Nat
        /\ outbox[o] \in Seq(Nat) /\ lq[o] \in Seq(Messages)
        /\ held[o] \in Messages \cup {NoMessage}
        /\ arrived[Key[o]] \in Nat
    BY Constants DEF RInv, TypeOK
  <1>2. held[o].n \in Nat
    BY <1>1, MessageNumbers
  <1>. QED  BY <1>1, <1>2 DEF Delivered, Before

\* A step of the thread of o that leaves its queue alone: it suffices to look
\* at the owner itself.
LEMMA ThreadStepFrame ==
    ASSUME RInv, NEW o \in Owners,
           UNCHANGED <<listeners, lq, life, dispatch, arrived>>,
           \A p \in Owners : p # o =>
               /\ thread'[p] = thread[p] /\ held'[p] = held[p] /\ outbox'[p] = outbox[p]
               /\ called'[p] = called[p] /\ late'[p] = late[p],
           TypeOK', thread'[o] \in {"next", "call", "busy", "pop"} => ~LQEmpty(lq[o]),
           Delivered(o)' = Delivered(o) => OwnerInv(o)'
    PROVE  RInv'
  <1>1. /\ Vectors' /\ Round'
        /\ \A p \in Owners : Delivered(p)' = Delivered(p)
    BY ListenUndisturbed
  <1>2. \A p \in Owners : p # o => OwnerInv(p)'
    BY <1>1, OtherOwner DEF RInv
  <1>3. NoUnderflow'
    BY DEF RInv, NoUnderflow, LQEmpty
  <1>. QED  BY <1>1, <1>2, <1>3 DEF RInv

\* The test of the flag and of the queue.
LEMMA TestPreserves ==
    ASSUME RInv, NEW o \in Owners, Test(o) \/ Check(o) PROVE RInv'
  <1>. USE DEF Test, Check, Goto
  <1>1. TypeOK'
    BY DEF RInv, TypeOK, ThreadStates
  <1>2. /\ thread[o] \in {"loop", "check"} /\ thread'[o] \in {"exited", "check", "loop", "next"}
        /\ thread'[o] = "exited" =>
              (thread[o] = "loop" /\ life[o] \in {"closing", "joining"})
        /\ thread'[o] = "next" => ~LQEmpty(lq[o])
        /\ thread[o] = "loop" => thread'[o] \in {"exited", "check"}
        /\ thread[o] = "check" => thread'[o] \in {"loop", "next"}
        /\ (thread[o] = "loop" /\ life[o] \in {"closing", "joining"}) => thread'[o] = "exited"
    BY DEF RInv, TypeOK
  <1>3. /\ UNCHANGED <<listeners, lq, life, held, outbox, dispatch, arrived, called, late>>
        /\ \A p \in Owners : p # o => thread'[p] = thread[p]
    BY DEF RInv, TypeOK
  <1>4. ASSUME Delivered(o)' = Delivered(o) PROVE OwnerInv(o)'
    <2>1. OwnerInv(o) /\ Before(o)' = Before(o) /\ life[o] \in LifeStates
      BY <1>3, <1>4 DEF RInv, Before, TypeOK
    <2>2. Lives(o)' /\ Contents(o)' /\ Progress(o)'
      BY <1>2, <1>3, <2>1 DEF OwnerInv, Lives, Contents, Follows, Progress, Roomy, LifeStates
    <2>3. Late(o)'
      BY <1>2, <1>3, <2>1 DEF OwnerInv, Lives, Late, LifeStates
    <2>4. Answers(o)'
      BY <1>2, <1>3, <2>1 DEF OwnerInv, Lives, Answers, LifeStates
    <2>. QED  BY <2>2, <2>3, <2>4 DEF OwnerInv
  <1>. QED  BY <1>1, <1>2, <1>3, <1>4, ThreadStepFrame

\* next().
LEMMA FetchPreserves ==
    ASSUME RInv, NEW o \in Owners, Fetch(o) PROVE RInv'
  <1>. USE DEF Fetch, Goto
  <1>1. ~LQEmpty(lq[o])
    BY DEF RInv, NoUnderflow
  <1>2. OwnerInv(o)
    BY DEF RInv
  <1>3. LQNext(lq[o]) \in Messages /\ LQNext(lq[o]).n = Before(o) + 1
    BY <1>1, <1>2, Numbers, PopFollows DEF OwnerInv, Contents
  <1>4. TypeOK'
    BY <1>3 DEF RInv, TypeOK, ThreadStates
  <1>5. /\ thread[o] = "next" /\ thread'[o] = "call" /\ held'[o] = LQNext(lq[o])
        /\ UNCHANGED <<listeners, lq, life, outbox, dispatch, arrived, called, late>>
        /\ \A p \in Owners : p # o => thread'[p] = thread[p] /\ held'[p] = held[p]
    BY DEF RInv, TypeOK
  <1>6. ASSUME Delivered(o)' = Delivered(o) PROVE OwnerInv(o)'
    <2>1. Before(o)' = Before(o)
      BY <1>5, <1>6 DEF Before
    <2>2. Lives(o)' /\ Contents(o)' /\ Late(o)' /\ Answers(o)'
      BY <1>2, <1>5, <2>1, Numbers DEF OwnerInv, Lives, Contents, Follows, Late, Answers
    <2>3. Progress(o)'
      BY <1>2, <1>3, <1>5, <2>1, Numbers, MessageNumbers DEF OwnerInv, Progress, Roomy
    <2>. QED  BY <2>2, <2>3 DEF OwnerInv
  <1>. QED  BY <1>1, <1>4, <1>5, <1>6, ThreadStepFrame

\* payload() and the callback.
LEMMA CallbackBeginsPreserves ==
    ASSUME RInv, NEW o \in Owners, CallbackBegins(o) PROVE RInv'
  <1>. USE DEF CallbackBegins, Goto
  <1>1. OwnerInv(o) /\ ~LQEmpty(lq[o])
    BY DEF RInv, NoUnderflow
  <1>2. TypeOK'
    <2>1. held[o].n \in Nat /\ late[o] \in Nat
      BY Numbers
    <2>2. called' \in [Owners -> Nat] /\ late' \in [Owners -> Nat]
      BY <2>1 DEF RInv, TypeOK
    <2>3. thread' \in [Owners -> ThreadStates]
      BY DEF RInv, TypeOK, ThreadStates
    <2>. QED  BY <2>2, <2>3 DEF RInv, TypeOK
  <1>3. /\ thread[o] = "call" /\ thread'[o] = "busy" /\ called'[o] = held[o].n
        /\ late'[o] = IF life[o] = "live" THEN late[o] ELSE late[o] + 1
        /\ UNCHANGED <<listeners, lq, life, held, outbox, dispatch, arrived>>
        /\ \A p \in Owners : p # o =>
              thread'[p] = thread[p] /\ called'[p] = called[p] /\ late'[p] = late[p]
    <2>1. /\ thread \in [Owners -> ThreadStates] /\ called \in [Owners -> Nat]
          /\ late \in [Owners -> Nat]
      BY DEF RInv, TypeOK
    <2>. QED  BY <2>1
  <1>4. ASSUME Delivered(o)' = Delivered(o) PROVE OwnerInv(o)'
    <2>1. Before(o)' = Before(o)
      BY <1>3, <1>4 DEF Before
    <2>2. Lives(o)' /\ Contents(o)'
      BY <1>1, <1>3, <2>1 DEF OwnerInv, Lives, Contents, Follows
    <2>3. Late(o)'
      BY <1>1, <1>3, Numbers DEF OwnerInv, Lives, Late
    <2>4. Progress(o)'
      BY <1>1, <1>3, <2>1 DEF OwnerInv, Progress, Roomy
    <2>5. called[o] < called'[o]
      BY <1>1, <1>3 DEF OwnerInv, Progress
    <2>6. \A i \in 1 .. Len(outbox[o]) : outbox[o][i] < called'[o]
      BY SMTT(30), <1>1, <1>3, <2>5, Numbers DEF OwnerInv, Answers
    <2>7. Answers(o)'
      BY <1>1, <1>3, <2>6, Numbers DEF OwnerInv, Answers
    <2>. QED  BY <2>2, <2>3, <2>4, <2>7 DEF OwnerInv
  <1>. QED  BY <1>1, <1>2, <1>3, <1>4, ThreadStepFrame

\* The callback returns, and a ServiceServer answers.
LEMMA CallbackReturnsPreserves ==
    ASSUME RInv, NEW o \in Owners, CallbackReturns(o) PROVE RInv'
  <1>. USE DEF CallbackReturns, Goto
  <1>1. OwnerInv(o) /\ ~LQEmpty(lq[o]) /\ held[o].n \in Nat /\ outbox[o] \in Seq(Nat)
    BY Numbers DEF RInv, NoUnderflow
  <1>2. TypeOK'
    <2>1. outbox' \in [Owners -> Seq(Nat)]
      BY <1>1 DEF RInv, TypeOK
    <2>. QED  BY <2>1 DEF RInv, TypeOK, ThreadStates
  <1>3. /\ thread[o] = "busy" /\ thread'[o] = "pop"
        /\ outbox'[o] = outbox[o] \/ outbox'[o] = Append(outbox[o], held[o].n)
        /\ UNCHANGED <<listeners, lq, life, held, dispatch, arrived, called, late>>
        /\ \A p \in Owners : p # o => thread'[p] = thread[p] /\ outbox'[p] = outbox[p]
    <2>1. thread \in [Owners -> ThreadStates] /\ outbox \in [Owners -> Seq(Nat)]
      BY DEF RInv, TypeOK
    <2>. QED  BY <2>1
  <1>4. ASSUME Delivered(o)' = Delivered(o) PROVE OwnerInv(o)'
    <2>1. Before(o)' = Before(o)
      BY <1>3, <1>4 DEF Before
    <2>2. Contents(o)' /\ Late(o)' /\ Progress(o)'
      BY <1>1, <1>3, <2>1 DEF OwnerInv, Contents, Follows, Late, Progress, Roomy
    <2>3. Lives(o)'
      BY <1>1, <1>3 DEF OwnerInv, Lives
    <2>4. /\ called[o] = held[o].n /\ held[o].n > 0
          /\ \A i \in 1 .. Len(outbox[o]) : outbox[o][i] < held[o].n
          /\ \A i \in 1 .. Len(outbox[o]) : outbox[o][i] = FAREWELL => i = Len(outbox[o])
      BY <1>1, <1>3 DEF OwnerInv, Progress, Answers
    <2>5. CASE outbox'[o] = outbox[o]
      BY ZenonT(30), <1>1, <1>3, <2>2, <2>3, <2>5 DEF OwnerInv, Answers
    <2>6. CASE outbox'[o] = Append(outbox[o], held[o].n)
      <3>1. /\ Len(outbox'[o]) = Len(outbox[o]) + 1
            /\ outbox'[o][Len(outbox[o]) + 1] = held[o].n
            /\ \A i \in 1 .. Len(outbox[o]) : outbox'[o][i] = outbox[o][i]
            /\ Len(outbox[o]) \in Nat
        BY <1>1, <2>6
      <3>2. ASSUME NEW i \in 1 .. Len(outbox'[o])
            PROVE  /\ outbox'[o][i] <= called'[o]
                   /\ outbox'[o][i] = FAREWELL => life'[o] \in {"joining", "destroyed"}
                   /\ (outbox'[o][i] = FAREWELL /\ i # Len(outbox'[o])) =>
                         i = Len(outbox'[o]) - 1
        <4>1. CASE i = Len(outbox[o]) + 1
          BY <1>1, <1>3, <2>4, <3>1, <4>1 DEF FAREWELL
        <4>2. CASE i \in 1 .. Len(outbox[o])
          BY <1>1, <1>3, <2>4, <3>1, <4>2 DEF OwnerInv, Answers
        <4>. QED  BY <3>1, <4>1, <4>2
      <3>3. ASSUME NEW i \in 1 .. Len(outbox'[o]), NEW j \in 1 .. Len(outbox'[o]), i < j,
                   outbox'[o][j] # FAREWELL
            PROVE  outbox'[o][i] < outbox'[o][j]
        <4>1. i \in 1 .. Len(outbox[o])
          BY <3>1, <3>3
        <4>2. CASE j = Len(outbox[o]) + 1
          BY <2>4, <3>1, <4>1, <4>2
        <4>3. CASE j \in 1 .. Len(outbox[o])
          BY <1>1, <3>1, <3>3, <4>1, <4>3 DEF OwnerInv, Answers
        <4>. QED  BY <3>1, <4>2, <4>3
      <3>4. Answers(o)'
        BY <1>3, <3>2, <3>3 DEF Answers
      <3>. QED  BY <2>2, <2>3, <3>4 DEF OwnerInv
    <2>. QED  BY <1>3, <2>5, <2>6
  <1>. QED  BY <1>1, <1>2, <1>3, <1>4, ThreadStepFrame

\* payload() or the callback throws.
LEMMA ThrowsPreserves ==
    ASSUME RInv, NEW o \in Owners, Throws(o) PROVE RInv'
  <1>. USE DEF Throws, Goto
  <1>1. OwnerInv(o) /\ ~LQEmpty(lq[o]) /\ held[o].n \in Nat
    BY Numbers DEF RInv, NoUnderflow
  <1>2. TypeOK'
    <2>1. thread' \in [Owners -> ThreadStates] /\ called' \in [Owners -> Nat]
      BY <1>1 DEF RInv, TypeOK, ThreadStates
    <2>2. terminated' \in BOOLEAN
      BY Zenon DEF RInv, TypeOK
    <2>. QED  BY <2>1, <2>2 DEF RInv, TypeOK
  <1>3. /\ thread[o] \in {"call", "busy"}
        /\ \/ thread'[o] = "pop" /\ called'[o] = held[o].n
           \/ thread'[o] = thread[o] /\ called'[o] = called[o]
        /\ UNCHANGED <<listeners, lq, life, held, outbox, dispatch, arrived, late>>
        /\ \A p \in Owners : p # o => thread'[p] = thread[p] /\ called'[p] = called[p]
    <2>1. thread \in [Owners -> ThreadStates] /\ called \in [Owners -> Nat]
      BY DEF RInv, TypeOK
    <2>. QED  BY <2>1
  <1>4. ASSUME Delivered(o)' = Delivered(o) PROVE OwnerInv(o)'
    <2>1. Before(o)' = Before(o)
      BY <1>3, <1>4 DEF Before
    <2>2. Contents(o)' /\ Progress(o)'
      BY <1>1, <1>3, <2>1, Numbers DEF OwnerInv, Contents, Follows, Progress, Roomy
    <2>3. Lives(o)' /\ Late(o)'
      BY <1>1, <1>3 DEF OwnerInv, Lives, Late
    <2>4. called[o] <= called'[o]
      BY <1>1, <1>3, Numbers DEF OwnerInv, Progress
    <2>5. Answers(o)'
      BY SMTT(30), <1>1, <1>3, <2>4, Numbers DEF OwnerInv, Answers
    <2>. QED  BY <2>2, <2>3, <2>5 DEF OwnerInv
  <1>. QED  BY <1>1, <1>2, <1>3, <1>4, ThreadStepFrame

\* pop().
LEMMA PopPreserves ==
    ASSUME RInv, NEW o \in Owners, Pop(o) PROVE RInv'
  <1>. USE DEF Pop, Goto
  <1>1. OwnerInv(o) /\ ~LQEmpty(lq[o])
    BY DEF RInv, NoUnderflow
  <1>2. /\ LQPop(lq[o]) \in Seq(Messages)
        /\ Len(lq[o]) > 0 /\ Len(LQPop(lq[o])) = Len(lq[o]) - 1
        /\ Follows(LQPop(lq[o]), Before(o) + 1)
    BY <1>1, Numbers, PopFollows DEF OwnerInv, Contents
  <1>3. TypeOK'
    BY <1>2 DEF RInv, TypeOK, ThreadStates
  <1>4. /\ thread[o] = "pop" /\ thread'[o] = "loop" /\ lq'[o] = LQPop(lq[o])
        /\ UNCHANGED <<listeners, life, outbox, dispatch, arrived, called, late>>
        /\ \A p \in Owners : p # o =>
              thread'[p] = thread[p] /\ lq'[p] = lq[p] /\ held'[p] = held[p]
    <2>1. /\ thread \in [Owners -> ThreadStates] /\ lq \in [Owners -> Seq(Messages)]
          /\ held \in [Owners -> Messages \cup {NoMessage}]
      BY DEF RInv, TypeOK
    <2>. QED  BY <2>1
  <1>5. /\ Vectors' /\ Round'
        /\ \A p \in Owners : Delivered(p)' = Delivered(p)
    BY <1>4, ListenUndisturbed
  <1>6. \A p \in Owners : p # o => OwnerInv(p)'
    BY <1>4, <1>5, OtherOwner DEF RInv
  <1>7. OwnerInv(o)'
    <2>1. Before(o)' = Before(o) + 1 /\ Len(lq'[o]) = Len(lq[o]) - 1
      BY <1>2, <1>4, <1>5, Numbers DEF Before
    <2>2. Contents(o)'
      <3>1. Len(lq[o]) <= AsSizeT(LQSize[o])
        BY <1>1 DEF OwnerInv, Contents
      <3>. QED  BY <1>2, <1>4, <2>1, <3>1, Numbers, Constants DEF Contents
    <2>3. Progress(o)'
      BY <1>1, <1>4, <2>1, Numbers DEF OwnerInv, Progress, Roomy
    <2>4. Lives(o)' /\ Late(o)' /\ Answers(o)'
      BY <1>1, <1>4 DEF OwnerInv, Lives, Late, Answers
    <2>. QED  BY <2>2, <2>3, <2>4 DEF OwnerInv
  <1>8. NoUnderflow'
    BY <1>4 DEF RInv, NoUnderflow, LQEmpty
  <1>. QED  BY <1>3, <1>5, <1>6, <1>7, <1>8 DEF RInv

\* The constructor: the new queue is the last of its vector, behind the end()
\* that a loop of listen() has taken.
LEMMA CreatePreserves ==
    ASSUME RInv, NEW o \in Owners, Create(o) PROVE RInv'
  <1>. USE DEF Create
  <1>. DEFINE k == Key[o]
              v == listeners[k]
  <1>1. /\ k \in Keys /\ v \in Seq(Owners) /\ Len(v) \in Nat /\ arrived[k] \in Nat
        /\ \A h \in Keys : listeners[h] \in Seq(Owners) /\ Len(listeners[h]) \in Nat
        /\ listeners \in [Keys -> Seq(Owners)] /\ life \in [Owners -> LifeStates]
        /\ thread \in [Owners -> ThreadStates] /\ called \in [Owners -> Nat]
    BY Constants DEF RInv, TypeOK
  <1>2. TypeOK'
    <2>1. listeners' \in [Keys -> Seq(Owners)]
      BY <1>1
    <2>. QED  BY <1>1, <2>1 DEF RInv, TypeOK, LifeStates, ThreadStates
  <1>3. /\ listeners'[k] = Append(v, o)
        /\ \A h \in Keys : h # k => listeners'[h] = listeners[h]
        /\ life[o] = "none" /\ life'[o] = "live" /\ thread'[o] = "loop"
        /\ called'[o] = arrived[k]
        /\ UNCHANGED <<lq, held, outbox, dispatch, arrived, terminated, late>>
        /\ \A p \in Owners : p # o =>
              life'[p] = life[p] /\ thread'[p] = thread[p] /\ called'[p] = called[p]
    BY <1>1
  <1>. HIDE DEF Create
  <1>4. /\ Len(listeners'[k]) = Len(v) + 1 /\ listeners'[k][Len(v) + 1] = o
        /\ \A p \in 1 .. Len(v) : listeners'[k][p] = v[p]
    BY <1>1, <1>3
  <1>5. ASSUME NEW h \in Keys, NEW p \in 1 .. Len(listeners[h])
        PROVE  /\ listeners'[h][p] = listeners[h][p]
               /\ listeners[h][p] \in Owners /\ listeners[h][p] # o
               /\ Key[listeners[h][p]] = h /\ life'[listeners[h][p]] # "none"
    <2>1. Key[listeners[h][p]] = h /\ life[listeners[h][p]] # "none"
      BY DEF RInv, Vectors
    <2>2. listeners[h][p] \in Owners /\ listeners[h][p] # o
      BY <1>1, <1>3, <2>1
    <2>3. life'[listeners[h][p]] # "none"
      BY <1>3, <2>1, <2>2
    <2>4. listeners'[h][p] = listeners[h][p]
      BY <1>3, <1>4
    <2>. QED  BY <2>1, <2>2, <2>3, <2>4
  <1>6. \A h \in Keys : \A p \in 1 .. Len(listeners'[h]) :
            p \in 1 .. Len(listeners[h]) \/ (h = k /\ p = Len(v) + 1)
    BY <1>1, <1>3, <1>4
  <1>7. Vectors'
    <2>1. \A h \in Keys : \A p \in 1 .. Len(listeners'[h]) :
              Key[listeners'[h][p]] = h /\ life'[listeners'[h][p]] # "none"
      BY <1>3, <1>4, <1>5, <1>6
    <2>2. \A h \in Keys : \A p, r \in 1 .. Len(listeners'[h]) :
              listeners'[h][p] = listeners'[h][r] => p = r
      <3>1. \A h \in Keys : \A p, r \in 1 .. Len(listeners[h]) :
                listeners[h][p] = listeners[h][r] => p = r
        BY DEF RInv, Vectors
      <3>. QED  BY <1>4, <1>5, <1>6, <3>1
    <2>3. ASSUME NEW p \in Owners, life'[p] # "none"
          PROVE  \E r \in 1 .. Len(listeners'[Key[p]]) : listeners'[Key[p]][r] = p
      <3>1. CASE p = o
        BY <1>1, <1>4, <3>1
      <3>2. CASE p # o
        <4>1. PICK r \in 1 .. Len(listeners[Key[p]]) : listeners[Key[p]][r] = p
          BY <1>3, <2>3, <3>2 DEF RInv, Vectors
        <4>2. Key[p] \in Keys
          BY Constants
        <4>3. r \in 1 .. Len(listeners'[Key[p]])
          <5>1. CASE Key[p] = k
            BY <1>1, <1>4, <5>1
          <5>2. CASE Key[p] # k
            BY <1>3, <4>2, <5>2
          <5>. QED  BY <5>1, <5>2
        <4>. QED  BY <1>5, <4>1, <4>2, <4>3
      <3>. QED  BY <3>1, <3>2
    <2>. QED  BY <2>1, <2>2, <2>3 DEF Vectors
  <1>8. dispatch.active => /\ dispatch.key \in Keys /\ dispatch.i \in Nat /\ dispatch.i > 0
                           /\ dispatch.end \in Nat
                           /\ dispatch.end <= Len(listeners[dispatch.key])
    BY DispatchTypes DEF RInv, Round
  <1>9. Round'
    <2>. SUFFICES ASSUME dispatch.active
                  PROVE  /\ dispatch.end <= Len(listeners'[dispatch.key])
                         /\ dispatch.msg.n = arrived[dispatch.key]
      BY <1>3 DEF RInv, Round
    <2>1. dispatch.msg.n = arrived[dispatch.key]
      BY DEF RInv, Round
    <2>2. CASE dispatch.key = k
      BY <1>1, <1>4, <1>8, <2>1, <2>2
    <2>3. CASE dispatch.key # k
      BY <1>3, <1>8, <2>1, <2>3
    <2>. QED  BY <2>2, <2>3
  <1>10. \A p \in Owners : Pending(p)' = Pending(p)
    <2>1. dispatch.active => \A p \in dispatch.i .. dispatch.end :
              listeners'[dispatch.key][p] = listeners[dispatch.key][p]
      <3>. SUFFICES ASSUME dispatch.active, NEW p \in dispatch.i .. dispatch.end
                    PROVE  listeners'[dispatch.key][p] = listeners[dispatch.key][p]
        OBVIOUS
      <3>1. dispatch.key \in Keys /\ p \in 1 .. Len(listeners[dispatch.key])
        BY <1>1, <1>8
      <3>. QED  BY <1>5, <3>1
    <2>. QED  BY <1>3, <2>1 DEF Pending
  <1>11. ~Pending(o)
    <2>. SUFFICES ASSUME dispatch.active, NEW p \in dispatch.i .. dispatch.end
                  PROVE  listeners[dispatch.key][p] # o
      BY DEF Pending
    <2>1. dispatch.key \in Keys /\ p \in 1 .. Len(listeners[dispatch.key])
      BY <1>1, <1>8
    <2>. QED  BY <1>5, <2>1
  <1>12. \A p \in Owners : Delivered(p)' = Delivered(p)
    BY <1>3, <1>10 DEF Delivered
  <1>13. \A p \in Owners : p # o => OwnerInv(p)'
    BY <1>3, <1>12, OtherOwner DEF RInv
  <1>14. OwnerInv(o)'
    <2>1. /\ OwnerInv(o) /\ lq[o] = << >> /\ Len(lq[o]) = 0
          /\ outbox[o] = << >> /\ Len(outbox[o]) = 0 /\ late[o] = 0
      BY <1>3 DEF RInv, OwnerInv, Lives, Late
    <2>2. Delivered(o)' = arrived[k] /\ Before(o)' = arrived[k]
      BY <1>1, <1>3, <1>11, <1>12, <2>1 DEF Delivered, Before
    <2>3. Contents(o)' /\ Progress(o)'
      BY <1>1, <1>3, <2>1, <2>2, Constants DEF Contents, Follows, Progress
    <2>4. Lives(o)' /\ Late(o)' /\ Answers(o)'
      BY <1>3, <2>1 DEF Lives, Late, Answers
    <2>. QED  BY <2>3, <2>4 DEF OwnerInv
  <1>15. NoUnderflow'
    BY <1>3 DEF RInv, NoUnderflow
  <1>. QED  BY <1>2, <1>7, <1>9, <1>13, <1>14, <1>15 DEF RInv

\* The destructor.
LEMMA DestructionPreserves ==
    ASSUME RInv, NEW o \in Owners, RequestShutdown(o) \/ PushFarewell(o) \/ Join(o)
    PROVE  RInv'
  <1>. USE DEF RequestShutdown, PushFarewell, Join
  <1>1. OwnerInv(o) /\ outbox[o] \in Seq(Nat) /\ Len(outbox[o]) \in Nat
    BY Numbers DEF RInv
  <1>2. TypeOK'
    <2>1. Append(outbox[o], FAREWELL) \in Seq(Nat)
      BY <1>1 DEF FAREWELL
    <2>2. outbox' \in [Owners -> Seq(Nat)]
      BY <2>1 DEF RInv, TypeOK
    <2>3. life' \in [Owners -> LifeStates]
      BY DEF RInv, TypeOK, LifeStates
    <2>. QED  BY <2>2, <2>3 DEF RInv, TypeOK
  <1>3. /\ \/ life[o] = "live" /\ life'[o] = "closing" /\ outbox'[o] = outbox[o]
           \/ /\ life[o] = "closing" /\ life'[o] = "joining"
              /\ outbox'[o] = Append(outbox[o], FAREWELL)
           \/ /\ life[o] = "joining" /\ life'[o] = "destroyed" /\ thread[o] = "exited"
              /\ outbox'[o] = outbox[o]
        /\ UNCHANGED <<listeners, lq, thread, held, dispatch, arrived, terminated, called, late>>
        /\ \A p \in Owners : p # o => life'[p] = life[p] /\ outbox'[p] = outbox[p]
    <2>1. outbox \in [Owners -> Seq(Nat)] /\ life \in [Owners -> LifeStates]
      BY DEF RInv, TypeOK
    <2>. QED  BY <2>1
  <1>. HIDE DEF RequestShutdown, PushFarewell, Join
  <1>4. /\ Vectors' /\ Round'
        /\ \A p \in Owners : Delivered(p)' = Delivered(p)
    BY <1>3, ListenUndisturbed
  <1>5. \A p \in Owners : p # o => OwnerInv(p)'
    BY <1>3, <1>4, OtherOwner DEF RInv
  <1>6. NoUnderflow'
    BY <1>3 DEF RInv, NoUnderflow
  <1>7. Before(o)' = Before(o)
    BY <1>3, <1>4 DEF Before
  <1>8. Contents(o)' /\ Progress(o)' /\ Late(o)' /\ Lives(o)'
    BY <1>1, <1>3, <1>7 DEF OwnerInv, Contents, Follows, Progress, Roomy, Late, Lives
  <1>9. CASE outbox'[o] = outbox[o]
    <2>1. Answers(o)'
      BY <1>1, <1>3, <1>9 DEF OwnerInv, Answers
    <2>. QED  BY <1>2, <1>4, <1>5, <1>6, <1>8, <2>1 DEF RInv, OwnerInv
  <1>10. CASE outbox'[o] = Append(outbox[o], FAREWELL) /\ life[o] = "closing"
    <2>1. /\ Len(outbox'[o]) = Len(outbox[o]) + 1
          /\ outbox'[o][Len(outbox[o]) + 1] = 0
          /\ \A i \in 1 .. Len(outbox[o]) : outbox'[o][i] = outbox[o][i]
          /\ life'[o] = "joining"
      BY <1>1, <1>3, <1>10 DEF FAREWELL
    <2>2. \A i \in 1 .. Len(outbox[o]) : outbox[o][i] # 0
      BY <1>1, <1>10 DEF OwnerInv, Answers, FAREWELL
    <2>3. ASSUME NEW i \in 1 .. Len(outbox'[o])
          PROVE  /\ outbox'[o][i] <= called'[o]
                 /\ thread'[o] = "busy" => outbox'[o][i] < called'[o]
                 /\ outbox'[o][i] = FAREWELL => i = Len(outbox'[o])
      <3>1. CASE i = Len(outbox[o]) + 1
        BY <1>1, <1>3, <2>1, <3>1, Numbers DEF OwnerInv, Progress
      <3>2. CASE i \in 1 .. Len(outbox[o])
        BY <1>1, <1>3, <2>1, <2>2, <3>2 DEF OwnerInv, Answers, FAREWELL
      <3>. QED  BY <1>1, <2>1, <3>1, <3>2
    <2>4. ASSUME NEW i \in 1 .. Len(outbox'[o]), NEW j \in 1 .. Len(outbox'[o]), i < j,
                 outbox'[o][j] # FAREWELL
          PROVE  outbox'[o][i] < outbox'[o][j]
      <3>1. i \in 1 .. Len(outbox[o]) /\ j \in 1 .. Len(outbox[o])
        BY <1>1, <2>1, <2>4 DEF FAREWELL
      <3>. QED  BY <1>1, <2>1, <2>4, <3>1 DEF OwnerInv, Answers
    <2>5. Answers(o)'
      BY <2>1, <2>3, <2>4 DEF Answers
    <2>. QED  BY <1>2, <1>4, <1>5, <1>6, <1>8, <2>5 DEF RInv, OwnerInv
  <1>. QED  BY <1>3, <1>9, <1>10

\* A message arrives and the loop of listen() begins: every owner attached
\* under its key is pending, so that nothing is delivered yet.
LEMMA ArrivePreserves ==
    ASSUME RInv, NEW m \in AllIncoming, Arrive(m) PROVE RInv'
  <1>. DEFINE k == Recipient(m)
  <1>1. k \in Keys
    <2>1. PICK n \in DOMAIN Incoming : m \in Incoming[n]
      BY DEF AllIncoming
    <2>. QED  BY <2>1, ListenersAssumption
  <1>2. /\ arrived[k] \in Nat /\ arrived[k] < MaxArrivals /\ ~dispatch.active
        /\ m \in Incoming[arrived[k] + 1]
        /\ arrived' = [arrived EXCEPT ![k] = arrived[k] + 1]
        /\ dispatch' = [active |-> TRUE, key |-> k, i |-> 1, end |-> Len(listeners[k]),
                        msg |-> Numbered(arrived[k] + 1, m)]
        /\ UNCHANGED <<listeners, lq, life, thread, held, outbox, terminated, called, late>>
    BY <1>1 DEF Arrive, RInv, TypeOK
  <1>. HIDE DEF k
  <1>3. /\ Numbered(arrived[k] + 1, m) \in Messages
        /\ Numbered(arrived[k] + 1, m).n = arrived[k] + 1
    BY <1>2, ArrivalIsMessage
  <1>4. /\ dispatch'.active /\ dispatch'.key = k /\ dispatch'.i = 1
        /\ dispatch'.end = Len(listeners[k]) /\ dispatch'.msg.n = arrived[k] + 1
        /\ Len(listeners[k]) \in Nat
        /\ arrived'[k] = arrived[k] + 1
        /\ \A h \in Keys : arrived[h] \in Nat /\ (h # k => arrived'[h] = arrived[h])
    BY <1>1, <1>2, <1>3 DEF RInv, TypeOK
  <1>5. TypeOK'
    <2>1. arrived' \in [Keys -> Nat]
      BY <1>1, <1>2 DEF RInv, TypeOK
    <2>2. dispatch' \in [active : {TRUE}, key : Keys, msg : Messages, i : Nat \ {0}, end : Nat]
      BY <1>1, <1>2, <1>3, <1>4
    <2>. QED  BY <1>2, <2>1, <2>2 DEF RInv, TypeOK
  <1>6. Vectors'
    BY <1>2 DEF RInv, Vectors
  <1>7. Round'
    <2>1. \A h \in Keys : arrived'[h] <= MaxArrivals
      BY <1>2, <1>4, Constants DEF RInv, Round
    <2>. QED  BY <1>2, <1>4, <2>1 DEF Round
  <1>8. NoUnderflow'
    BY <1>2 DEF RInv, NoUnderflow
  <1>9. ASSUME NEW o \in Owners PROVE OwnerInv(o)'
    <2>1. OwnerInv(o) /\ Delivered(o) = arrived[Key[o]] /\ Key[o] \in Keys
      BY <1>2, Constants DEF RInv, Delivered, Pending
    <2>2. CASE life[o] = "none"
      <3>1. thread[o] = "none" /\ lq[o] = << >> /\ Len(lq[o]) = 0
        BY <2>1, <2>2 DEF OwnerInv, Lives
      <3>2. Contents(o)' /\ Progress(o)'
        BY <1>2, <3>1, Constants DEF Contents, Follows, Progress
      <3>3. Lives(o)' /\ Late(o)' /\ Answers(o)'
        BY <1>2, <2>1 DEF OwnerInv, Lives, Late, Answers
      <3>. QED  BY <3>2, <3>3 DEF OwnerInv
    <2>3. CASE life[o] # "none" /\ Key[o] = k
      <3>1. PICK p \in 1 .. Len(listeners[k]) : listeners[k][p] = o
        BY <2>3 DEF RInv, Vectors
      <3>2. Pending(o)'
        BY <1>2, <1>4, <3>1 DEF Pending
      <3>3. Delivered(o)' = Delivered(o)
        BY <1>4, <2>1, <2>3, <3>2 DEF Delivered
      <3>. QED  BY <1>2, <2>1, <3>3, OtherOwner
    <2>4. CASE Key[o] # k
      <3>1. ~Pending(o)'
        <4>1. \A p \in 1 .. Len(listeners[k]) : Key[listeners[k][p]] = k
          BY <1>1 DEF RInv, Vectors
        <4>. QED  BY <1>2, <1>4, <2>4, <4>1 DEF Pending
      <3>2. Delivered(o)' = Delivered(o)
        BY <1>4, <2>1, <2>4, <3>1 DEF Delivered
      <3>. QED  BY <1>2, <2>1, <3>2, OtherOwner
    <2>. QED  BY <2>2, <2>3, <2>4
  <1>. QED  BY <1>5, <1>6, <1>7, <1>8, <1>9 DEF RInv

\* The loop of listen() pushes on the queue it has come to.  An owner with room
\* for every message loses none.
LEMMA DeliverPreserves ==
    ASSUME RInv, Deliver PROVE RInv'
  <1>0. PICK k, i, o, q : /\ k = dispatch.key /\ i = dispatch.i /\ o = listeners[k][i]
                          /\ q = LQPush(lq[o], LQSize[o], dispatch.msg)
    OBVIOUS
  <1>1. /\ dispatch.active /\ k \in Keys /\ dispatch.msg \in Messages
        /\ i \in Nat /\ i > 0 /\ dispatch.end \in Nat /\ i <= dispatch.end
        /\ dispatch \in [active : {TRUE}, key : Keys, msg : Messages,
                         i : Nat \ {0}, end : Nat]
    BY <1>0, DispatchTypes DEF Deliver, RInv
  <1>2. /\ dispatch.end <= Len(listeners[k]) /\ dispatch.msg.n = arrived[k]
        /\ arrived[k] \in Nat /\ arrived[k] <= MaxArrivals
        /\ listeners[k] \in Seq(Owners) /\ Len(listeners[k]) \in Nat
    BY <1>0, <1>1 DEF RInv, Round, TypeOK
  <1>3. i \in 1 .. Len(listeners[k]) /\ o \in Owners
    BY <1>0, <1>1, <1>2
  <1>4. Key[o] = k /\ life[o] # "none"
    BY <1>0, <1>1, <1>3 DEF RInv, Vectors
  <1>5. /\ lq' = [lq EXCEPT ![o] = q] /\ dispatch' = [dispatch EXCEPT !.i = i + 1]
        /\ UNCHANGED <<listeners, life, thread, held, outbox, arrived, terminated,
                       called, late>>
    BY <1>0 DEF Deliver
  <1>6. /\ dispatch'.active /\ dispatch'.key = k /\ dispatch'.i = i + 1
        /\ dispatch'.end = dispatch.end /\ dispatch'.msg = dispatch.msg
        /\ dispatch' \in [active : {TRUE}, key : Keys, msg : Messages,
                          i : Nat \ {0}, end : Nat]
    <2>1. i + 1 \in Nat \ {0} /\ dispatch' = [dispatch EXCEPT !.i = i + 1]
      BY <1>1, <1>5
    <2>2. dispatch' \in [active : {TRUE}, key : Keys, msg : Messages,
                         i : Nat \ {0}, end : Nat]
      BY <1>1, <2>1
    <2>3. /\ dispatch'.active = dispatch.active /\ dispatch'.key = dispatch.key
          /\ dispatch'.i = i + 1 /\ dispatch'.end = dispatch.end
          /\ dispatch'.msg = dispatch.msg
      BY <1>1, <2>1
    <2>. QED  BY <1>0, <1>1, <2>2, <2>3
  <1>7. Pending(o) /\ Delivered(o) = arrived[k] - 1
    BY <1>0, <1>1, <1>4 DEF Pending, Delivered
  <1>8. ~Pending(o)' /\ Delivered(o)' = arrived[k]
    <2>1. \A p \in 1 .. Len(listeners[k]) : listeners[k][p] = o => p = i
      BY <1>0, <1>1, <1>3 DEF RInv, Vectors
    <2>2. ~Pending(o)'
      BY <1>1, <1>2, <1>5, <1>6, <2>1 DEF Pending
    <2>. QED  BY <1>4, <1>5, <2>2 DEF Delivered
  <1>9. /\ q \in Seq(Messages) /\ Len(q) \in Nat
        /\ Len(q) = IF Len(lq[o]) + 1 <= AsSizeT(LQSize[o])
                    THEN Len(lq[o]) + 1 ELSE AsSizeT(LQSize[o])
        /\ Follows(q, arrived[k] - Len(q))
        /\ lq[o] # << >> => q # << >>
    <2>1. OwnerInv(o) /\ LQSize[o] \in Int /\ AsSizeT(LQSize[o]) \in Nat
      BY <1>3, Constants DEF RInv
    <2>2. lq[o] \in Seq(Messages) /\ Len(lq[o]) \in Nat /\ Before(o) \in Int
      BY <1>3, Numbers
    <2>3. dispatch.msg.n = Before(o) + Len(lq[o]) + 1
      BY <1>2, <1>7, <2>2 DEF Before
    <2>4. Len(lq[o]) <= AsSizeT(LQSize[o]) /\ Follows(lq[o], Before(o))
      BY SMTT(30), <2>1 DEF OwnerInv, Contents
    <2>5. /\ q \in Seq(Messages)
          /\ Len(q) = IF Len(lq[o]) + 1 <= AsSizeT(LQSize[o])
                      THEN Len(lq[o]) + 1 ELSE AsSizeT(LQSize[o])
          /\ Follows(q, dispatch.msg.n - Len(q))
          /\ lq[o] # << >> => q # << >>
      BY <1>0, <1>1, <2>1, <2>2, <2>3, <2>4, PushFollows
    <2>. QED  BY <1>2, <2>1, <2>2, <2>5
  <1>10. lq'[o] = q /\ \A p \in Owners : p # o => lq'[p] = lq[p]
    BY <1>3, <1>5 DEF RInv, TypeOK
  <1>11. TypeOK'
    <2>1. lq' \in [Owners -> Seq(Messages)]
      BY <1>3, <1>5, <1>9 DEF RInv, TypeOK
    <2>. QED  BY <1>5, <1>6, <2>1 DEF RInv, TypeOK
  <1>12. Vectors' /\ Round'
    BY <1>0, <1>2, <1>5, <1>6 DEF RInv, Vectors, Round
  <1>13. NoUnderflow'
    BY <1>5, <1>9, <1>10 DEF RInv, NoUnderflow, LQEmpty
  <1>14. ASSUME NEW p \in Owners, p # o PROVE OwnerInv(p)'
    <2>1. Pending(p)' = Pending(p)
      BY <1>0, <1>1, <1>2, <1>5, <1>6, <1>14 DEF Pending
    <2>2. Delivered(p)' = Delivered(p)
      BY <1>5, <2>1 DEF Delivered
    <2>. QED  BY <1>5, <1>10, <1>14, <2>2, OtherOwner DEF RInv
  <1>15. OwnerInv(o)'
    <2>1. /\ OwnerInv(o) /\ Before(o) = arrived[k] - 1 - Len(lq[o])
          /\ Len(lq[o]) \in Nat /\ called[o] \in Nat /\ held[o].n \in Nat
          /\ thread[o] \in ThreadStates /\ thread[o] # "none"
          /\ AsSizeT(LQSize[o]) \in Nat /\ MaxArrivals \in Nat
      <3>1. thread[o] \in ThreadStates /\ OwnerInv(o)
        BY <1>3 DEF RInv, TypeOK
      <3>2. thread[o] # "none"
        BY <1>4, <3>1 DEF OwnerInv, Lives
      <3>3. Len(lq[o]) \in Nat /\ called[o] \in Nat /\ held[o].n \in Nat
        BY <1>3, Numbers
      <3>. QED  BY <1>3, <1>7, <3>1, <3>2, <3>3, Constants DEF Before
    <2>2. Before(o)' = arrived[k] - Len(q)
      BY <1>8, <1>10 DEF Before
    <2>3. Before(o) <= Before(o)'
      BY <1>2, <1>9, <2>1, <2>2
    <2>4. Roomy(o) => Before(o)' = Before(o)
      <3>1. Roomy(o) => Before(o) >= 0
        <4>. SUFFICES ASSUME Roomy(o) PROVE Before(o) >= 0
          OBVIOUS
        <4>1. Progress(o) /\ Before(o) \in Int
          BY <1>2, <2>1 DEF OwnerInv
        <4>2. CASE thread[o] \in {"loop", "check", "next", "exited"}
          BY <2>1, <4>1, <4>2 DEF Progress
        <4>3. CASE thread[o] \in {"call", "busy", "pop"}
          BY <2>1, <4>1, <4>3 DEF Progress
        <4>. QED  BY <2>1, <4>2, <4>3 DEF ThreadStates
      <3>. QED  BY <1>2, <1>9, <2>1, <2>2, <3>1 DEF Roomy
    <2>5. Contents(o)'
      <3>1. Len(q) <= AsSizeT(LQSize[o])
        BY <1>3, <1>9, Numbers, Constants
      <3>. QED  BY <1>9, <1>10, <2>2, <3>1 DEF Contents
    <2>6. Progress(o)'
      <3>1. Before(o) \in Int /\ Before(o)' \in Int
        BY <1>2, <1>9, <2>1, <2>2
      <3>2. Progress(o)
        BY <2>1 DEF OwnerInv
      <3>. QED  BY <1>5, <2>1, <2>3, <2>4, <3>1, <3>2 DEF Progress, Roomy
    <2>7. Lives(o)' /\ Late(o)' /\ Answers(o)'
      BY <1>4, <1>5, <2>1 DEF OwnerInv, Lives, Late, Answers
    <2>. QED  BY <2>5, <2>6, <2>7 DEF OwnerInv
  <1>. QED  BY <1>11, <1>12, <1>13, <1>14, <1>15 DEF RInv

\* The loop of listen() has come to its end: nobody is pending.
LEMMA ListenReturnsPreserves ==
    ASSUME RInv, ListenReturns PROVE RInv'
  <1>. USE DEF ListenReturns
  <1>1. /\ \A o \in Owners : ~Pending(o) /\ ~Pending(o)'
    <2>1. dispatch.i \in Nat /\ dispatch.end \in Nat
      BY DispatchTypes DEF RInv
    <2>. QED  BY <2>1 DEF Pending, Idle
  <1>2. \A o \in Owners : Delivered(o)' = Delivered(o)
    BY <1>1 DEF Delivered
  <1>3. \A o \in Owners : OwnerInv(o)'
    BY <1>2, OtherOwner DEF RInv
  <1>4. TypeOK' /\ Vectors' /\ Round' /\ NoUnderflow'
    <2>1. dispatch' = Idle /\ ~dispatch'.active
      BY DEF Idle
    <2>2. TypeOK'
      BY <2>1 DEF RInv, TypeOK
    <2>. QED  BY <2>1, <2>2 DEF RInv, Vectors, Round, NoUnderflow
  <1>. QED  BY <1>3, <1>4 DEF RInv

\* Every step keeps the invariant.
LEMMA NextPreserves == RInv /\ [Next]_vars => RInv'
  <1>. SUFFICES ASSUME RInv, [Next]_vars PROVE RInv'
    OBVIOUS
  <1>1. CASE UNCHANGED vars
    <2>1. UNCHANGED <<listeners, lq, life, thread, held, outbox, dispatch, arrived,
                      terminated, called, late>>
      BY <1>1 DEF vars
    <2>2. TypeOK' /\ Vectors' /\ Round' /\ NoUnderflow'
      BY ZenonT(30), <2>1 DEF RInv, TypeOK, Vectors, Round, NoUnderflow
    <2>3. \A o \in Owners : Delivered(o)' = Delivered(o)
      BY <2>1 DEF Delivered, Pending
    <2>4. \A o \in Owners : OwnerInv(o)'
      BY <2>1, <2>3, OtherOwner DEF RInv
    <2>. QED  BY <2>2, <2>4 DEF RInv
  <1>2. CASE \E m \in AllIncoming : Arrive(m)
    BY <1>2, ArrivePreserves
  <1>3. CASE Deliver \/ ListenReturns
    BY <1>3, DeliverPreserves, ListenReturnsPreserves
  <1>4. ASSUME NEW o \in Owners, Create(o) \/ RequestShutdown(o) \/ PushFarewell(o) \/ Join(o)
        PROVE  RInv'
    BY <1>4, CreatePreserves, DestructionPreserves
  <1>5. ASSUME NEW o \in Owners, ThreadStep(o) PROVE RInv'
    BY <1>5, TestPreserves, FetchPreserves, CallbackBeginsPreserves,
       CallbackReturnsPreserves, ThrowsPreserves, PopPreserves DEF ThreadStep
  <1>. QED  BY <1>1, <1>2, <1>3, <1>4, <1>5 DEF Next

-----------------------------------------------------------------------------
(***************************************************************************)
(* The theorems.                                                           *)
(***************************************************************************)

\* The invariant holds: queues and vectors keep their contents in order under
\* every interleaving of listen(), the threads and the destructors.
THEOREM RInvHolds == Spec => []RInv
  <1>. QED  BY InitRInv, NextPreserves, PTL DEF Spec

\* The variables of Listeners keep their types.
THEOREM ListenersTypeCorrect == Spec => []TypeOK
  <1>1. RInv => TypeOK
    BY DEF RInv
  <1>. QED  BY <1>1, RInvHolds, PTL

\* A listener thread that found a message meets no empty list until the end of
\* its round (subscriber.cpp:56-60, serviceserver.cpp:58-67).
THEOREM NoUnderflowHolds == Spec => []NoUnderflow
  <1>1. RInv => NoUnderflow
    BY DEF RInv
  <1>. QED  BY <1>1, RInvHolds, PTL

\* An owner takes the messages in the order of arrival and none twice, for any
\* size of its queue.
THEOREM CalledInOrderHolds == Spec => []CalledInOrder
  <1>1. RInv => CalledInOrder
    <2>. SUFFICES ASSUME RInv, NEW o \in Owners, thread[o] = "call"
                  PROVE  held[o].n > called[o]
      BY DEF CalledInOrder
    <2>. QED  BY Numbers DEF RInv, OwnerInv, Progress
  <1>. QED  BY <1>1, RInvHolds, PTL

\* An owner whose queue has room takes every message that came after it was
\* attached to the map of listeners (rosbridgeclient.cpp:47-49).
THEOREM NothingSkippedHolds == Spec => []NothingSkipped
  <1>1. RInv => NothingSkipped
    BY DEF RInv, OwnerInv, Progress, Roomy, NothingSkipped
  <1>. QED  BY <1>1, RInvHolds, PTL

\* At most one callback begins after the beginning of the destructor.
THEOREM OneLateCallbackHolds == Spec => []OneLateCallback
  <1>1. RInv => OneLateCallback
    BY DEF RInv, OwnerInv, Late, OneLateCallback
  <1>. QED  BY <1>1, RInvHolds, PTL

\* A ServiceServer's responses are in the order of the requests, none is sent
\* twice, and at most one follows the unadvertise message.
THEOREM OutboxInOrderHolds == Spec => []OutboxInOrder
  <1>1. RInv => OutboxInOrder
    <2>. SUFFICES ASSUME RInv, NEW o \in Owners,
                         NEW i \in 1 .. Len(outbox[o]), NEW j \in 1 .. Len(outbox[o]), i < j
                  PROVE  /\ outbox[o][j] # FAREWELL => outbox[o][i] < outbox[o][j]
                         /\ outbox[o][i] = FAREWELL => j = i + 1 /\ j = Len(outbox[o])
      BY DEF OutboxInOrder
    <2>1. Answers(o) /\ Len(outbox[o]) \in Nat
      BY Numbers DEF RInv, OwnerInv
    <2>. QED  BY <2>1 DEF Answers
  <1>. QED  BY <1>1, RInvHolds, PTL

\* When a destructor has returned, its thread has ended: no callback and no
\* response comes after it (subscriber.cpp:42, serviceserver.cpp:44).
THEOREM QuietAfterDestructorHolds == Spec => QuietAfterDestructor
  <1>. DEFINE Quiet == \A o \in Owners :
                  life[o] = "destroyed" => thread'[o] = thread[o] /\ outbox'[o] = outbox[o]
  <1>1. RInv /\ [Next]_vars => [Quiet]_vars
    <2>. SUFFICES ASSUME RInv, Next, NEW o \in Owners, life[o] = "destroyed"
                  PROVE  thread'[o] = thread[o] /\ outbox'[o] = outbox[o]
      OBVIOUS
    <2>1. thread[o] = "exited" /\ thread \in [Owners -> ThreadStates]
          /\ outbox \in [Owners -> Seq(Nat)]
      BY DEF RInv, TypeOK, OwnerInv, Lives
    <2>2. CASE (\E m \in AllIncoming : Arrive(m)) \/ Deliver \/ ListenReturns
      BY <2>2 DEF Arrive, Deliver, ListenReturns
    <2>3. ASSUME NEW p \in Owners, Create(p) \/ RequestShutdown(p) \/ PushFarewell(p) \/ Join(p)
          PROVE  thread'[o] = thread[o] /\ outbox'[o] = outbox[o]
      BY <2>1, <2>3 DEF Create, RequestShutdown, PushFarewell, Join
    <2>4. ASSUME NEW p \in Owners, ThreadStep(p)
          PROVE  thread'[o] = thread[o] /\ outbox'[o] = outbox[o]
      <3>1. thread[p] # "exited"
        BY <2>4 DEF ThreadStep, Test, Check, Fetch, CallbackBegins, CallbackReturns, Throws, Pop
      <3>2. p # o
        BY <2>1, <3>1
      <3>3. /\ \/ thread' = thread
               \/ \E t : thread' = [thread EXCEPT ![p] = t]
            /\ \/ outbox' = outbox
               \/ \E b : outbox' = [outbox EXCEPT ![p] = b]
        BY <2>4 DEF ThreadStep, Test, Check, Fetch, CallbackBegins, CallbackReturns, Throws,
                    Pop, Goto
      <3>. QED  BY <2>1, <3>2, <3>3
    <2>. QED  BY <2>2, <2>3, <2>4 DEF Next
  <1>. QED  BY <1>1, RInvHolds, PTL DEF Spec, QuietAfterDestructor

=============================================================================
