------------------------------ MODULE Messages ------------------------------
(***************************************************************************)
(* The messages of the rosbridge protocol as this library writes and reads *)
(* them: the tables of op.cpp, the Serializers (serializer.h), the         *)
(* accessors of Unserializer (unserializer.h) and the switch of listen()   *)
(* that decides whose queues a message reaches.                            *)
(*                                                                         *)
(* A message is a JSON object, here a record of the fields that are set.   *)
(* A JSON value is its type and its content, the content a string whatever *)
(* the type; parsing and printing are picojson's.                          *)
(***************************************************************************)
Value(t, v) == [t |-> t, v |-> v]

Null == Value("null", "")

(***************************************************************************)
(* Two outcomes that are not the content of a value: an accessor throws, a *)
(* message is for nobody.  Both strings are reserved: no id, name or other *)
(* content of a message is one of them.                                    *)
(***************************************************************************)
THROWS == "an exception"

NOBODY == "nobody"

-----------------------------------------------------------------------------
(***************************************************************************)
(* op.cpp                                                                  *)
(***************************************************************************)
OP == {"ServiceAdvertiseOp", "ServiceUnadvertiseOp", "ServiceCallOp",
       "ServiceResponseOp", "TopicAdvertiseOp", "TopicUnadvertiseOp",
       "TopicSubscribeOp", "TopicUnsubscribeOp", "TopicPublishOp", "InvalidOp"}

to_string ==
    [ ServiceAdvertiseOp |-> "advertise_service",
      ServiceUnadvertiseOp |-> "unadvertise_service",
      ServiceCallOp |-> "call_service",
      ServiceResponseOp |-> "service_response",
      TopicAdvertiseOp |-> "advertise",
      TopicUnadvertiseOp |-> "unadvertise",
      TopicSubscribeOp |-> "subscribe",
      TopicUnsubscribeOp |-> "unsubscribe",
      TopicPublishOp |-> "publish",
      InvalidOp |-> "_" ]

OPNames ==
    [ advertise_service |-> "ServiceAdvertiseOp",
      unadvertise_service |-> "ServiceUnadvertiseOp",
      call_service |-> "ServiceCallOp",
      service_response |-> "ServiceResponseOp",
      advertise |-> "TopicAdvertiseOp",
      unadvertise |-> "TopicUnadvertiseOp",
      publish |-> "TopicPublishOp",
      subscribe |-> "TopicSubscribeOp",
      unsubscribe |-> "TopicUnsubscribeOp" ]

stringToOP(s) == IF s \in DOMAIN OPNames THEN OPNames[s] ELSE "InvalidOp"

isTopicOP(op) ==
    op \in {"TopicAdvertiseOp", "TopicUnadvertiseOp", "TopicSubscribeOp",
            "TopicUnsubscribeOp", "TopicPublishOp"}

isServiceOP(op) ==
    op \in {"ServiceAdvertiseOp", "ServiceUnadvertiseOp", "ServiceCallOp",
            "ServiceResponseOp"}

-----------------------------------------------------------------------------
(***************************************************************************)
(* serializer.h: one operator for each struct.  The id is unique() or, in  *)
(* a response, the one of its request.                                     *)
(***************************************************************************)
String(v)  == Value("string", v)
Object(v)  == Value("object", v)
Number(v)  == Value("number", v)
Boolean(v) == Value("bool", v)

Serializer(op, id) == [op |-> String(to_string[op]), id |-> String(id)]

SerializerTopicAdvertise(id, topic, type) ==
    [op |-> String(to_string["TopicAdvertiseOp"]), id |-> String(id),
     topic |-> String(topic), type |-> String(type)]

SerializerTopicUnadvertise(id, topic) ==
    [op |-> String(to_string["TopicUnadvertiseOp"]), id |-> String(id),
     topic |-> String(topic)]

SerializerTopicMessage(id, topic, msg) ==
    [op |-> String(to_string["TopicPublishOp"]), id |-> String(id),
     topic |-> String(topic), msg |-> Object(msg)]

SerializerTopicSubscribe(id, topic, type, queue_length) ==
    [op |-> String(to_string["TopicSubscribeOp"]), id |-> String(id),
     topic |-> String(topic), type |-> String(type),
     queue_length |-> Number(queue_length)]

SerializerTopicUnsubscribe(id, topic) ==
    [op |-> String(to_string["TopicUnsubscribeOp"]), id |-> String(id),
     topic |-> String(topic)]

SerializerServiceAdvertise(id, service, type) ==
    [op |-> String(to_string["ServiceAdvertiseOp"]), id |-> String(id),
     service |-> String(service), type |-> String(type)]

SerializerServiceUnadvertise(id, service) ==
    [op |-> String(to_string["ServiceUnadvertiseOp"]), id |-> String(id),
     service |-> String(service)]

SerializerServiceRequest(id, service, args) ==
    [op |-> String(to_string["ServiceCallOp"]), id |-> String(id),
     service |-> String(service), args |-> Object(args)]

SerializerServiceResponse(id, service, values, result) ==
    [op |-> String(to_string["ServiceResponseOp"]), id |-> String(id),
     service |-> String(service), values |-> Object(values),
     result |-> Boolean(result)]

-----------------------------------------------------------------------------
(***************************************************************************)
(* Unserializer.  get<T>() of a value that is missing or of another type   *)
(* throws, and so does the accessor that calls it.                         *)
(***************************************************************************)
Field(m, f) == IF f \in DOMAIN m THEN m[f] ELSE Null

Get(m, f, t) == IF Field(m, f).t = t THEN Field(m, f).v ELSE THROWS

id(m) == IF Field(m, "id").t = "string" THEN Field(m, "id").v ELSE ""

type(m) ==
    IF Get(m, "op", "string") = THROWS THEN THROWS
                                       ELSE stringToOP(Get(m, "op", "string"))

result(m) ==
    IF type(m) = "ServiceResponseOp" THEN Get(m, "result", "bool") ELSE THROWS

topic(m) == IF isTopicOP(type(m)) THEN Get(m, "topic", "string") ELSE THROWS

service(m) ==
    IF isServiceOP(type(m)) THEN Get(m, "service", "string") ELSE THROWS

payload(m) ==
    IF type(m) = THROWS THEN THROWS
    ELSE IF type(m) = "TopicPublishOp"    THEN Get(m, "msg", "object")
    ELSE IF type(m) = "ServiceCallOp"     THEN Get(m, "args", "object")
    ELSE IF type(m) = "ServiceResponseOp" THEN Get(m, "values", "object")
    ELSE "{}"

(***************************************************************************)
(* The switch of listen(): the key of the map of listeners under which the *)
(* message is looked up.  Topics and services are keys of the same map.    *)
(***************************************************************************)
Recipient(m) ==
    IF type(m) = THROWS THEN THROWS
    ELSE IF type(m) = "TopicPublishOp" THEN topic(m)
    ELSE IF type(m) \in {"ServiceCallOp", "ServiceResponseOp"} THEN service(m)
    ELSE NOBODY

-----------------------------------------------------------------------------
(***************************************************************************)
(* What two clients that talk to each other rely on (proved in             *)
(* ListenersProofs): i is an id, k a topic or service, x a payload.        *)
(***************************************************************************)
ReadAs(m, op, i, k, x) ==
    type(m) = op /\ id(m) = i /\ Recipient(m) = k /\ payload(m) = x

\* A publish, a request and a response reach the queues of their topic or
\* service, and there id(), payload() and result() return what was written;
\* result() of another message throws.
DataReadBack(i, k, x) ==
    /\ LET m == SerializerTopicMessage(i, k, x)
       IN  ReadAs(m, "TopicPublishOp", i, k, x) /\ result(m) = THROWS
    /\ LET m == SerializerServiceRequest(i, k, x)
       IN  ReadAs(m, "ServiceCallOp", i, k, x) /\ result(m) = THROWS
    /\ \A r \in {"true", "false"} :
          LET m == SerializerServiceResponse(i, k, x, r)
          IN  ReadAs(m, "ServiceResponseOp", i, k, x) /\ result(m) = r

\* The messages that declare an owner, or no longer, reach no queue, and can
\* be read for what they are.
DeclarationsReadBack(i, k, x) ==
    /\ LET m == SerializerTopicAdvertise(i, k, x)
       IN  ReadAs(m, "TopicAdvertiseOp", i, NOBODY, "{}") /\ topic(m) = k
    /\ LET m == SerializerTopicUnadvertise(i, k)
       IN  ReadAs(m, "TopicUnadvertiseOp", i, NOBODY, "{}") /\ topic(m) = k
    /\ LET m == SerializerTopicSubscribe(i, k, x, x)
       IN  ReadAs(m, "TopicSubscribeOp", i, NOBODY, "{}") /\ topic(m) = k
    /\ LET m == SerializerTopicUnsubscribe(i, k)
       IN  ReadAs(m, "TopicUnsubscribeOp", i, NOBODY, "{}") /\ topic(m) = k
    /\ LET m == SerializerServiceAdvertise(i, k, x)
       IN  ReadAs(m, "ServiceAdvertiseOp", i, NOBODY, "{}") /\ service(m) = k
    /\ LET m == SerializerServiceUnadvertise(i, k)
       IN  ReadAs(m, "ServiceUnadvertiseOp", i, NOBODY, "{}") /\ service(m) = k
    /\ LET m == Serializer("InvalidOp", i)
       IN  /\ ReadAs(m, "InvalidOp", i, NOBODY, "{}")
           /\ topic(m) = THROWS /\ service(m) = THROWS

=============================================================================
