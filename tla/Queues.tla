------------------------------- MODULE Queues -------------------------------
(***************************************************************************)
(* The two queue classes of queues.h / queues.cpp as operators on their    *)
(* value.  Every public method of the classes runs under the queue's       *)
(* mutex, so a call is one step of whoever makes it: the specifications    *)
(* that use this module apply one operator per step, and the interleavings *)
(* are those between the calls.                                            *)
(*                                                                         *)
(* A TalkerQueue is a record of its two mutable fields; q_size and         *)
(* head_msg never change and are passed in.                                *)
(***************************************************************************)
EXTENDS Integers, Sequences

CONSTANT SizeModulus  \* the number of values of size_t (2^64 in the build)

ASSUME SizeModulusAssumption == SizeModulus \in Nat \ {0}

(***************************************************************************)
(* q.size() > q_size compares a size_t with an int: the int is converted,  *)
(* so a negative q_size is a very large bound and not a small one.         *)
(***************************************************************************)
AsSizeT(n) == n % SizeModulus

(***************************************************************************)
(* while (q.size() > n) q.pop(), the loop that ends both push methods.     *)
(***************************************************************************)
DropOldest(q, n) ==
    IF Len(q) > n THEN SubSeq(q, Len(q) - n + 1, Len(q)) ELSE q

-----------------------------------------------------------------------------
(***************************************************************************)
(* TalkerQueue                                                             *)
(***************************************************************************)
TalkerQueueType(Msg) == [q : Seq(Msg), head_popped : BOOLEAN]

TalkerQueue(q, head_popped) == [q |-> q, head_popped |-> head_popped]

NewTalkerQueue == TalkerQueue(<< >>, FALSE)

\* Mutants: a signed bound, so that a negative q_size leaves no room; a push
\* at the wrong end.
TQPushSigned(tq, q_size, msg) ==
    TalkerQueue(DropOldest(Append(tq.q, msg), q_size), tq.head_popped)

TQPushFront(tq, q_size, msg) ==
    TalkerQueue(DropOldest(<<msg>> \o tq.q, AsSizeT(q_size)), tq.head_popped)

TQPush(tq, q_size, msg) ==
    TalkerQueue(DropOldest(Append(tq.q, msg), AsSizeT(q_size)), tq.head_popped)

\* Mutant: only the head is ever removed.
TQPopHeadOnly(tq) == TalkerQueue(tq.q, TRUE)

\* std::queue::pop on an empty queue is undefined; see NoUnderflow in the users.
TQPop(tq) ==
    IF tq.head_popped THEN TalkerQueue(Tail(tq.q), TRUE)
                      ELSE TalkerQueue(tq.q, TRUE)

TQNext(tq, head_msg) == IF tq.head_popped THEN Head(tq.q) ELSE head_msg

TQEmpty(tq) == tq.head_popped /\ tq.q = << >>

\* Mutant: the head is not put back.
TQResetForgotten(tq) == tq

TQReset(tq) == TalkerQueue(tq.q, FALSE)

-----------------------------------------------------------------------------
(***************************************************************************)
(* ListenerQueue: the value is the list itself.                            *)
(***************************************************************************)
NewListenerQueue == << >>

\* Mutants: a push at the wrong end; a queue that is never quite full.
LQPushFront(q, q_size, msg) == DropOldest(<<msg>> \o q, AsSizeT(q_size))

LQPushTight(q, q_size, msg) == DropOldest(Append(q, msg), AsSizeT(q_size) - 1)

LQPush(q, q_size, msg) == DropOldest(Append(q, msg), AsSizeT(q_size))

LQNext(q) == Head(q)

\* Mutant: the message stays in the list.
LQPopForgotten(q) == q

LQPop(q) == Tail(q)

LQEmpty(q) == q = << >>

=============================================================================
