-------------------------- MODULE LifecycleProofs ---------------------------
(***************************************************************************)
(* Proofs about Lifecycle, for any number of queues attached and whatever  *)
(* the capacities of the vectors: its types, what is safe while a client   *)
(* lives, that talk() never meets a connection that is gone, that the      *)
(* runner thread leaves the client alone after its destruction has begun,  *)
(* and that connection and talker_timer are, inside of a client, what      *)
(* Connection and PeriodicCalls say.                                       *)
(***************************************************************************)
EXTENDS Lifecycle, ConnectionProofs

-----------------------------------------------------------------------------
(***************************************************************************)
(* The inductive invariant.                                                *)
(***************************************************************************)
Shapes ==
    /\ app \in AppStates
    /\ target \in [Callbacks -> {"noop", "set"}]
    /\ handler \in {"none", "noop", "set", "user"}
    /\ DOMAIN size = {"talkers", "listeners"}
    /\ DOMAIN loop = Loops
    /\ \A l \in Loops : DOMAIN loop[l] = {"at", "buffer", "left"}

\* The talker thread lives from the last statement of the constructor to the
\* join, and no call of talk() outlives it.
TalkerLives ==
    /\ on => app \in Usable \cup Replacing \cup {"~listeners", "~talkers", "~timer", "join"}
    /\ loop["talk"] # OutOfLoop => on

\* The runner is in a loop only inside the handler that runs it.
LoopsInHandlers ==
    /\ handler = "set" => runner \in {"on_open", "run"}
    /\ loop["reset"] # OutOfLoop => handler = "set" /\ runner = "on_open"
    /\ loop["listen"] # OutOfLoop => handler = "set" /\ runner = "run"

\* What the assignments of the destructor have replaced stays replaced.
ReplacedInOrder ==
    /\ app \in {"noop_disconnection", "noop_message"} => target["on_connection"] = "noop"
    /\ app = "noop_message" => target["on_disconnection"] = "noop"
    /\ app \in Destroying \cup {"gone"} /\ ~failed => \A c \in Callbacks : target[c] = "noop"

\* Before the destructor, a callback that is being executed has not been
\* assigned to; before the members exist there is nothing to execute.
HandlersValid ==
    app \in Constructing \cup Usable =>
        /\ handler \in {"set", "user"} /\ runner = "on_open" => target["on_connection"] = "set"
        /\ handler = "user" /\ runner # "on_open" => target["on_disconnection"] = "set"
        /\ app \in {"connection", "members"} =>
              handler \in {"none", "noop"} /\ \A c \in Callbacks : target[c] = "noop"

\* Nothing is attached before the constructor has returned.
NothingAttached ==
    app \in Constructing =>
        /\ \A l \in Loops : size[Vector[l]] = 0
        /\ \A l \in Loops : loop[l] # OutOfLoop => loop[l].buffer = Buffer(0)

LInv ==
    /\ Shapes
    /\ TalkerLives
    /\ LoopsInHandlers
    /\ ReplacedInOrder
    /\ HandlersValid
    /\ NothingAttached
    /\ SafeUntilDestroyed
    /\ TalkerSeesLiveConnection

-----------------------------------------------------------------------------
\* The invariant holds initially.
LEMMA InitLInv == Init => LInv
  BY DEF Init, ConnInit, LInv, Shapes, TalkerLives, LoopsInHandlers, ReplacedInOrder,
         HandlersValid, NothingAttached, SafeUntilDestroyed, TalkerSeesLiveConnection,
         Constructing, Usable, Replacing, Destroying, AppStates, Callbacks, Loops,
         Vector, NoFault, Fault, OutOfLoop

\* The members that exist before the destruction.
LEMMA ExistsConnection ==
    ASSUME app \notin {"connection", "gone"} PROVE Exists["connection"] = TRUE
  BY DEF Exists

\* The vectors exist from the constructor to the destructor.
LEMMA ExistQueues ==
    ASSUME app \in Constructing \cup Usable, app \notin {"connection", "members"}, NEW l \in Loops
    PROVE  Exists[Vector[l]] = TRUE
  <1>1. Vector[l] \in {"talkers", "listeners"}
    BY DEF Loops, Vector
  <1>2. Exists["talkers"] = TRUE /\ Exists["listeners"] = TRUE
    BY DEF Exists, Constructing, Usable
  <1>. QED  BY <1>1, <1>2

\* What the three steps of a loop have in common: they change no other loop;
\* they fail on a vector that does not exist or has moved; if all is well, the
\* loop is in the buffer that it began in.
LoopStep(l, t) ==
    /\ DOMAIN loop' = Loops
    /\ \A k \in Loops \ {l} : loop'[k] = loop[k]
    /\ DOMAIN loop'[l] = {"at", "buffer", "left"}
    /\ \/ /\ ~Exists[Vector[l]]
          /\ fault' = Fault(t, Vector[l])
          /\ loop' = loop
       \/ /\ loop[l] # OutOfLoop
          /\ loop[l].buffer # Buffer(size[Vector[l]])
          /\ fault' = Fault(t, "iterator")
          /\ loop' = loop
       \/ /\ loop'[l].buffer = IF loop[l] = OutOfLoop THEN Buffer(size[Vector[l]])
                                                      ELSE loop[l].buffer
          /\ UNCHANGED fault

\* The beginning, the test of the end and the next element of a loop.
LEMMA LoopSteps ==
    ASSUME Shapes, NEW l \in Loops, NEW t,
           \/ Begin(l, t) /\ loop[l] = OutOfLoop
           \/ TakeEnd(l, t)
           \/ Element(l, t) /\ loop[l] # OutOfLoop
    PROVE  LoopStep(l, t)
  <1>. DEFINE same == fault' = fault
              fails == /\ loop' = loop
                       /\ \/ ~Exists[Vector[l]] /\ fault' = Fault(t, Vector[l])
                          \/ /\ loop[l] # OutOfLoop
                             /\ loop[l].buffer # Buffer(size[Vector[l]])
                             /\ fault' = Fault(t, "iterator")
  <1>1. CASE Begin(l, t) /\ loop[l] = OutOfLoop
    <2>1. \/ fails
          \/ same /\ loop' = [loop EXCEPT ![l] =
                [at |-> "begun", buffer |-> Buffer(size[Vector[l]]), left |-> 0]]
      BY <1>1 DEF Begin, Access, LoopOn
    <2>. QED  BY <2>1, <1>1 DEF Shapes, LoopStep
  <1>2. CASE TakeEnd(l, t)
    <2>1. loop[l] # OutOfLoop
      BY <1>2 DEF TakeEnd, OutOfLoop
    <2>. DEFINE r == [loop[l] EXCEPT !.at = "head", !.left = size[Vector[l]]]
    <2>2. DOMAIN r = {"at", "buffer", "left"} /\ r.buffer = loop[l].buffer
      BY DEF Shapes
    <2>3. fails \/ (same /\ loop' = [loop EXCEPT ![l] = r])
      BY <1>2 DEF TakeEnd, Access, LoopOn, Moved
    <2>. HIDE DEF r
    <2>. QED  BY <2>1, <2>2, <2>3 DEF Shapes, LoopStep
  <1>3. CASE Element(l, t) /\ loop[l] # OutOfLoop
    <2>. DEFINE r == [loop[l] EXCEPT !.at = "head", !.left = @ - 1]
    <2>1. DOMAIN r = {"at", "buffer", "left"} /\ r.buffer = loop[l].buffer
      BY DEF Shapes
    <2>2. fails \/ (same /\ loop' = [loop EXCEPT ![l] = r])
      BY <1>3 DEF Element, Access, LoopOn, Moved
    <2>. HIDE DEF r
    <2>. QED  BY <1>3, <2>1, <2>2 DEF Shapes, LoopStep
  <1>. QED  BY <1>1, <1>2, <1>3

\* A step of talk() that stays in its loop.
LEMMA TalkLoopPreserves ==
    ASSUME LInv, fault = NoFault, on, LoopStep("talk", "talker"),
           UNCHANGED <<connVars, app, target, handler, size, on, failed>>
    PROVE  LInv'
  <1>. app \notin Constructing /\ app # "gone" /\ app \in AppStates
    BY DEF LInv, Shapes, TalkerLives, Constructing, Usable, Replacing
  <1>. loop'["reset"] = loop["reset"] /\ loop'["listen"] = loop["listen"]
    BY DEF LoopStep, Loops
  <1>1. Shapes'
    BY DEF LInv, Shapes, LoopStep, Loops
  <1>2. TalkerLives'
    BY DEF LInv, TalkerLives
  <1>3. LoopsInHandlers'
    BY DEF LInv, LoopsInHandlers, connVars, OutOfLoop
  <1>4. ReplacedInOrder' /\ HandlersValid' /\ NothingAttached'
    BY DEF LInv, ReplacedInOrder, HandlersValid, NothingAttached, connVars
  <1>5. SafeUntilDestroyed' /\ TalkerSeesLiveConnection'
    <2>1. app \in Usable => Exists[Vector["talk"]]
      BY ExistQueues DEF Loops, Usable
    <2>2. Vector["talk"] = "talkers"
      BY DEF Vector
    <2>. QED
      BY <2>1, <2>2
      DEF LInv, SafeUntilDestroyed, TalkerSeesLiveConnection, LoopStep, Fault, NoFault
  <1>. QED  BY <1>1, <1>2, <1>3, <1>4, <1>5 DEF LInv

\* A step of resetTalkers() or of listen() that stays in its loop.
LEMMA HandlerLoopPreserves ==
    ASSUME LInv, fault = NoFault, NEW l \in {"reset", "listen"}, LoopStep(l, "runner"),
           app \notin {"connection", "members"},
           handler \in {"none", "set"}, handler' = "set",
           IF l = "reset" THEN handler = "set" /\ runner = "on_open" ELSE runner = "run",
           UNCHANGED <<connVars, app, target, size, on, failed>>
    PROVE  LInv'
  <1>. l \in Loops /\ "talk" \in Loops
    BY DEF Loops
  <1>. UNCHANGED <<runner, loop["talk"]>>
    BY DEF LoopStep, Loops, connVars
  <1>1. Shapes'
    BY DEF LInv, Shapes, LoopStep, Loops
  <1>2. TalkerLives'
    BY DEF LInv, TalkerLives, OutOfLoop
  <1>3. LoopsInHandlers'
    BY DEF LInv, LoopsInHandlers, LoopStep, Loops, OutOfLoop
  <1>4. ReplacedInOrder' /\ HandlersValid'
    BY DEF LInv, ReplacedInOrder, HandlersValid
  <1>5. NothingAttached'
    BY DEF LInv, NothingAttached, LoopStep, OutOfLoop
  <1>6. SafeUntilDestroyed'
    <2>1. app \in Constructing \cup Usable => Exists[Vector[l]]
      BY ExistQueues
    <2>2. app \in Constructing => \/ loop[l] = OutOfLoop
                                 \/ loop[l].buffer = Buffer(size[Vector[l]])
      BY DEF LInv, NothingAttached
    <2>. QED
      BY <2>1, <2>2 DEF LInv, SafeUntilDestroyed, LoopStep, Fault, NoFault
  <1>7. TalkerSeesLiveConnection'
    BY DEF LInv, TalkerSeesLiveConnection, LoopStep, Fault, NoFault
  <1>. QED  BY <1>1, <1>2, <1>3, <1>4, <1>5, <1>6, <1>7 DEF LInv

\* The statements of the constructor.
LEMMA ConstructPreserves == ASSUME LInv, fault = NoFault, Construct PROVE LInv'
  <1>. USE DEF LInv, Shapes, TalkerLives, LoopsInHandlers, ReplacedInOrder,
               HandlersValid, NothingAttached, SafeUntilDestroyed,
               TalkerSeesLiveConnection
  <1>. USE DEF Constructing, Usable, Replacing, Destroying, AppStates, Callbacks,
               Loops, Vector, Exists, NoFault, Fault, OutOfLoop, connVars
  <1>1. CASE ConstructConnection
    BY <1>1 DEF ConstructConnection, Goto
  <1>2. CASE ConstructMembers
    BY <1>2 DEF ConstructMembers, Goto
  <1>3. CASE SetCallbacks
    BY <1>3 DEF SetCallbacks, Set, Goto
  <1>4. CASE StartTimer
    BY <1>4 DEF StartTimer, Goto
  <1>5. CASE StartTimerFails
    BY <1>5 DEF StartTimerFails, Goto
  <1>. QED  BY <1>1, <1>2, <1>3, <1>4, <1>5 DEF Construct

\* The calls of attach().
LEMMA AttachPreserves == ASSUME LInv, fault = NoFault, Attach PROVE LInv'
  BY DEF LInv, Shapes, TalkerLives, LoopsInHandlers, ReplacedInOrder, HandlersValid,
         NothingAttached, SafeUntilDestroyed, TalkerSeesLiveConnection, Attach,
         PushBack, Constructing, Usable, Replacing, Destroying, AppStates, Callbacks,
         Loops, Vector, Exists, NoFault, Fault, OutOfLoop, Goto, connVars

\* The application calls the destructor.
LEMMA BeginDestructionPreserves ==
    ASSUME LInv, fault = NoFault, BeginDestruction PROVE LInv'
  BY DEF LInv, Shapes, TalkerLives, LoopsInHandlers, ReplacedInOrder, HandlersValid,
         NothingAttached, SafeUntilDestroyed, TalkerSeesLiveConnection,
         BeginDestruction, Goto, Constructing, Usable, Replacing, Destroying,
         AppStates, Callbacks, Loops, Vector, Exists, NoFault, Fault, OutOfLoop, Goto,
         connVars

\* The body of the destructor and the destruction of the members.
LEMMA DestroyPreserves == ASSUME LInv, fault = NoFault, Destroy PROVE LInv'
  <1>. USE DEF LInv, Shapes, TalkerLives, LoopsInHandlers, ReplacedInOrder,
               HandlersValid, NothingAttached, SafeUntilDestroyed,
               TalkerSeesLiveConnection
  <1>. USE DEF Constructing, Usable, Replacing, Destroying, AppStates, Callbacks,
               Loops, Vector, Exists, NoFault, Fault, OutOfLoop, connVars
  <1>1. CASE ReplaceCallbacks
    BY <1>1 DEF ReplaceCallbacks, Set, Goto
  <1>2. CASE DestroyMembers
    BY <1>2 DEF DestroyMembers, Goto
  <1>3. CASE JoinTalker
    BY <1>3 DEF JoinTalker, Goto
  <1>4. CASE DestroyConnection
    BY <1>4 DEF DestroyConnection, Shutdown, Goto
  <1>5. CASE Free
    BY <1>5 DEF Free, Goto
  <1>. QED  BY <1>1, <1>2, <1>3, <1>4, <1>5 DEF Destroy

\* The talker thread.
LEMMA TalkerStepPreserves == ASSUME LInv, fault = NoFault, TalkerStep PROVE LInv'
  <1>1. CASE TalkBegin
    <2>1. LoopStep("talk", "talker") /\ on
      BY <1>1, LoopSteps DEF TalkBegin, LInv, Loops
    <2>. QED  BY <1>1, <2>1, TalkLoopPreserves DEF TalkBegin
  <1>2. CASE TalkEnd
    <2>1. LoopStep("talk", "talker") /\ on
      BY <1>2, LoopSteps DEF TalkEnd, TakeEnd, LInv, TalkerLives, Loops, OutOfLoop
    <2>. QED  BY <1>2, <2>1, TalkLoopPreserves DEF TalkEnd
  <1>3. CASE TalkActive
    <2>1. loop["talk"] # OutOfLoop /\ on
      BY <1>3 DEF TalkActive, LInv, TalkerLives, OutOfLoop
    <2>. Exists["connection"] = TRUE
      BY <2>1, ExistsConnection DEF LInv, TalkerLives, Usable, Replacing
    <2>. DEFINE r == [loop["talk"] EXCEPT !.at = "active"]
    <2>2. DOMAIN r = {"at", "buffer", "left"} /\ r.buffer = loop["talk"].buffer
      BY DEF LInv, Shapes, Loops
    <2>3. /\ UNCHANGED <<connVars, app, target, handler, size, on, failed, fault>>
          /\ \/ loop' = [loop EXCEPT !["talk"] = OutOfLoop]
             \/ loop' = [loop EXCEPT !["talk"] = r]
      BY <1>3, <2>1 DEF TalkActive, LoopOn
    <2>. HIDE DEF r
    <2>4. CASE loop' = [loop EXCEPT !["talk"] = OutOfLoop]
      BY <2>3, <2>4
         DEF LInv, Shapes, TalkerLives, LoopsInHandlers, ReplacedInOrder,
             HandlersValid, NothingAttached, SafeUntilDestroyed,
             TalkerSeesLiveConnection, OutOfLoop, Loops, connVars
    <2>5. CASE loop' = [loop EXCEPT !["talk"] = r]
      <3>1. LoopStep("talk", "talker")
        BY <2>1, <2>2, <2>3, <2>5 DEF LoopStep, LInv, Shapes, Loops
      <3>. QED  BY <2>1, <2>3, <3>1, TalkLoopPreserves
    <2>. QED  BY <2>3, <2>4, <2>5
  <1>4. CASE TalkElement
    <2>1. loop["talk"] # OutOfLoop /\ on
      BY <1>4 DEF TalkElement, LInv, TalkerLives, OutOfLoop
    <2>. Exists["connection"] = TRUE
      BY <2>1, ExistsConnection DEF LInv, TalkerLives, Usable, Replacing
    <2>2. LoopStep("talk", "talker")
      BY <1>4, <2>1, LoopSteps DEF TalkElement, LInv, Loops
    <2>. QED  BY <1>4, <2>1, <2>2, TalkLoopPreserves DEF TalkElement
  <1>5. CASE TalkReturns
    BY <1>5
       DEF LInv, Shapes, TalkerLives, LoopsInHandlers, ReplacedInOrder, HandlersValid,
           NothingAttached, SafeUntilDestroyed, TalkerSeesLiveConnection, TalkReturns,
           AtEnd, LoopOn, Constructing, Usable, Replacing, Destroying, AppStates,
           Callbacks, Loops, Vector, Exists, NoFault, Fault, OutOfLoop, Goto, connVars
  <1>6. CASE TalkerEnds
    BY <1>6
       DEF LInv, Shapes, TalkerLives, LoopsInHandlers, ReplacedInOrder, HandlersValid,
           NothingAttached, SafeUntilDestroyed, TalkerSeesLiveConnection, TalkerEnds,
           Constructing, Usable, Replacing, Destroying, AppStates, Callbacks, Loops,
           Vector, Exists, NoFault, Fault, OutOfLoop, Goto, connVars
  <1>. QED  BY <1>1, <1>2, <1>3, <1>4, <1>5, <1>6 DEF TalkerStep

\* The runner thread.
LEMMA RunnerStepPreserves == ASSUME LInv, fault = NoFault, RunnerStep PROVE LInv'
  <1>. USE DEF LInv, Shapes, TalkerLives, LoopsInHandlers, ReplacedInOrder,
               HandlersValid, NothingAttached, SafeUntilDestroyed,
               TalkerSeesLiveConnection
  <1>. USE DEF Constructing, Usable, Replacing, Destroying, AppStates, Callbacks,
               Loops, Vector, Exists, NoFault, Fault, OutOfLoop, connVars
  <1>1. CASE ConnectionStep
    BY <1>1
       DEF ConnectionStep, RunnerStarted, NewClient, RunnerEnds, Dial, ClearSender,
           ClearActive, ConnectReturns, ConnectThrows, OpenFails, RemoteClose,
           MessageThrows, lifeVars
  <1>2. CASE Opens
    BY <1>2 DEF Opens, RunnerStarted, OpenHandshake
  <1>3. CASE ResetBegin
    <2>1. LoopStep("reset", "runner")
      BY <1>3, LoopSteps DEF ResetBegin
    <2>. QED  BY <1>3, <2>1, HandlerLoopPreserves DEF ResetBegin
  <1>4. CASE ResetLoop
    <2>1. loop["reset"] # OutOfLoop
      BY <1>4 DEF ResetLoop, TakeEnd
    <2>2. LoopStep("reset", "runner")
      BY <1>4, <2>1, LoopSteps DEF ResetLoop
    <2>. QED
      BY <1>4, <2>1, <2>2, HandlerLoopPreserves
      DEF ResetLoop
  <1>5. CASE ResetReturns
    BY <1>5 DEF ResetReturns, AtEnd, LoopOn, Replaced
  <1>6. CASE OpenReturns
    BY <1>6 DEF OpenReturns, Replaced, OnConnection
  <1>7. CASE Closes
    BY <1>7 DEF Closes, RunnerStarted, Terminate
  <1>8. CASE CloseReturns
    BY <1>8 DEF CloseReturns, Replaced, OnClose, RunReturns
  <1>9. CASE UserThrows
    BY <1>9 DEF UserThrows, CallbackThrows
  <1>10. CASE ListenBegin
    <2>1. LoopStep("listen", "runner")
      BY <1>10, LoopSteps DEF ListenBegin
    <2>. QED
      BY <1>10, <2>1, HandlerLoopPreserves
      DEF ListenBegin
  <1>11. CASE ListenLoop
    <2>1. loop["listen"] # OutOfLoop
      BY <1>11 DEF ListenLoop, TakeEnd
    <2>2. LoopStep("listen", "runner")
      BY <1>11, <2>1, LoopSteps DEF ListenLoop
    <2>. QED
      BY <1>11, <2>1, <2>2, HandlerLoopPreserves
      DEF ListenLoop
  <1>12. CASE ListenReturns
    BY <1>12 DEF ListenReturns, AtEnd, LoopOn
  <1>13. CASE Orphan
    BY <1>13 DEF Orphan, Goto
  <1>. QED
    BY <1>1, <1>2, <1>3, <1>4, <1>5, <1>6, <1>7, <1>8, <1>9, <1>10, <1>11, <1>12, <1>13
       DEF RunnerStep

\* The pong timer.
LEMMA PongTimerPreserves == ASSUME LInv, fault = NoFault, PongTimer PROVE LInv'
  BY DEF LInv, Shapes, TalkerLives, LoopsInHandlers, ReplacedInOrder, HandlersValid,
         NothingAttached, SafeUntilDestroyed, TalkerSeesLiveConnection, PongTimer,
         PongMissed, lifeVars, Constructing, Usable, Replacing, Destroying, AppStates,
         Callbacks, Loops, Vector, Exists, NoFault, Fault, OutOfLoop, Goto, connVars

\* The invariant is inductive.
LEMMA NextPreserves == LInv /\ [Next]_vars => LInv'
  <1>. SUFFICES ASSUME LInv, [Next]_vars PROVE LInv'
    OBVIOUS
  <1>1. CASE UNCHANGED vars
    BY <1>1 DEF vars, lifeVars, connVars, LInv, Shapes, TalkerLives, LoopsInHandlers,
                ReplacedInOrder, HandlersValid, NothingAttached, SafeUntilDestroyed,
                TalkerSeesLiveConnection
  <1>2. CASE Next
    BY <1>2, ConstructPreserves, AttachPreserves, BeginDestructionPreserves, DestroyPreserves,
       TalkerStepPreserves, RunnerStepPreserves, PongTimerPreserves DEF Next
  <1>. QED  BY <1>1, <1>2

\* The invariant holds in every reachable state.
THEOREM LInvHolds == Spec => []LInv
  BY InitLInv, NextPreserves, PTL DEF Spec

-----------------------------------------------------------------------------
(***************************************************************************)
(* The theorems.                                                           *)
(***************************************************************************)

\* Until the client is destroyed, only an attach() in the middle of a loop can
\* break anything, for any number of queues (connection.h:45,
\* rosbridgeclient.cpp:25-27).
THEOREM SafeUntilDestroyedHolds == Spec => []SafeUntilDestroyed
  <1>1. LInv => SafeUntilDestroyed
    BY DEF LInv
  <1>. QED  BY <1>1, LInvHolds, PTL

\* talk() never calls active() or send() on a connection that is gone
\* (rosbridgeclient.h:69-70, utils.cpp:57-68).
THEOREM TalkerSeesLiveConnectionHolds == Spec => []TalkerSeesLiveConnection
  <1>1. LInv => TalkerSeesLiveConnection
    BY DEF LInv
  <1>. QED  BY <1>1, LInvHolds, PTL

\* With the callbacks replaced and no handler of the client running, no step
\* of the runner thread begins one or reaches a queue.
LEMMA QuietStep == ASSUME LInv, Next, Quiet PROVE StaysQuiet
  <1>. fault = NoFault
    BY DEF Next
  <1>1. /\ \A c \in Callbacks : target[c] = "noop"
        /\ loop["reset"] = OutOfLoop /\ loop["listen"] = OutOfLoop
        /\ handler \in {"none", "noop"}
        /\ app \in Destroying \cup {"gone"}
    BY DEF LInv, ReplacedInOrder, LoopsInHandlers, Quiet
  <1>. app \notin Constructing \cup Usable \cup Replacing
    BY <1>1 DEF Constructing, Usable, Replacing, Destroying
  <1>. SUFFICES app' \in Destroying \cup {"gone"} /\ ~failed' /\ handler' \in {"none", "noop"}
                /\ (fault'.by = "runner" => fault'.what = "connection")
    BY DEF Quiet, StaysQuiet
  <1>2. CASE Construct \/ Attach \/ BeginDestruction
    BY <1>2
       DEF Construct, ConstructConnection, ConstructMembers, SetCallbacks, StartTimer,
                StartTimerFails, Attach, BeginDestruction, Goto, Constructing, Usable
  <1>3. CASE Destroy
    BY <1>1, <1>3
       DEF Destroy, ReplaceCallbacks, DestroyMembers, JoinTalker, DestroyConnection,
                      Free, Goto, Replacing, Destroying, Quiet, NoFault
  <1>4. CASE TalkerStep
    <2>1. UNCHANGED <<app, handler, failed>>
      BY <1>4
         DEF TalkerStep, TalkBegin, TalkEnd, TalkActive, TalkElement, TalkReturns,
             TalkerEnds
    <2>2. fault'.by \in {"nobody", "talker"}
      BY <1>4 DEF TalkerStep, TalkBegin, TalkEnd, TalkActive, TalkElement, TalkReturns,
                  TalkerEnds, Begin, TakeEnd, Element, Access, Fault, NoFault
    <2>. QED  BY <1>1, <2>1, <2>2 DEF Quiet
  <1>5. CASE RunnerStep
    <2>1. CASE ConnectionStep
      BY <1>1, <2>1 DEF ConnectionStep, lifeVars, Quiet, NoFault
    <2>2. CASE Opens
      BY <1>1, <2>2 DEF Opens, Callbacks, Quiet, NoFault
    <2>3. CASE ResetBegin \/ ResetLoop \/ ResetReturns
      BY <1>1, <2>3 DEF ResetBegin, ResetLoop, ResetReturns, TakeEnd, AtEnd, OutOfLoop
    <2>4. CASE OpenReturns
      BY <1>1, <2>4 DEF OpenReturns, Quiet, NoFault
    <2>5. CASE Closes
      BY <1>1, <2>5 DEF Closes, Callbacks, Quiet, NoFault
    <2>6. CASE CloseReturns
      BY <1>1, <2>6 DEF CloseReturns, Quiet, NoFault
    <2>7. CASE UserThrows
      BY <1>1, <2>7 DEF UserThrows
    <2>8. CASE ListenBegin \/ ListenLoop \/ ListenReturns
      BY <1>1, <2>8
         DEF ListenBegin, ListenLoop, ListenReturns, TakeEnd, AtEnd, OutOfLoop,
             Callbacks
    <2>9. CASE Orphan
      BY <1>1, <2>9 DEF Orphan, Quiet, Fault
    <2>. QED
      BY <1>5, <2>1, <2>2, <2>3, <2>4, <2>5, <2>6, <2>7, <2>8, <2>9 DEF RunnerStep
  <1>6. CASE PongTimer
    BY <1>1, <1>6 DEF PongTimer, lifeVars, Quiet, NoFault
  <1>. QED  BY <1>2, <1>3, <1>4, <1>5, <1>6 DEF Next

\* After the three assignments of ~RosbridgeClient, and the end of the handler
\* that they may have met, the runner thread uses neither the queues nor the
\* callbacks (rosbridgeclient.cpp:33-35).
THEOREM RunnerLeavesQueuesAloneHolds == Spec => RunnerLeavesQueuesAlone
  <1>1. LInv /\ [Next]_vars => [Quiet => StaysQuiet]_vars
    BY QuietStep
  <1>. QED  BY <1>1, LInvHolds, PTL DEF Spec, RunnerLeavesQueuesAlone

-----------------------------------------------------------------------------
(***************************************************************************)
(* Types.  An owner attaches one queue to each vector, so that these differ *)
(* by the one that the owner being constructed has still to attach.        *)
(***************************************************************************)
OwnersPaired ==
    size["talkers"] = IF app = "attach" THEN size["listeners"] + 1 ELSE size["listeners"]

\* What a loop does keeps the types, whatever it finds.
LEMMA LoopTypes ==
    ASSUME TypeOK, NEW l \in Loops, NEW t \in {"talker", "runner"},
           Begin(l, t) \/ TakeEnd(l, t) \/ Element(l, t)
    PROVE  loop' \in [Loops -> LoopType] /\ fault' \in FaultType
  <1>1. /\ Vector[l] \in {"talkers", "listeners"} /\ MaxOwners \in Nat
        /\ size[Vector[l]] \in 0 .. MaxOwners
    BY LifecycleAssumption DEF TypeOK, Loops, Vector
  <1>2. Fault(t, Vector[l]) \in FaultType /\ Fault(t, "iterator") \in FaultType
    BY <1>1 DEF Fault, FaultType
  <1>3. Buffer(size[Vector[l]]) \in {Buffer(n) : n \in 0 .. MaxOwners}
    BY <1>1
  <1>4. loop[l] \in LoopType /\ loop \in [Loops -> LoopType] /\ fault \in FaultType
    BY DEF TypeOK
  <1>5. ASSUME Begin(l, t) PROVE loop' \in [Loops -> LoopType] /\ fault' \in FaultType
    <2>. DEFINE r == [at |-> "begun", buffer |-> Buffer(size[Vector[l]]), left |-> 0]
    <2>1. r \in LoopType
      BY <1>1, <1>3 DEF LoopType
    <2>2. \/ loop' = loop /\ fault' \in {Fault(t, Vector[l]), Fault(t, "iterator")}
          \/ loop' = [loop EXCEPT ![l] = r] /\ fault' = fault
      BY <1>5 DEF Begin, Access, LoopOn
    <2>. HIDE DEF r
    <2>. QED  BY <1>2, <1>4, <2>1, <2>2
  <1>6. ASSUME TakeEnd(l, t) PROVE loop' \in [Loops -> LoopType] /\ fault' \in FaultType
    <2>. DEFINE r == [loop[l] EXCEPT !.at = "head", !.left = size[Vector[l]]]
    <2>1. r \in LoopType
      BY <1>1, <1>4 DEF LoopType
    <2>2. \/ loop' = loop /\ fault' \in {Fault(t, Vector[l]), Fault(t, "iterator")}
          \/ loop' = [loop EXCEPT ![l] = r] /\ fault' = fault
      BY <1>6 DEF TakeEnd, Access, LoopOn
    <2>. HIDE DEF r
    <2>. QED  BY <1>2, <1>4, <2>1, <2>2
  <1>7. ASSUME Element(l, t) PROVE loop' \in [Loops -> LoopType] /\ fault' \in FaultType
    <2>. DEFINE r == [loop[l] EXCEPT !.at = "head", !.left = @ - 1]
    <2>1. loop[l].left - 1 \in 0 .. MaxOwners
      BY <1>1, <1>4, <1>7 DEF Element, LoopType
    <2>2. r \in LoopType
      BY <1>4, <2>1 DEF LoopType
    <2>3. \/ loop' = loop /\ fault' \in {Fault(t, Vector[l]), Fault(t, "iterator")}
          \/ loop' = [loop EXCEPT ![l] = r] /\ fault' = fault
      BY <1>7 DEF Element, Access, LoopOn
    <2>. HIDE DEF r
    <2>. QED  BY <1>2, <1>4, <2>2, <2>3
  <1>. QED  BY <1>5, <1>6, <1>7

\* A loop that is left has a type as well.
LEMMA OutOfLoopType == OutOfLoop \in LoopType
  <1>1. Buffer(0) = 0 /\ 0 \in 0 .. MaxOwners
    BY LifecycleAssumption DEF Buffer
  <1>2. 0 \in {Buffer(n) : n \in 0 .. MaxOwners}
    BY <1>1
  <1>. QED  BY <1>1, <1>2 DEF OutOfLoop, LoopType

-----------------------------------------------------------------------------
(***************************************************************************)
(* The steps of the client are steps of Connection, or leave it alone.     *)
(***************************************************************************)
LEMMA LifecycleStepsOfConnection == [Next]_vars => [ConnNext]_connVars
  <1>. SUFFICES ASSUME [Next]_vars PROVE [ConnNext]_connVars
    OBVIOUS
  <1>. USE DEF ConnNext, RunnerSteps, NetworkEvents
  <1>1. CASE UNCHANGED vars
    BY <1>1 DEF vars
  <1>2. CASE Construct \/ Attach \/ BeginDestruction
    BY <1>2 DEF Construct, ConstructConnection, ConstructMembers, SetCallbacks, Set, StartTimer,
                StartTimerFails, Attach, PushBack, BeginDestruction
  <1>3. CASE Destroy
    BY <1>3 DEF Destroy, ReplaceCallbacks, Set, DestroyMembers, JoinTalker, DestroyConnection,
                Free
  <1>4. CASE TalkerStep
    BY <1>4 DEF TalkerStep, TalkBegin, TalkEnd, TalkActive, TalkElement, TalkReturns, TalkerEnds
  <1>5. CASE RunnerStep
    <2>1. CASE ConnectionStep
      BY <2>1 DEF ConnectionStep
    <2>2. CASE Opens \/ Closes \/ UserThrows
      BY <2>2 DEF Opens, Closes, UserThrows
    <2>3. CASE OpenReturns \/ CloseReturns
      BY <2>3 DEF OpenReturns, CloseReturns
    <2>4. CASE ResetBegin \/ ResetLoop \/ ResetReturns \/ Orphan
      BY <2>4 DEF ResetBegin, ResetLoop, ResetReturns, Orphan
    <2>5. CASE ListenBegin \/ ListenLoop \/ ListenReturns
      BY <2>5 DEF ListenBegin, ListenLoop, ListenReturns
    <2>. QED  BY <1>5, <2>1, <2>2, <2>3, <2>4, <2>5 DEF RunnerStep
  <1>6. CASE PongTimer
    BY <1>6 DEF PongTimer
  <1>. QED  BY <1>1, <1>2, <1>3, <1>4, <1>5, <1>6 DEF Next

\* From its construction to its end inside of an object that is gone, the
\* connection of a client takes the steps of Connection only, with the
\* callbacks that the client gives it and takes back (rosbridgeclient.cpp:21-36).
THEOREM LifecycleImplementsConnectionSteps == Spec => ConnSafety
  <1>1. Init => ConnInit
    BY DEF Init
  <1>. QED  BY <1>1, LifecycleStepsOfConnection, PTL DEF Spec, ConnSafety

\* So that what is proved of a connection holds of that of a client, its
\* construction and destruction included.
THEOREM LifecycleInherits == Spec => []DanglingOnlyAfterThrow /\ []MissedOnlyByThrow
  BY LifecycleImplementsConnectionSteps, DanglingOnlyAfterThrowHolds, MissedOnlyByThrowHolds, PTL

-----------------------------------------------------------------------------
\* The types of a client, the vectors included, are kept by every step.
LEMMA LifecycleTypesKept == TypeOK /\ OwnersPaired /\ [Next]_vars => TypeOK' /\ OwnersPaired'
  <1>. SUFFICES ASSUME TypeOK, OwnersPaired, [Next]_vars PROVE TypeOK' /\ OwnersPaired'
    OBVIOUS
  <1>1. ConnTypeOK'
    <2>1. CASE ConnNext
      BY <2>1, ConnTypesKept DEF TypeOK
    <2>2. CASE UNCHANGED connVars
      BY <2>2 DEF TypeOK, ConnTypeOK, connVars
    <2>. QED  BY <2>1, <2>2, LifecycleStepsOfConnection
  <1>2. /\ MaxOwners \in Nat /\ DOMAIN size = {"talkers", "listeners"}
        /\ size["talkers"] \in 0 .. MaxOwners /\ size["listeners"] \in 0 .. MaxOwners
    BY LifecycleAssumption DEF TypeOK
  <1>. USE DEF OwnersPaired
  <1>3. CASE UNCHANGED vars
    BY <1>1, <1>3 DEF TypeOK, vars, lifeVars
  <1>4. CASE Construct
    BY <1>1, <1>4
    DEF TypeOK, Construct, ConstructConnection, ConstructMembers, SetCallbacks, Set, StartTimer,
        StartTimerFails, Goto, AppStates, Constructing, Usable, Destroying, Callbacks
  <1>5. CASE Attach
    BY <1>1, <1>2, <1>5 DEF TypeOK, Attach, PushBack, Goto, AppStates, Usable
  <1>6. CASE BeginDestruction \/ Destroy
    BY <1>1, <1>6
    DEF TypeOK, BeginDestruction, Destroy, ReplaceCallbacks, Set, DestroyMembers, JoinTalker,
        DestroyConnection, Free, Goto, AppStates, Replacing, Destroying, Callbacks
  <1>7. CASE TalkerStep
    <2>1. UNCHANGED <<app, target, handler, size, failed>> /\ (UNCHANGED on \/ on' = FALSE)
      BY <1>7 DEF TalkerStep, TalkBegin, TalkEnd, TalkActive, TalkElement, TalkReturns,
                  TalkerEnds
    <2>2. loop' \in [Loops -> LoopType] /\ fault' \in FaultType
      <3>1. CASE TalkBegin \/ TalkEnd
        BY <3>1, LoopTypes DEF TalkBegin, TalkEnd, Loops
      <3>2. CASE TalkActive
        <4>1. /\ [loop["talk"] EXCEPT !.at = "active"] \in LoopType
              /\ Fault("talker", "connection") \in FaultType
          BY DEF TypeOK, Loops, LoopType, Fault, FaultType
        <4>. QED  BY <3>2, <4>1, OutOfLoopType DEF TalkActive, LoopOn, TypeOK
      <3>3. CASE TalkElement
        <4>1. Fault("talker", "connection") \in FaultType
          BY DEF Fault, FaultType
        <4>. QED  BY <3>3, <4>1, LoopTypes DEF TalkElement, Loops, TypeOK
      <3>4. CASE TalkReturns \/ TalkerEnds
        BY <3>4, OutOfLoopType DEF TalkReturns, TalkerEnds, LoopOn, TypeOK
      <3>. QED  BY <1>7, <3>1, <3>2, <3>3, <3>4 DEF TalkerStep
    <2>. QED  BY <1>1, <2>1, <2>2 DEF TypeOK
  <1>8. CASE RunnerStep
    <2>1. UNCHANGED <<app, target, size, on, failed>>
      BY <1>8 DEF RunnerStep, ConnectionStep, lifeVars, Opens, ResetBegin, ResetLoop,
                  ResetReturns, OpenReturns, Closes, CloseReturns, UserThrows, ListenBegin,
                  ListenLoop, ListenReturns, Orphan
    <2>2. handler' \in {"none", "noop", "set", "user"}
      BY <1>8 DEF TypeOK, Callbacks, RunnerStep, ConnectionStep, lifeVars, Opens, ResetBegin,
                  ResetLoop, ResetReturns, OpenReturns, Closes, CloseReturns, UserThrows,
                  ListenBegin, ListenLoop, ListenReturns, Orphan
    <2>3. loop' \in [Loops -> LoopType] /\ fault' \in FaultType
      <3>1. CASE ResetBegin \/ ResetLoop
        BY <3>1, LoopTypes DEF ResetBegin, ResetLoop, Loops
      <3>2. CASE ListenBegin \/ ListenLoop
        BY <3>2, LoopTypes DEF ListenBegin, ListenLoop, Loops
      <3>3. CASE ResetReturns \/ OpenReturns \/ CloseReturns \/ ListenReturns \/ Orphan
        <4>1. /\ Fault("runner", "callback") \in FaultType
              /\ Fault("runner", "connection") \in FaultType
          BY DEF Fault, FaultType
        <4>. QED
          BY <3>3, <4>1, OutOfLoopType
          DEF ResetReturns, OpenReturns, CloseReturns, ListenReturns, Orphan, LoopOn, TypeOK
      <3>4. CASE ConnectionStep \/ Opens \/ Closes \/ UserThrows
        BY <3>4 DEF ConnectionStep, lifeVars, Opens, Closes, UserThrows, TypeOK
      <3>. QED  BY <1>8, <3>1, <3>2, <3>3, <3>4 DEF RunnerStep
    <2>. QED  BY <1>1, <2>1, <2>2, <2>3 DEF TypeOK
  <1>9. CASE PongTimer
    BY <1>1, <1>9 DEF TypeOK, PongTimer, lifeVars
  <1>. QED  BY <1>3, <1>4, <1>5, <1>6, <1>7, <1>8, <1>9 DEF Next

\* The types are kept whatever the number of owners; in particular a loop never
\* has more elements to come than there are queues (rosbridgeclient.cpp:39-43,
\* 72-106).
THEOREM LifecycleTypeCorrect == Spec => []TypeOK
  <1>1. Init => TypeOK /\ OwnersPaired
    <2>. SUFFICES ASSUME Init PROVE TypeOK /\ OwnersPaired
      OBVIOUS
    <2>1. ConnTypeOK
      BY InitConnInv DEF Init, ConnInv
    <2>2. 0 \in 0 .. MaxOwners
      BY LifecycleAssumption
    <2>. QED
      BY <2>1, <2>2, OutOfLoopType
      DEF Init, TypeOK, OwnersPaired, AppStates, Constructing, FaultType
  <1>. QED  BY <1>1, LifecycleTypesKept, PTL DEF Spec

-----------------------------------------------------------------------------
(***************************************************************************)
(* The talker timer inside of a client.                                    *)
(***************************************************************************)

\* The steps of a client are, for the talker timer, those of its users'
\* contract: talk() is called only while the timer has its thread, which ends
\* between two calls.
LEMMA LifecycleStepsOfTimer ==
    LInv /\ [Next]_vars => [TalkerTimer!Next]_(TalkerTimer!vars)
  <1>. SUFFICES ASSUME LInv, [Next]_vars PROVE [TalkerTimer!Next]_(TalkerTimer!vars)
    OBVIOUS
  <1>. USE DEF TalkerTimer!Next, TalkerTimer!vars
  <1>1. CASE UNCHANGED vars
    BY <1>1 DEF vars, lifeVars
  <1>2. ASSUME fault = NoFault,
               UNCHANGED <<on, loop["talk"]>>
        PROVE  TalkerTimer!Next \/ UNCHANGED TalkerTimer!vars
    BY <1>2 DEF TalkerTimer!Abort
  <1>3. CASE Next /\ Construct
    <2>1. fault = NoFault
      BY <1>3 DEF Next
    <2>2. CASE StartTimer
      <3>1. ~on /\ on' = TRUE /\ UNCHANGED <<loop, fault>>
        BY <2>2 DEF StartTimer, Goto, LInv, TalkerLives, Usable, Replacing
      <3>. QED  BY <2>1, <3>1 DEF TalkerTimer!TurnOn
    <2>3. CASE ConstructConnection \/ ConstructMembers \/ SetCallbacks \/ StartTimerFails
      BY <1>2, <2>1, <2>3
      DEF ConstructConnection, ConstructMembers, SetCallbacks, Set, StartTimerFails
    <2>. QED  BY <1>3, <2>2, <2>3 DEF Construct
  <1>4. CASE Next /\ (Attach \/ BeginDestruction \/ Destroy \/ PongTimer)
    <2>1. fault = NoFault
      BY <1>4 DEF Next
    <2>. QED
      BY <1>2, <1>4, <2>1
      DEF Attach, PushBack, BeginDestruction, Destroy, ReplaceCallbacks, Set, DestroyMembers,
          JoinTalker, DestroyConnection, Free, PongTimer, lifeVars
  <1>5. CASE Next /\ RunnerStep
    <2>0. fault = NoFault /\ DOMAIN loop = Loops /\ Shapes
      BY <1>5 DEF Next, LInv, Shapes
    <2>1. UNCHANGED on
      BY <1>5 DEF RunnerStep, ConnectionStep, lifeVars, Opens, ResetBegin, ResetLoop,
                  ResetReturns, OpenReturns, Closes, CloseReturns, UserThrows, ListenBegin,
                  ListenLoop, ListenReturns, Orphan
    <2>2. loop'["talk"] = loop["talk"]
      <3>1. ASSUME NEW l \in {"reset", "listen"}, NEW r, LoopOn(l, r)
            PROVE  loop'["talk"] = loop["talk"]
        BY <2>0, <3>1 DEF LoopOn, Loops
      <3>2. CASE ResetBegin \/ ResetLoop
        BY <3>1, <3>2 DEF ResetBegin, ResetLoop, Begin, TakeEnd, Element, Access
      <3>3. CASE ListenBegin \/ ListenLoop
        BY <3>1, <3>3 DEF ListenBegin, ListenLoop, Begin, TakeEnd, Element, Access
      <3>4. CASE ResetReturns \/ ListenReturns
        BY <3>1, <3>4 DEF ResetReturns, ListenReturns
      <3>5. CASE ConnectionStep \/ Opens \/ OpenReturns \/ Closes \/ CloseReturns \/ UserThrows
                 \/ Orphan
        BY <3>5 DEF ConnectionStep, lifeVars, Opens, OpenReturns, Closes, CloseReturns,
                    UserThrows, Orphan
      <3>. QED  BY <1>5, <3>2, <3>3, <3>4, <3>5 DEF RunnerStep
    <2>. QED  BY <1>2, <2>0, <2>1, <2>2
  <1>6. CASE Next /\ TalkerStep
    <2>0. fault = NoFault /\ Shapes
      BY <1>6 DEF Next, LInv
    <2>1. CASE TalkReturns
      <3>1. /\ loop["talk"] # OutOfLoop /\ loop'["talk"] = OutOfLoop
            /\ UNCHANGED <<on, fault>>
        BY <2>0, <2>1 DEF TalkReturns, AtEnd, LoopOn, OutOfLoop, Shapes, Loops
      <3>. QED  BY <2>0, <3>1 DEF TalkerTimer!CallEnds
    <2>2. CASE TalkerEnds
      <3>1. on /\ loop["talk"] = OutOfLoop /\ on' = FALSE /\ UNCHANGED <<loop, fault>>
        BY <2>2 DEF TalkerEnds
      <3>. QED  BY <2>0, <3>1 DEF TalkerTimer!ThreadEnds
    <2>3. CASE ~(TalkReturns \/ TalkerEnds)
      <3>1. UNCHANGED on
        BY <1>6, <2>3 DEF TalkerStep, TalkBegin, TalkEnd, TalkActive, TalkElement
      <3>2. UNCHANGED fault \/ UNCHANGED loop
        BY <1>6, <2>3 DEF TalkerStep, TalkBegin, TalkEnd, TalkActive, TalkElement, Begin, TakeEnd,
                          Element, Access
      <3>3. loop["talk"] = OutOfLoop => on
        BY <1>6, <2>3 DEF TalkerStep, TalkBegin, TalkEnd, TalkActive, TalkElement, TakeEnd,
                          OutOfLoop
      <3>4. CASE UNCHANGED loop
        BY <1>2, <2>0, <3>1, <3>4
      <3>5. CASE UNCHANGED fault
        <4>1. CASE (loop["talk"] # OutOfLoop) = (loop["talk"] # OutOfLoop)'
          BY <3>1, <3>5, <4>1
        <4>2. CASE loop["talk"] = OutOfLoop /\ loop'["talk"] # OutOfLoop
          BY <2>0, <3>1, <3>3, <3>5, <4>2 DEF TalkerTimer!CallBegins
        <4>3. CASE loop["talk"] # OutOfLoop /\ loop'["talk"] = OutOfLoop
          BY <2>0, <3>1, <3>5, <4>3 DEF TalkerTimer!CallEnds
        <4>. QED  BY <4>1, <4>2, <4>3
      <3>. QED  BY <3>2, <3>4, <3>5
    <2>. QED  BY <2>1, <2>2, <2>3
  <1>. QED  BY <1>1, <1>3, <1>4, <1>5, <1>6 DEF Next

\* The timer of a client keeps the contract of PeriodicCalls from the last
\* statement of the constructor to the join in its destructor: talk() runs only
\* while the timer is on, which goes off between two calls.  That it has one
\* thread, talk() not stopping it, is OneCallAtATimeHolds of TimerProofs
\* (rosbridgeclient.cpp:28, rosbridgeclient.h:70, utils.cpp:40-85).
THEOREM LifecycleImplementsPeriodicCallsSteps ==
    Spec => TalkerTimer!Init /\ [][TalkerTimer!Next]_(TalkerTimer!vars)
  <1>1. Init => TalkerTimer!Init
    BY DEF Init, TalkerTimer!Init, Loops
  <1>. QED  BY <1>1, LifecycleStepsOfTimer, LInvHolds, PTL DEF Spec

=============================================================================
