-------------------------- MODULE ConnectionProofs --------------------------
(***************************************************************************)
(* Proofs about Connection: what the other threads and the user see of the *)
(* runner thread.  A specification that implements ConnSafety inherits the *)
(* theorems.                                                               *)
(***************************************************************************)
EXTENDS Connection, TLAPS

-----------------------------------------------------------------------------
(***************************************************************************)
(* The inductive invariant: where the runner is determines what it has     *)
(* published.                                                              *)
(***************************************************************************)
Cleared == active = "false" /\ message_sender = "noop"

LocalsExist ==
    /\ runner \in {"dial", "run", "on_open", "on_close", "ran", "ran_cleared",
                   "sleep"} => alive /\ ~thrown
    /\ runner = "unwind" => alive /\ thrown

\* Before connect() ends normally, and after lines 116-117, nothing refers to
\* the locals.
ClearedInTime ==
    /\ runner = "ran_cleared" => message_sender = "noop"
    /\ runner \in {"sleep", "loop", "done"} => Cleared
    /\ runner \in {"exit", "exit_cleared"} => Cleared \/ thrown

\* on_disconnection is the last callback of a connection that ends normally.
ReportedInTime ==
    /\ runner \in {"ran", "ran_cleared", "sleep"} => user = "down"
    /\ runner \in {"exit", "exit_cleared", "loop"} => user = "down" \/ thrown
    /\ runner = "exit_cleared" => message_sender = "noop"

ConnInv == ConnTypeOK /\ LocalsExist /\ ClearedInTime /\ ReportedInTime

\* The invariant holds initially.
LEMMA InitConnInv == ConnInit => ConnInv
  <1>. SUFFICES ASSUME ConnInit PROVE ConnInv
    OBVIOUS
  <1>1. ConnTypeOK
    BY DEF ConnInit, ConnTypeOK, RunnerStates, WsStates
  <1>2. LocalsExist /\ ClearedInTime /\ ReportedInTime
    BY DEF ConnInit, LocalsExist, ClearedInTime, ReportedInTime, Cleared
  <1>. QED  BY <1>1, <1>2 DEF ConnInv

\* The steps of Connection keep the types.
LEMMA ConnTypesKept == ASSUME ConnTypeOK, ConnNext PROVE ConnTypeOK'
  <1>. USE DEF ConnTypeOK, RunnerStates, WsStates
  <1>1. CASE NewClient \/ RunnerEnds \/ Dial
    BY <1>1 DEF NewClient, RunnerEnds, Dial
  <1>2. CASE RunReturns \/ OnConnection \/ OnClose
    BY <1>2 DEF RunReturns, OnConnection, OnClose
  <1>3. CASE ClearSender \/ ClearActive \/ ConnectReturns
    BY <1>3 DEF ClearSender, ClearActive, ConnectReturns
  <1>4. CASE NetworkEvents
    BY <1>4 DEF NetworkEvents, OpenHandshake, OpenFails, RemoteClose, Terminate,
                MessageThrows
  <1>5. CASE ConnectThrows \/ CallbackThrows
    BY <1>5 DEF ConnectThrows, CallbackThrows
  <1>6. CASE PongMissed \/ Shutdown
    BY <1>6 DEF PongMissed, Shutdown
  <1>. QED  BY <1>1, <1>2, <1>3, <1>4, <1>5, <1>6 DEF ConnNext, RunnerSteps

\* They keep what is published in step with the runner.
LEMMA ConnStepPreserves == ConnInv /\ [ConnNext]_connVars => ConnInv'
  <1>. SUFFICES ASSUME ConnInv, [ConnNext]_connVars PROVE ConnInv'
    OBVIOUS
  <1>. USE DEF LocalsExist, ClearedInTime, ReportedInTime, Cleared
  <1>1. CASE UNCHANGED connVars
    BY <1>1 DEF connVars, ConnInv, ConnTypeOK
  <1>2. CASE ConnNext
    <2>1. ConnTypeOK'
      BY <1>2, ConnTypesKept DEF ConnInv
    <2>2. LocalsExist /\ ClearedInTime /\ ReportedInTime
      BY DEF ConnInv
    <2>3. ASSUME NewClient \/ RunnerEnds \/ Dial
          PROVE  LocalsExist' /\ ClearedInTime' /\ ReportedInTime'
      BY <2>2, <2>3 DEF NewClient, RunnerEnds, Dial
    <2>4. ASSUME RunReturns \/ OnConnection \/ OnClose
          PROVE  LocalsExist' /\ ClearedInTime' /\ ReportedInTime'
      BY <2>2, <2>4 DEF RunReturns, OnConnection, OnClose
    <2>5. ASSUME ClearSender \/ ClearActive \/ ConnectReturns
          PROVE  LocalsExist' /\ ClearedInTime' /\ ReportedInTime'
      BY <2>2, <2>5 DEF ClearSender, ClearActive, ConnectReturns
    <2>6. ASSUME NetworkEvents PROVE LocalsExist' /\ ClearedInTime' /\ ReportedInTime'
      BY <2>2, <2>6 DEF NetworkEvents, OpenHandshake, OpenFails, RemoteClose, Terminate,
                        MessageThrows
    <2>7. ASSUME PongMissed \/ Shutdown
          PROVE  LocalsExist' /\ ClearedInTime' /\ ReportedInTime'
      BY <2>2, <2>7 DEF PongMissed, Shutdown
    <2>8. ASSUME ConnectThrows \/ CallbackThrows
          PROVE  LocalsExist' /\ ClearedInTime' /\ ReportedInTime'
      BY <2>2, <2>8 DEF ConnectThrows, CallbackThrows
    <2>. QED  BY <1>2, <2>1, <2>3, <2>4, <2>5, <2>6, <2>7, <2>8
              DEF ConnNext, RunnerSteps, ConnInv
  <1>. QED  BY <1>1, <1>2

\* What the invariant says of the two properties.
LEMMA ConnInvImplies == ConnInv => DanglingOnlyAfterThrow /\ MissedOnlyByThrow
  BY DEF ConnInv, ConnTypeOK, LocalsExist, ClearedInTime, ReportedInTime, Cleared,
         RunnerStates, DanglingOnlyAfterThrow, MissedOnlyByThrow

-----------------------------------------------------------------------------
(***************************************************************************)
(* The theorems.                                                           *)
(***************************************************************************)

\* The invariant holds in every reachable state.
THEOREM ConnInvHolds == ConnSafety => []ConnInv
  BY InitConnInv, ConnStepPreserves, PTL DEF ConnSafety

\* active and message_sender refer to the locals of runner() only while these
\* exist, but for what follows an exception (connection.h:110-117).
THEOREM DanglingOnlyAfterThrowHolds == ConnSafety => []DanglingOnlyAfterThrow
  BY ConnInvHolds, ConnInvImplies, PTL

\* The only connection whose end is not reported to the user is one torn down
\* by an exception (connection.h:113-115, 127, 176).
THEOREM MissedOnlyByThrowHolds == ConnSafety => []MissedOnlyByThrow
  BY ConnInvHolds, ConnInvImplies, PTL

=============================================================================
