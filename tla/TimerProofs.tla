---------------------------- MODULE TimerProofs -----------------------------
(***************************************************************************)
(* A Timer makes no second thread and leaves none behind, for any number   *)
(* of starts, unless its function stops it.                                *)
(***************************************************************************)
EXTENDS Timer, TLAPS

\* The threads made are the first ones, and there is room for the next.
ThreadsMade ==
    /\ \A w \in Threads : thread[w] = "none" <=> made < w
    /\ (at \in {"start", "make"} \/ (at \in {"stop", "join"} /\ then = "start"))
          => made < MaxStarts
    /\ at = "assign" => made \in Threads

\* A thread that runs is the one that _thd owns, or is about to.
Owned ==
    \A w \in Threads :
        thread[w] \notin {"none", "ended"} => w = _thd \/ (at = "assign" /\ w = made)

\* The flag is off from the store of stop() until that of start().
FlagOff == at \in {"join", "start", "destroy", "gone"} => ~_execute

\* Unless the function has called stop(): with the flag on, the thread of _thd
\* runs; with the flag off, or a new thread on its way, there is none.
FlagTellsThread ==
    ~selfStopped =>
        /\ _execute /\ joinable => thread[_thd] \notin {"none", "ended"}
        /\ at \in {"make", "assign"} => _execute
        /\ at = "assign" => thread[made] \notin {"none", "ended"}
        /\ (~_execute /\ at # "join") \/ at \in {"make", "assign"} => ~joinable

SelfStopSeen == \A w \in Threads : thread[w] = "self_join" => selfStopped

TInv ==
    /\ TypeOK
    /\ ThreadsMade
    /\ Owned
    /\ FlagOff
    /\ FlagTellsThread
    /\ SelfStopSeen
    /\ TerminatedOnlyBySelfStop

-----------------------------------------------------------------------------
\* The invariant holds initially.
LEMMA InitTInv == Init => TInv
  <1>. SUFFICES ASSUME Init PROVE TInv
    OBVIOUS
  <1>. USE TimerAssumption DEF Init, Threads, NoThread, joinable
  <1>1. TypeOK
    <2>1. thread \in [Threads -> ThreadStates]
      BY Zenon DEF ThreadStates
    <2>2. at \in OwnerStates /\ then \in {"idle", "start", "destroy"}
      BY DEF OwnerStates
    <2>3. _thd \in Threads \cup {NoThread} /\ made \in 0 .. MaxStarts
      OBVIOUS
    <2>4. _execute \in BOOLEAN /\ terminated \in BOOLEAN /\ selfStopped \in BOOLEAN
      BY Zenon
    <2>. QED  BY <2>1, <2>2, <2>3, <2>4 DEF TypeOK
  <1>2. ThreadsMade
    <2>1. \A w \in Threads : thread[w] = "none" /\ made < w
      BY SMT
    <2>2. at = "idle" /\ then = "idle"
      OBVIOUS
    <2>. QED  BY <2>1, <2>2 DEF ThreadsMade
  <1>3. Owned /\ FlagOff /\ FlagTellsThread /\ SelfStopSeen /\ TerminatedOnlyBySelfStop
    BY DEF Owned, FlagOff, FlagTellsThread, SelfStopSeen, TerminatedOnlyBySelfStop
  <1>. QED  BY <1>1, <1>2, <1>3 DEF TInv

\* The calls of the owner.
LEMMA CallsPreserve ==
    ASSUME TInv, ~terminated, Start \/ Stop \/ Destroy PROVE TInv'
  <1>. USE TimerAssumption DEF TInv, Threads, NoThread, joinable, Start, Stop, Destroy,
         StopFirst, timerVars
  <1>1. TypeOK'
    BY DEF TypeOK, OwnerStates, ThreadStates
  <1>2. ThreadsMade'
    BY DEF TypeOK, ThreadsMade
  <1>3. Owned' /\ SelfStopSeen' /\ TerminatedOnlyBySelfStop'
    BY DEF Owned, SelfStopSeen, TerminatedOnlyBySelfStop
  <1>4. FlagOff' /\ FlagTellsThread'
    BY DEF TypeOK, FlagOff, FlagTellsThread
  <1>. QED  BY <1>1, <1>2, <1>3, <1>4 DEF TInv

\* The steps inside the owner's calls.
LEMMA OwnerStepPreserves == ASSUME TInv, ~terminated, OwnerStep PROVE TInv'
  <1>. USE TimerAssumption DEF Threads, NoThread, joinable, ownerVars, timerVars
  <1>1. ASSUME StopStore PROVE TInv'
    <2>1. TypeOK' /\ ThreadsMade'
      BY <1>1 DEF TInv, StopStore, TypeOK, OwnerStates, ThreadsMade
    <2>2. Owned' /\ SelfStopSeen' /\ TerminatedOnlyBySelfStop'
      BY <1>1 DEF TInv, StopStore, Owned, SelfStopSeen, TerminatedOnlyBySelfStop
    <2>3. FlagOff' /\ FlagTellsThread'
      BY <1>1 DEF TInv, StopStore, FlagOff, FlagTellsThread
    <2>. QED  BY <2>1, <2>2, <2>3 DEF TInv
  <1>2. ASSUME Join PROVE TInv'
    <2>1. TypeOK' /\ ThreadsMade'
      BY <1>2 DEF TInv, Join, TypeOK, OwnerStates, ThreadsMade
    <2>2. \A w \in Threads : thread[w] \in {"none", "ended"}
      BY <1>2 DEF TInv, Join, Owned, TypeOK
    <2>3. Owned' /\ SelfStopSeen' /\ TerminatedOnlyBySelfStop'
      BY <1>2, <2>2 DEF TInv, Join, Owned, SelfStopSeen, TerminatedOnlyBySelfStop
    <2>4. FlagOff' /\ FlagTellsThread'
      BY <1>2 DEF TInv, Join, FlagOff, FlagTellsThread, TypeOK
    <2>. QED  BY <2>1, <2>3, <2>4 DEF TInv
  <1>3. ASSUME StartStore PROVE TInv'
    <2>1. TypeOK' /\ ThreadsMade'
      BY <1>3 DEF TInv, StartStore, TypeOK, OwnerStates, ThreadsMade
    <2>2. Owned' /\ SelfStopSeen' /\ TerminatedOnlyBySelfStop'
      BY <1>3 DEF TInv, StartStore, Owned, SelfStopSeen, TerminatedOnlyBySelfStop
    <2>3. FlagOff' /\ FlagTellsThread'
      BY <1>3 DEF TInv, StartStore, FlagOff, FlagTellsThread
    <2>. QED  BY <2>1, <2>2, <2>3 DEF TInv
  <1>4. ASSUME Make PROVE TInv'
    <2>1. made + 1 \in Threads /\ thread[made + 1] = "none"
      BY <1>4 DEF TInv, Make, TypeOK, ThreadsMade
    <2>2. TypeOK'
      BY <1>4, <2>1 DEF TInv, Make, TypeOK, OwnerStates, ThreadStates
    <2>3. ThreadsMade'
      BY <1>4, <2>1 DEF TInv, Make, TypeOK, ThreadsMade
    <2>4. thread'[made + 1] = "test" /\ \A w \in Threads : w # made + 1 => thread'[w] = thread[w]
      BY <1>4, <2>1 DEF TInv, Make, TypeOK
    <2>5. Owned' /\ SelfStopSeen' /\ TerminatedOnlyBySelfStop'
      BY <1>4, <2>1, <2>4 DEF TInv, Make, Owned, SelfStopSeen, TerminatedOnlyBySelfStop
    <2>6. FlagOff'
      BY <1>4 DEF TInv, Make, FlagOff
    <2>7. FlagTellsThread'
      BY <1>4, <2>1, <2>4 DEF TInv, Make, FlagTellsThread
    <2>. QED  BY <2>2, <2>3, <2>5, <2>6, <2>7 DEF TInv
  <1>5. ASSUME MakeFails PROVE TInv'
    <2>1. TypeOK' /\ ThreadsMade'
      BY <1>5 DEF TInv, MakeFails, TypeOK, OwnerStates, ThreadsMade
    <2>2. Owned' /\ SelfStopSeen' /\ TerminatedOnlyBySelfStop'
      BY <1>5 DEF TInv, MakeFails, Owned, SelfStopSeen, TerminatedOnlyBySelfStop
    <2>3. FlagOff' /\ FlagTellsThread'
      BY <1>5 DEF TInv, MakeFails, FlagOff, FlagTellsThread
    <2>. QED  BY <2>1, <2>2, <2>3 DEF TInv
  <1>6. ASSUME Assign PROVE TInv'
    <2>1. TypeOK' /\ ThreadsMade'
      BY <1>6 DEF TInv, Assign, TypeOK, OwnerStates, ThreadsMade
    <2>2. Owned' /\ SelfStopSeen' /\ TerminatedOnlyBySelfStop'
      BY <1>6 DEF TInv, Assign, TypeOK, Owned, SelfStopSeen, FlagTellsThread,
                  TerminatedOnlyBySelfStop
    <2>3. FlagOff' /\ FlagTellsThread'
      BY <1>6 DEF TInv, Assign, TypeOK, FlagOff, FlagTellsThread
    <2>. QED  BY <2>1, <2>2, <2>3 DEF TInv
  <1>7. ASSUME DestroyThread PROVE TInv'
    <2>1. TypeOK' /\ ThreadsMade'
      BY <1>7 DEF TInv, DestroyThread, TypeOK, OwnerStates, ThreadsMade
    <2>2. Owned' /\ SelfStopSeen' /\ TerminatedOnlyBySelfStop'
      BY <1>7 DEF TInv, DestroyThread, TypeOK, Owned, SelfStopSeen, FlagOff,
                  FlagTellsThread, TerminatedOnlyBySelfStop
    <2>3. FlagOff' /\ FlagTellsThread'
      BY <1>7 DEF TInv, DestroyThread, TypeOK, FlagOff, FlagTellsThread
    <2>. QED  BY <2>1, <2>2, <2>3 DEF TInv
  <1>. QED  BY <1>1, <1>2, <1>3, <1>4, <1>5, <1>6, <1>7 DEF OwnerStep

\* The steps of a thread.
LEMMA ThreadStepPreserves ==
    ASSUME TInv, ~terminated, NEW w \in Threads, ThreadStep(w) \/ SelfStop(w)
    PROVE  TInv'
  <1>. USE TimerAssumption DEF Threads, NoThread, joinable, ownerVars, timerVars
  <1>. USE DEF ThreadStep, Test, FuncReturns, SleepEnds, SelfStop, SelfJoin
  <1>1. TypeOK'
    BY DEF TInv, TypeOK, ThreadStates
  <1>2. thread[w] \notin {"none", "ended"} /\ thread'[w] # "none"
    BY DEF TInv, TypeOK
  <1>3. \A v \in Threads : v # w => thread'[v] = thread[v]
    BY DEF TInv, TypeOK
  <1>4. UNCHANGED <<at, then, made>>
    OBVIOUS
  <1>10. \/ UNCHANGED _thd
         \/ /\ _thd' = NoThread /\ _thd # w /\ thread[_thd] = "ended"
            /\ thread[w] = "self_join" /\ UNCHANGED selfStopped
    OBVIOUS
  <1>5. ThreadsMade'
    BY <1>2, <1>3, <1>4 DEF TInv, TypeOK, ThreadsMade
  <1>6. Owned'
    BY <1>2, <1>3, <1>4, <1>10 DEF TInv, TypeOK, Owned
  <1>7. SelfStopSeen' /\ TerminatedOnlyBySelfStop'
    BY <1>3 DEF TInv, TypeOK, SelfStopSeen, TerminatedOnlyBySelfStop
  <1>8. FlagOff'
    BY <1>4 DEF TInv, TypeOK, FlagOff
  <1>9. FlagTellsThread'
    <2>1. CASE selfStopped'
      BY <2>1 DEF FlagTellsThread
    <2>2. CASE ~selfStopped'
      <3>1. ~selfStopped /\ _execute' = _execute
        BY <2>2 DEF TInv, TypeOK
      <3>2. _execute => thread'[w] # "ended"
        BY <2>2 DEF TInv, TypeOK
      <3>3. UNCHANGED _thd
        BY <1>10, <3>1 DEF TInv, SelfStopSeen
      <3>. QED
        BY <1>2, <1>3, <1>4, <3>1, <3>2, <3>3 DEF TInv, TypeOK, ThreadsMade, FlagTellsThread
    <2>. QED  BY <2>1, <2>2
  <1>. QED  BY <1>1, <1>5, <1>6, <1>7, <1>8, <1>9 DEF TInv

\* The invariant is inductive.
LEMMA NextPreserves == TInv /\ [Next]_vars => TInv'
  <1>. SUFFICES ASSUME TInv, [Next]_vars PROVE TInv'
    OBVIOUS
  <1>1. CASE UNCHANGED vars
    BY <1>1 DEF vars, ownerVars, timerVars, TInv, TypeOK, ThreadsMade, Owned, FlagOff,
                FlagTellsThread, SelfStopSeen, TerminatedOnlyBySelfStop, joinable
  <1>2. CASE Next
    BY <1>2, CallsPreserve, OwnerStepPreserves, ThreadStepPreserves DEF Next
  <1>. QED  BY <1>1, <1>2

\* The invariant holds in every reachable state.
THEOREM TInvHolds == Spec => []TInv
  BY InitTInv, NextPreserves, PTL DEF Spec

-----------------------------------------------------------------------------
(***************************************************************************)
(* The theorems.                                                           *)
(***************************************************************************)

\* The variables of Timer keep their types, for any bound on its starts.
THEOREM TimerTypeCorrect == Spec => []TypeOK
  <1>1. TInv => TypeOK
    BY DEF TInv
  <1>. QED  BY <1>1, TInvHolds, PTL

\* Between the calls of its owner a timer has one thread iff is_running() says
\* so, unless its function stops it (utils.cpp:64-90).
THEOREM RunningIsAccurateHolds == Spec => []RunningIsAccurate
  <1>1. TInv => RunningIsAccurate
    <2>. SUFFICES ASSUME TInv, at \in {"idle", "gone"}, ~selfStopped
                  PROVE  Alive = (IF is_running THEN {_thd} ELSE {})
      BY DEF RunningIsAccurate
    <2>1. Alive \subseteq {_thd}
      BY DEF TInv, Owned, Alive
    <2>2. CASE is_running
      <3>1. _thd \in Threads /\ thread[_thd] \notin {"none", "ended"}
        BY <2>2 DEF TInv, TypeOK, FlagTellsThread, is_running, joinable
      <3>. QED  BY <2>1, <2>2, <3>1 DEF Alive
    <2>3. CASE ~is_running
      <3>1. _thd = NoThread
        BY <2>3 DEF TInv, FlagTellsThread, is_running, joinable
      <3>2. NoThread \notin Threads
        BY DEF NoThread, Threads
      <3>. QED  BY <2>1, <2>3, <3>1, <3>2 DEF Alive
    <2>. QED  BY <2>2, <2>3
  <1>. QED  BY <1>1, TInvHolds, PTL

\* start() and the destructor end the process only after a stop() by the
\* function of the timer (utils.cpp:57-85).
THEOREM TerminatedOnlyBySelfStopHolds == Spec => []TerminatedOnlyBySelfStop
  <1>1. TInv => TerminatedOnlyBySelfStop
    BY DEF TInv
  <1>. QED  BY <1>1, TInvHolds, PTL

-----------------------------------------------------------------------------
(***************************************************************************)
(* What the users of a timer see.                                          *)
(***************************************************************************)

\* What a step of one thread changes of it.
LEMMA OneThreadMoves ==
    ASSUME TypeOK, NEW w \in Threads, NEW s \in ThreadStates,
           thread' = [thread EXCEPT ![w] = s]
    PROVE  /\ s = "ended" => Alive' = Alive \ {w}
           /\ s # "ended" /\ s # "none" => Alive' = Alive \cup {w}
           /\ s = "func" \/ s = "self_join" => InCall' = InCall \cup {w}
           /\ s # "func" /\ s # "self_join" => InCall' = InCall \ {w}
  <1>1. thread'[w] = s /\ \A x \in Threads : x # w => thread'[x] = thread[x]
    BY DEF TypeOK
  <1>. QED  BY <1>1 DEF Alive, InCall

\* A thread that is not on its way is the one of _thd; without a stop() by the
\* function it is the only one.
LEMMA FewThreads ==
    ASSUME TInv
    PROVE  /\ at # "assign" => Alive \subseteq {_thd}
           /\ at = "make" /\ ~selfStopped => Alive = {}
           /\ at = "assign" /\ ~selfStopped => Alive \subseteq {made}
  <1>1. at # "assign" => Alive \subseteq {_thd}
    BY DEF TInv, Owned, Alive
  <1>2. ASSUME at \in {"make", "assign"}, ~selfStopped PROVE _thd \notin Alive
    <2>1. _thd = NoThread
      BY <1>2 DEF TInv, FlagTellsThread, joinable
    <2>. QED  BY <2>1 DEF Alive, NoThread, Threads
  <1>3. at = "assign" /\ ~selfStopped => Alive \subseteq {made}
    BY <1>2 DEF TInv, Owned, Alive
  <1>. QED  BY <1>1, <1>2, <1>3

\* A timer is in one call of its function at a time, until the function stops
\* the timer itself: start() then does not wait for its thread to end
\* (utils.cpp:70-85).
OneCallAtATime == ~selfStopped => Calls!AtMostOne(InCall)

THEOREM OneCallAtATimeHolds == Spec => []OneCallAtATime
  <1>1. TInv => OneCallAtATime
    <2>1. InCall \subseteq Alive
      BY DEF InCall, Alive
    <2>. QED  BY <2>1, FewThreads DEF OneCallAtATime, Calls!AtMostOne
  <1>. QED  BY <1>1, TInvHolds, PTL

\* Every step of a timer is one of PeriodicCalls or none, the threads counted
\* one by one: whatever the function and the owner do, only a thread of the
\* timer begins a call, a thread ends between two calls, and a second thread is
\* made only after the function has stopped the timer.  This is the part of
\* ImplementsPeriodicCalls without its liveness (utils.cpp:64-85).
THEOREM ImplementsPeriodicCallsSteps ==
    Spec => Calls!Init /\ [][Calls!Next]_(Calls!vars)
  <1>1. Init => Calls!Init
    BY DEF Init, Calls!Init, Alive, InCall
  <1>2. TInv /\ [Next]_vars => [Calls!Next]_(Calls!vars)
    <2>. SUFFICES ASSUME TInv, [Next]_vars PROVE [Calls!Next]_(Calls!vars)
      OBVIOUS
    <2>1. UNCHANGED thread => UNCHANGED <<Alive, InCall>>
      BY DEF Alive, InCall
    <2>2. CASE UNCHANGED vars \/ (Next /\ (Start \/ Stop \/ Destroy \/ StopStore
                                          \/ StartStore \/ MakeFails))
      BY <2>1, <2>2 DEF Calls!vars, vars, timerVars, ownerVars, Start, Stop, Destroy,
                        StopStore, StartStore, MakeFails
    <2>3. CASE Next /\ Join
      <3>1. UNCHANGED <<thread, terminated>> /\ selfStopped' = FALSE /\ ~terminated
        BY <2>3 DEF Next, Join
      <3>2. Alive = {}
        <4>1. _thd \notin Alive
          BY <2>3 DEF Join, joinable, Alive, NoThread, Threads
        <4>. QED  BY <2>3, <4>1, FewThreads DEF Join
      <3>. QED  BY <2>1, <3>1, <3>2 DEF Calls!TurnOff, Calls!Next
    <2>4. CASE Next /\ (Assign \/ DestroyThread)
      <3>1. UNCHANGED <<thread, selfStopped>> /\ ~terminated
            /\ (terminated' = TRUE \/ UNCHANGED terminated)
        BY <2>4 DEF Next, Assign, DestroyThread
      <3>. QED  BY <2>1, <3>1 DEF Calls!Abort, Calls!Next, Calls!vars
    <2>5. CASE Next /\ Make
      <3>1. /\ made + 1 \in Threads /\ thread[made + 1] = "none"
            /\ thread' = [thread EXCEPT ![made + 1] = "test"]
            /\ "test" \in ThreadStates /\ ~terminated /\ at = "make"
            /\ UNCHANGED <<terminated, selfStopped>>
        BY <2>5, TimerAssumption DEF Next, Make, TInv, TypeOK, ThreadsMade, Threads, ThreadStates
      <3>2. made + 1 \notin Alive /\ made + 1 \notin InCall
        BY <3>1 DEF Alive, InCall
      <3>3. Alive' = Alive \cup {made + 1} /\ InCall' = InCall \ {made + 1}
        BY <3>1, OneThreadMoves DEF TInv
      <3>4. InCall' = InCall
        BY <3>2, <3>3
      <3>5. Alive = {} \/ (selfStopped /\ Calls!AtMostOne(Alive))
        BY <3>1, FewThreads DEF TInv, TypeOK, Calls!AtMostOne
      <3>. QED  BY <3>1, <3>2, <3>3, <3>4, <3>5 DEF Calls!TurnOn, Calls!Next
    <2>6. ASSUME NEW w \in Threads, Next, ThreadStep(w) \/ SelfStop(w)
          PROVE  [Calls!Next]_(Calls!vars)
      <3>1. ~terminated
        BY <2>6 DEF Next
      <3>2. CASE Test(w) /\ _execute
        <4>1. /\ thread' = [thread EXCEPT ![w] = "func"] /\ thread[w] = "test"
              /\ "func" \in ThreadStates /\ UNCHANGED <<terminated, selfStopped>>
          BY <3>2 DEF Test, ThreadStates
        <4>2. w \in Alive \ InCall
          BY <4>1 DEF Alive, InCall
        <4>3. Alive' = Alive \cup {w} /\ InCall' = InCall \cup {w}
          BY <4>1, OneThreadMoves DEF TInv
        <4>4. UNCHANGED Alive /\ InCall' = InCall \cup {w}
          BY <4>2, <4>3
        <4>. QED  BY <3>1, <4>1, <4>2, <4>4 DEF Calls!CallBegins, Calls!Next
      <3>3. CASE Test(w) /\ ~_execute
        <4>1. /\ thread' = [thread EXCEPT ![w] = "ended"] /\ thread[w] = "test"
              /\ "ended" \in ThreadStates /\ UNCHANGED <<terminated, selfStopped>>
          BY <3>3 DEF Test, ThreadStates
        <4>2. w \in Alive \ InCall
          BY <4>1 DEF Alive, InCall
        <4>3. Alive' = Alive \ {w} /\ InCall' = InCall \ {w}
          BY <4>1, OneThreadMoves DEF TInv
        <4>4. Alive' = Alive \ {w} /\ UNCHANGED InCall
          BY <4>2, <4>3
        <4>. QED  BY <3>1, <4>1, <4>2, <4>4 DEF Calls!ThreadEnds, Calls!Next
      <3>4. CASE FuncReturns(w) \/ (SelfJoin(w) /\ thread' = [thread EXCEPT ![w] = "sleep"])
        <4>1. /\ thread' = [thread EXCEPT ![w] = "sleep"]
              /\ thread[w] \in {"func", "self_join"}
              /\ "sleep" \in ThreadStates /\ UNCHANGED selfStopped
          BY <3>4 DEF FuncReturns, SelfJoin, ThreadStates
        <4>2. w \in Alive /\ w \in InCall
          BY <4>1 DEF Alive, InCall
        <4>3. Alive' = Alive \cup {w} /\ InCall' = InCall \ {w}
          BY <4>1, OneThreadMoves DEF TInv
        <4>4. UNCHANGED Alive /\ InCall' = InCall \ {w}
          BY <4>2, <4>3
        <4>5. UNCHANGED terminated
          <5>1. thread' # thread
            BY <4>2, <4>4, <2>1
          <5>. QED  BY <3>4, <5>1 DEF FuncReturns, SelfJoin
        <4>6. \E v \in InCall : InCall' = InCall \ {v}
          BY <4>2, <4>4
        <4>7. Calls!CallEnds
          BY <3>1, <4>1, <4>4, <4>5, <4>6 DEF Calls!CallEnds
        <4>. QED  BY <4>7 DEF Calls!Next
      <3>5. CASE SelfJoin(w) /\ UNCHANGED thread
        <4>1. (terminated' = TRUE \/ UNCHANGED terminated) /\ UNCHANGED selfStopped
          BY <3>5 DEF SelfJoin
        <4>. QED  BY <2>1, <3>1, <3>5, <4>1 DEF Calls!Abort, Calls!Next, Calls!vars
      <3>6. CASE SleepEnds(w)
        <4>1. /\ thread' = [thread EXCEPT ![w] = "test"] /\ thread[w] = "sleep"
              /\ "test" \in ThreadStates /\ UNCHANGED <<terminated, selfStopped>>
          BY <3>6 DEF SleepEnds, ThreadStates
        <4>2. w \in Alive /\ w \notin InCall
          BY <4>1 DEF Alive, InCall
        <4>3. Alive' = Alive \cup {w} /\ InCall' = InCall \ {w}
          BY <4>1, OneThreadMoves DEF TInv
        <4>4. UNCHANGED <<Alive, InCall>>
          BY <4>2, <4>3
        <4>. QED  BY <4>1, <4>4 DEF Calls!vars
      <3>7. CASE SelfStop(w)
        <4>1. /\ thread' = [thread EXCEPT ![w] = "self_join"] /\ thread[w] = "func"
              /\ "self_join" \in ThreadStates /\ UNCHANGED terminated /\ selfStopped' = TRUE
          BY <3>7 DEF SelfStop, ThreadStates
        <4>2. w \in Alive /\ w \in InCall
          BY <4>1 DEF Alive, InCall
        <4>3. Alive' = Alive \cup {w} /\ InCall' = InCall \cup {w}
          BY <4>1, OneThreadMoves DEF TInv
        <4>4. UNCHANGED <<Alive, InCall>>
          BY <4>2, <4>3
        <4>. QED  BY <3>1, <4>1, <4>2, <4>4 DEF Calls!CallStops, Calls!Next
      <3>. QED
        BY <2>6, <3>2, <3>3, <3>4, <3>5, <3>6, <3>7 DEF ThreadStep, SelfJoin
    <2>. QED  BY <2>2, <2>3, <2>4, <2>5, <2>6 DEF Next, OwnerStep
  <1>. QED  BY <1>1, <1>2, TInvHolds, PTL DEF Spec

=============================================================================
