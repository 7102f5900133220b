------------------------------- MODULE Timer --------------------------------
(***************************************************************************)
(* Timer (utils.h:78, utils.cpp:51): one thread, its owner, calls start(), *)
(* stop() and in the end the destructor; each start() makes a thread that  *)
(* calls the function, sleeps and tests _execute.                          *)
(*                                                                         *)
(* The function may itself call stop().  That joins the calling thread, if *)
(* not another: std::thread::join throws, and the function lets the        *)
(* exception escape or catches it.  Neither _execute nor _thd is protected *)
(* by a lock; _thd is then read while the owner may be assigning it, and   *)
(* is taken to have the old or the new value.                              *)
(***************************************************************************)
EXTENDS Naturals, FiniteSets

CONSTANT MaxStarts  \* bound: threads made

ASSUME TimerAssumption == MaxStarts \in Nat

Threads == 1 .. MaxStarts
NoThread == 0

VARIABLES
    at,       \* where the owner is
    then,     \* where it goes when stop() returns
    _execute,
    _thd,     \* the thread that _thd owns, or NoThread if it is not joinable
    made,     \* threads made so far
    thread,   \* where each of them is
    terminated,
    \* history:
    selfStopped  \* the function has called stop() since the last stop() of the owner

ownerVars == <<at, then>>
timerVars == <<_execute, _thd>>
vars == <<ownerVars, timerVars, made, thread, terminated, selfStopped>>

-----------------------------------------------------------------------------
(***************************************************************************)
(* The owner is between calls (idle); before the store and the join of     *)
(* stop(); in start() before the store, the construction of the thread and *)
(* its assignment to _thd; before the destruction of _thd; or gone.  A     *)
(* thread tests _execute, is in the function, in a stop() that the         *)
(* function called, or asleep.                                             *)
(***************************************************************************)
OwnerStates == {"idle", "stop", "join", "start", "make", "assign", "destroy", "gone"}
ThreadStates == {"none", "test", "func", "self_join", "sleep", "ended"}

TypeOK ==
    /\ at \in OwnerStates
    /\ then \in {"idle", "start", "destroy"}
    /\ _execute \in BOOLEAN
    /\ _thd \in Threads \cup {NoThread}
    /\ made \in 0 .. MaxStarts
    /\ thread \in [Threads -> ThreadStates]
    /\ terminated \in BOOLEAN
    /\ selfStopped \in BOOLEAN

Init ==
    /\ at = "idle"
    /\ then = "idle"
    /\ _execute = FALSE
    /\ _thd = NoThread
    /\ made = 0
    /\ thread = [w \in Threads |-> "none"]
    /\ terminated = FALSE
    /\ selfStopped = FALSE

joinable == _thd # NoThread

is_running == _execute /\ joinable

Alive == {w \in Threads : thread[w] \notin {"none", "ended"}}

\* A stop() that the function calls is part of its call.
InCall == {w \in Threads : thread[w] \in {"func", "self_join"}}

-----------------------------------------------------------------------------
(***************************************************************************)
(* The calls of the owner.  start() and the destructor stop a timer that   *)
(* executes.                                                               *)
(***************************************************************************)
\* Mutants: start() never stops; stop() forgets the flag; it does not join.
StartAnew ==
    /\ at = "idle"
    /\ made < MaxStarts
    /\ at' = "start"
    /\ UNCHANGED <<then, timerVars, made, thread, terminated, selfStopped>>

StopFirst(next) ==
    IF _execute THEN at' = "stop" /\ then' = next
                ELSE at' = next   /\ UNCHANGED then

Start ==
    /\ at = "idle"
    /\ made < MaxStarts
    /\ StopFirst("start")
    /\ UNCHANGED <<timerVars, made, thread, terminated, selfStopped>>

Stop ==
    /\ at = "idle"
    /\ at' = "stop"
    /\ then' = "idle"
    /\ UNCHANGED <<timerVars, made, thread, terminated, selfStopped>>

Destroy ==
    /\ at = "idle"
    /\ StopFirst("destroy")
    /\ UNCHANGED <<timerVars, made, thread, terminated, selfStopped>>

StopStoreForgotten ==
    /\ at = "stop"
    /\ at' = "join"
    /\ UNCHANGED <<then, timerVars, made, thread, terminated, selfStopped>>

StopStore ==
    /\ at = "stop"
    /\ at' = "join"
    /\ _execute' = FALSE
    /\ UNCHANGED <<then, _thd, made, thread, terminated, selfStopped>>

\* Mutant: the thread is detached.
JoinDetached ==
    /\ at = "join"
    /\ at' = then
    /\ _thd' = NoThread
    /\ selfStopped' = FALSE
    /\ UNCHANGED <<then, _execute, made, thread, terminated>>

Join ==
    /\ at = "join"
    /\ joinable => thread[_thd] = "ended"
    /\ at' = then
    /\ _thd' = NoThread
    /\ selfStopped' = FALSE
    /\ UNCHANGED <<then, _execute, made, thread, terminated>>

StartStore ==
    /\ at = "start"
    /\ at' = "make"
    /\ _execute' = TRUE
    /\ UNCHANGED <<then, _thd, made, thread, terminated, selfStopped>>

\* The thread runs before _thd is assigned.  Mutant: it is made a second time.
MakeAgain ==
    /\ at = "make"
    /\ made' = made + 1
    /\ thread' = [thread EXCEPT ![made + 1] = "test"]
    /\ UNCHANGED <<ownerVars, timerVars, terminated, selfStopped>>

Make ==
    /\ at = "make"
    /\ at' = "assign"
    /\ made' = made + 1
    /\ thread' = [thread EXCEPT ![made + 1] = "test"]
    /\ UNCHANGED <<then, timerVars, terminated, selfStopped>>

\* No thread can be made: the exception leaves start(), and _execute is set.
MakeFails ==
    /\ at = "make"
    /\ at' = "idle"
    /\ UNCHANGED <<then, timerVars, made, thread, terminated, selfStopped>>

\* Assigning to a joinable std::thread, and destroying one, ends the process.
Assign ==
    /\ at = "assign"
    /\ IF joinable THEN terminated' = TRUE /\ UNCHANGED <<at, _thd>>
                   ELSE at' = "idle" /\ _thd' = made /\ UNCHANGED terminated
    /\ UNCHANGED <<then, _execute, made, thread, selfStopped>>

DestroyThread ==
    /\ at = "destroy"
    /\ IF joinable THEN terminated' = TRUE /\ UNCHANGED at
                   ELSE at' = "gone" /\ UNCHANGED terminated
    /\ UNCHANGED <<then, timerVars, made, thread, selfStopped>>

OwnerStep ==
    StopStore \/ Join \/ StartStore \/ Make \/ MakeFails \/ Assign \/ DestroyThread

-----------------------------------------------------------------------------
(***************************************************************************)
(* The thread.                                                             *)
(***************************************************************************)
Test(w) ==
    /\ thread[w] = "test"
    /\ thread' = [thread EXCEPT ![w] = IF _execute THEN "func" ELSE "ended"]
    /\ UNCHANGED <<ownerVars, timerVars, made, terminated, selfStopped>>

FuncReturns(w) ==
    /\ thread[w] = "func"
    /\ thread' = [thread EXCEPT ![w] = "sleep"]
    /\ UNCHANGED <<ownerVars, timerVars, made, terminated, selfStopped>>

SleepEnds(w) ==
    /\ thread[w] = "sleep"
    /\ thread' = [thread EXCEPT ![w] = "test"]
    /\ UNCHANGED <<ownerVars, timerVars, made, terminated, selfStopped>>

SelfStop(w) ==
    /\ thread[w] = "func"
    /\ thread' = [thread EXCEPT ![w] = "self_join"]
    /\ _execute' = FALSE
    /\ selfStopped' = TRUE
    /\ UNCHANGED <<ownerVars, _thd, made, terminated>>

\* _thd is not assigned yet and stop() returns; the thread joins itself, which
\* throws; or it joins the one before it, which start() has not joined.
SelfJoin(w) ==
    /\ thread[w] = "self_join"
    /\ \/ _thd \in {NoThread, w}
          /\ thread' = [thread EXCEPT ![w] = "sleep"]
          /\ UNCHANGED <<_thd, terminated>>
       \/ _thd = w
          /\ terminated' = TRUE
          /\ UNCHANGED <<_thd, thread>>
       \/ _thd \in Threads \ {w}
          /\ thread[_thd] = "ended"
          /\ _thd' = NoThread
          /\ thread' = [thread EXCEPT ![w] = "sleep"]
          /\ UNCHANGED terminated
    /\ UNCHANGED <<ownerVars, _execute, made, selfStopped>>

ThreadStep(w) == Test(w) \/ FuncReturns(w) \/ SleepEnds(w) \/ SelfJoin(w)

-----------------------------------------------------------------------------
Next ==
    /\ ~terminated
    /\ \/ Start \/ Stop \/ Destroy \/ OwnerStep
       \/ \E w \in Threads : ThreadStep(w) \/ SelfStop(w)

\* The threads are scheduled; sleeps and calls of the function end.
Fairness ==
    /\ WF_vars(~terminated /\ OwnerStep)
    /\ \A w \in Threads : WF_vars(~terminated /\ ThreadStep(w))

Spec == Init /\ [][Next]_vars /\ Fairness

-----------------------------------------------------------------------------
(***************************************************************************)
(* Properties.                                                             *)
(***************************************************************************)

\* Between its calls the owner can rely on is_running(): there is a thread,
\* and only the one that _thd owns, iff it says so.  So a stop() leaves none
\* behind, and restarting a timer never makes a second one - as long as the
\* function does not call stop() (utils.cpp:64-90).
RunningIsAccurate ==
    (at \in {"idle", "gone"} /\ ~selfStopped)
        => Alive = (IF is_running THEN {_thd} ELSE {})

\* The process ends in a destructor or a start() only after the function has
\* called stop(), with no stop() of the owner since: _execute is then FALSE
\* and neither of the two joins (utils.cpp:60, 72).
TerminatedOnlyBySelfStop == terminated => selfStopped

\* stop() returns, and so do start() and the destructor.
StopReturns == at = "join" ~> (at # "join" \/ terminated)

\* All of this is the timer that its users see, the threads that are in the
\* function counted one by one: two are in it only after the function has
\* stopped its own timer and the owner has started it again (utils.cpp:68-85).
Calls == INSTANCE PeriodicCalls WITH
    threads <- Alive,
    calls   <- InCall,
    stopped <- selfStopped,
    ended   <- terminated

ImplementsPeriodicCalls == Calls!Spec

=============================================================================
