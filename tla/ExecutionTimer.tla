----------------------------- MODULE ExecutionTimer -----------------------------
(***************************************************************************)
(* The scope timer (src/src/core/execution_timer.cpp) in scopes that also  *)
(* access guarded data.  Stop locks a mutex of the timer's own before it   *)
(* writes the map that all timers share: no other timer waits for it.  A   *)
(* scope declares the timer or the access first, and its destructors run   *)
(* in the other order.  The server has no such scope; this is what one     *)
(* may rely on.                                                            *)
(***************************************************************************)
EXTENDS GuardedData

CONSTANTS
    Names,          \* what is timed
    MaxScopes,      \* bound on the scopes of each thread
    MaxTime         \* bound on what the clock may show

ASSUME TimerAssumption == MaxScopes \in [Threads -> Nat] /\ MaxTime \in Nat

VARIABLES
    clock,          \* std::chrono::high_resolution_clock
    timerName_,     \* what each thread times
    startTime_,     \* of each thread's timer, 0 before and after it exists
    stop,           \* where the thread is in Stop: not in it, with the time
                    \*  taken, or writing the map
    milliseconds,   \* what Stop has computed, 0 outside it
    measuredTimes,  \* the map
    raced,          \* history: have two threads ever written it at once?
    lifetime,       \* history: the clock's reading at the end of each thread's
                    \*  timer, 0 while it exists, less that when it was made
    order,          \* what each thread's scope declares first
    pc,             \* where it is in its scope
    stoppedEarly,
    scopes          \* how many scopes it has begun

timerVars == <<clock, timerName_, startTime_, stop, milliseconds, measuredTimes, raced>>
scopeVars == <<lifetime, order, pc, stoppedEarly, scopes>>
allVars == <<guardedVars, timerVars, scopeVars>>

Orders == {"timer", "access"}
Pcs == {"out", "enter", "body", "read", "half", "updated", "release", "stop"}

TimerTypeOK ==
    /\ GuardedTypeOK
    /\ clock \in 0 .. MaxTime
    /\ timerName_ \in [Threads -> Names]
    /\ startTime_ \in [Threads -> 0 .. MaxTime] /\ milliseconds \in [Threads -> Int]
    /\ stop \in [Threads -> {"no", "taken", "writing"}]
    /\ DOMAIN measuredTimes \subseteq Names
    /\ \A n \in DOMAIN measuredTimes : measuredTimes[n] \in Int
    /\ raced \in BOOLEAN
    /\ lifetime \in [Threads -> Int]
    /\ order \in [Threads -> Orders]
    /\ pc \in [Threads -> Pcs]
    /\ stoppedEarly \in [Threads -> BOOLEAN]
    /\ scopes \in [Threads -> Nat]

TimerInit ==
    /\ GuardedInit
    /\ clock = 0
    /\ timerName_ \in [Threads -> Names]
    /\ startTime_ = [t \in Threads |-> 0] /\ milliseconds = [t \in Threads |-> 0]
    /\ stop = [t \in Threads |-> "no"]
    /\ measuredTimes = [n \in {} |-> 0]
    /\ raced = FALSE
    /\ lifetime = [t \in Threads |-> 0]
    /\ order = [t \in Threads |-> "timer"]
    /\ pc = [t \in Threads |-> "out"]
    /\ stoppedEarly = [t \in Threads |-> FALSE]
    /\ scopes = [t \in Threads |-> 0]

-------------------------------------------------------------------------------
At(t, at) == pc[t] = at /\ stop[t] = "no"

Goes(t, next) == pc' = [pc EXCEPT ![t] = next]

\* The timer's constructor, if it is declared now.
MakeTimer(t, now) ==
    /\ startTime_' = [startTime_ EXCEPT ![t] = IF now THEN clock ELSE @]
    /\ lifetime' = [lifetime EXCEPT ![t] = IF now THEN -clock ELSE @]
    /\ UNCHANGED <<clock, timerName_, stop, milliseconds, measuredTimes, raced>>

BeginScope(t) ==
    /\ At(t, "out") /\ scopes[t] < MaxScopes[t]
    /\ scopes' = [scopes EXCEPT ![t] = @ + 1]
    /\ \E o \in Orders :
          order' = [order EXCEPT ![t] = o] /\ MakeTimer(t, o = "timer")
    /\ stoppedEarly' = [stoppedEarly EXCEPT ![t] = FALSE]
    /\ Goes(t, "enter")
    /\ UNCHANGED guardedVars

EnterAccess(t) ==
    /\ At(t, "enter")
    /\ Access(t)
    /\ MakeTimer(t, order[t] = "access")
    /\ Goes(t, "body")
    /\ UNCHANGED <<order, stoppedEarly, scopes>>

Update(t) ==
    /\ \/ At(t, "body") /\ ReadData(t) /\ Goes(t, "read")
       \/ At(t, "read") /\ WriteFirst(t) /\ Goes(t, "half")
       \/ At(t, "half") /\ WriteSecond(t) /\ Goes(t, IF order[t] = "timer" THEN "release" ELSE "stop")
    /\ UNCHANGED <<timerVars, lifetime, order, stoppedEarly, scopes>>

\* ~GuardedAccess.
LeaveAccess(t) ==
    /\ At(t, "release")
    /\ Release(t)
    /\ Goes(t, IF order[t] = "timer" THEN "stop" ELSE "out")
    /\ UNCHANGED <<timerVars, lifetime, order, stoppedEarly, scopes>>

BeginStopFinal(t) ==            \* slip: an early Stop's time is final
    /\ stop[t] = "no" /\ stop' = [stop EXCEPT ![t] = "taken"]
    /\ milliseconds' =
          [milliseconds EXCEPT ![t] = IF stoppedEarly[t] THEN @ ELSE clock - startTime_[t]]
    /\ UNCHANGED <<clock, timerName_, startTime_, measuredTimes, raced, guardedVars>>

\* Stop is called by the destructor, or before, while the data is updated or after.
BeginStop(t) ==
    /\ stop[t] = "no" /\ stop' = [stop EXCEPT ![t] = "taken"]
    /\ milliseconds' = [milliseconds EXCEPT ![t] = clock - startTime_[t]]
    /\ UNCHANGED <<clock, timerName_, startTime_, measuredTimes, raced, guardedVars>>

StopInDestructor(t) ==
    /\ pc[t] = "stop" /\ BeginStop(t)
    /\ lifetime' = [lifetime EXCEPT ![t] = clock + @]
    /\ UNCHANGED <<order, pc, stoppedEarly, scopes>>

StopEarly(t) ==
    /\ pc[t] = "half" \/ (pc[t] = "release" /\ order[t] = "timer")
    /\ ~stoppedEarly[t] /\ BeginStop(t)
    /\ stoppedEarly' = [stoppedEarly EXCEPT ![t] = TRUE]
    /\ UNCHANGED <<lifetime, order, pc, scopes>>

\* The timer's own mutex is free.
StopWrites(t) ==
    /\ stop[t] = "taken" /\ stop' = [stop EXCEPT ![t] = "writing"]
    /\ raced' = (raced \/ \E u \in Threads \ {t} : stop[u] = "writing")
    /\ UNCHANGED <<clock, timerName_, startTime_, milliseconds, measuredTimes, guardedVars, scopeVars>>

\* Slip: the entry of a timer that was not given its name.
RecordedUnnamed(name, time) ==
    {[n \in DOMAIN measuredTimes \cup {""} |-> IF n = "" THEN time ELSE measuredTimes[n]]}

\* The map with the time entered.  Two writes at once may lose either.
Recorded(name, time) ==
    {[n \in DOMAIN measuredTimes \cup {name} |-> IF n = name THEN time ELSE measuredTimes[n]]}
        \cup {measuredTimes : r \in {raced} \cap {TRUE}}

\* Where the scope goes on: after the destructor's Stop the timer is gone.
StopReturns(t) ==
    /\ stop[t] = "writing" /\ stop' = [stop EXCEPT ![t] = "no"]
    /\ measuredTimes' \in Recorded(timerName_[t], milliseconds[t])
    /\ milliseconds' = [milliseconds EXCEPT ![t] = 0]
    /\ IF pc[t] # "stop" THEN UNCHANGED <<startTime_, pc>>
       ELSE /\ startTime_' = [startTime_ EXCEPT ![t] = 0]
            /\ Goes(t, IF order[t] = "timer" THEN "out" ELSE "release")
    /\ UNCHANGED <<clock, timerName_, raced, guardedVars>>
    /\ UNCHANGED <<lifetime, order, stoppedEarly, scopes>>

\* The clock goes on, or somebody sets it, back too: it need not be steady.
TimePasses ==
    /\ clock' \in (0 .. MaxTime) \ {clock}
    /\ UNCHANGED <<timerName_, startTime_, stop, milliseconds, measuredTimes, raced>>
    /\ UNCHANGED <<guardedVars, scopeVars>>

InScope(t) ==
    \/ EnterAccess(t) \/ Update(t) \/ LeaveAccess(t)
    \/ StopInDestructor(t) \/ StopWrites(t) \/ StopReturns(t)

TimerNext == TimePasses \/ \E t \in Threads : BeginScope(t) \/ StopEarly(t) \/ InScope(t)

TimerSpec == TimerInit /\ [][TimerNext]_allVars

\* A thread in a scope is scheduled.
FairTimerSpec == TimerSpec /\ \A t \in Threads : WF_allVars(InScope(t))

-------------------------------------------------------------------------------
\* No update through GuardedAccess is lost, and who has locked the mutex finds
\* the pair whole: "Locks and safely access data within GuardedData".
GuardedUpdatesKept ==
    /\ data_.first = updates
    /\ \A t \in Threads :
          At(t, "body") \/ mutex_ = NoThread => data_.first = data_.second

\* Two threads write the map at once only if the timer of one was declared
\* before its access and stops after it: timers that stop while their scope
\* holds the guard do not need a mutex of their own.
MapRaceOnlyOutsideGuard ==
    \A t, u \in Threads :
        t # u /\ stop[t] = "writing" /\ stop[u] = "writing" =>
            \E w \in {t, u} : order[w] = "timer" /\ pc[w] = "stop"

\* What the map has of an item that only one thread times is how long its last
\* timer existed, by the clock, also when Stop was called early: although the
\* header offers that call to stop the timer, it does not.
WholeScopeMeasured ==
    \A t \in Threads :
        /\ pc[t] = "out" /\ scopes[t] > 0 /\ ~raced
        /\ \A u \in Threads \ {t} : timerName_[u] # timerName_[t]
        => /\ timerName_[t] \in DOMAIN measuredTimes
           /\ measuredTimes[timerName_[t]] = lifetime[t]

\* Every scope is left: no thread waits for ever for the guard or for another's
\* timer, whichever was declared first.
ScopesEnd == \A t \in Threads : pc[t] # "out" ~> pc[t] = "out"
===============================================================================
