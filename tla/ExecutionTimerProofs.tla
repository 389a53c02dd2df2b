-------------------------- MODULE ExecutionTimerProofs --------------------------
(***************************************************************************)
(* Guarded data and scope timers, for any number of threads, items, scopes *)
(* and time: the inductive invariant says who is inside the guard, what a  *)
(* thread in the middle of an update has read, and from where in its scope *)
(* a thread's last measurement stands in the map.                          *)
(***************************************************************************)
EXTENDS ExecutionTimer, TLAPS

\* The stages of a scope in which its GuardedAccess exists.
InGuard(t) ==
    pc[t] \in {"body", "read", "half", "release"} \/ (pc[t] = "stop" /\ order[t] = "access")

GuardHeld == \A t \in Threads : InGuard(t) <=> mutex_ = t

StopsInScope ==
    \A t \in Threads : stop[t] # "no" =>
        pc[t] \in {"half", "stop"} \/ (pc[t] = "release" /\ order[t] = "timer")

\* What an update has read is what is there, and half of it is written.
UpdateInStep ==
    /\ data_.first = updates
    /\ (\A t \in Threads : pc[t] # "half") => data_.first = data_.second
    /\ \A t \in Threads :
          /\ pc[t] = "read" => seen[t] = data_
          /\ pc[t] = "half" => seen[t].second = data_.second /\ data_.first = data_.second + 1

\* The timer of t is gone, and measured its scope to the end.
TimerGone(t) ==
    \/ pc[t] = "out" /\ scopes[t] > 0
    \/ pc[t] = "release" /\ order[t] = "access"

Measured(t) ==
    timerName_[t] \in DOMAIN measuredTimes /\ measuredTimes[timerName_[t]] = lifetime[t]

LastMeasured ==
    \A t \in Threads :
        TimerGone(t) /\ ~raced /\ (\A u \in Threads \ {t} : timerName_[u] # timerName_[t])
            => Measured(t)

\* The stages in which t's timer exists.
TimerExists(t) ==
    \/ order[t] = "timer"  /\ pc[t] # "out"
    \/ order[t] = "access" /\ pc[t] \in {"body", "read", "half", "stop"}

\* A timer's start is what its lifetime is counted from, and what the destructor's
\* Stop has taken is all of it.
TimeTaken ==
    \A t \in Threads :
        /\ TimerExists(t) /\ ~(pc[t] = "stop" /\ stop[t] # "no") => lifetime[t] = -startTime_[t]
        /\ pc[t] = "stop" /\ stop[t] # "no" => milliseconds[t] = lifetime[t]

TInv ==
    /\ TimerTypeOK
    /\ GuardHeld /\ StopsInScope /\ UpdateInStep
    /\ TimeTaken /\ LastMeasured

-------------------------------------------------------------------------------
LEMMA TInvInit == TimerInit => TInv
<1> SUFFICES ASSUME TimerInit PROVE TInv
  OBVIOUS
<1> USE DEF TimerInit, GuardedInit
<1>1. TimerTypeOK
  <2>1. GuardedTypeOK
    BY DEF GuardedTypeOK, Data
  <2>2. 0 \in 0 .. MaxTime /\ 0 \in Int /\ 0 \in Nat
    BY TimerAssumption
  <2>3. QED BY <2>1, <2>2 DEF TimerTypeOK, Orders, Pcs
<1>2. GuardHeld /\ StopsInScope
  BY GuardedDataAssumption DEF GuardHeld, StopsInScope, InGuard
<1>3. UpdateInStep
  BY DEF UpdateInStep
<1>4. TimeTaken /\ LastMeasured
  BY DEF TimeTaken, TimerExists, LastMeasured, TimerGone
<1>5. QED BY <1>1, <1>2, <1>3, <1>4 DEF TInv

LEMMA TimePassesStep == TInv /\ TimePasses => TInv'
<1> SUFFICES ASSUME TInv, TimePasses PROVE TInv'
  OBVIOUS
<1> USE DEF TInv, TimePasses, guardedVars, scopeVars
<1>1. TimerTypeOK'
  BY DEF TimerTypeOK, GuardedTypeOK
<1>2. (GuardHeld /\ StopsInScope)'
  BY DEF GuardHeld, StopsInScope, InGuard
<1>3. UpdateInStep'
  BY DEF UpdateInStep
<1>4. TimeTaken'
  BY DEF TimeTaken, TimerExists, TimerTypeOK, Orders
<1>5. LastMeasured'
  BY DEF LastMeasured, TimerGone, Measured
<1>6. QED BY <1>1, <1>2, <1>3, <1>4, <1>5

LEMMA BeginScopeStep ==
  ASSUME TInv, NEW t \in Threads, BeginScope(t) PROVE TInv'
<1> USE DEF TInv, BeginScope, At, Goes, guardedVars
<1>0. PICK o \in Orders : order' = [order EXCEPT ![t] = o] /\ MakeTimer(t, o = "timer")
  OBVIOUS
<1> USE DEF MakeTimer
<1>1. TimerTypeOK'
  BY <1>0 DEF TimerTypeOK, GuardedTypeOK, Pcs
<1>2. (GuardHeld /\ StopsInScope)'
  BY <1>0 DEF GuardHeld, StopsInScope, InGuard, TimerTypeOK
<1>3. UpdateInStep'
  BY <1>0 DEF UpdateInStep, TimerTypeOK
<1>4. TimeTaken'
  BY <1>0 DEF TimeTaken, TimerExists, TimerTypeOK, Orders
<1>5. LastMeasured'
  BY <1>0 DEF LastMeasured, TimerGone, Measured, TimerTypeOK
<1>6. QED BY <1>1, <1>2, <1>3, <1>4, <1>5

LEMMA EnterAccessStep ==
  ASSUME TInv, NEW t \in Threads, EnterAccess(t) PROVE TInv'
<1> USE DEF TInv, EnterAccess, Access, MakeTimer, At, Goes
<1>1. TimerTypeOK'
  BY DEF TimerTypeOK, GuardedTypeOK, Pcs
<1>2. (GuardHeld /\ StopsInScope)'
  BY GuardedDataAssumption DEF GuardHeld, StopsInScope, InGuard, TimerTypeOK
<1>3. UpdateInStep'
  BY DEF UpdateInStep, TimerTypeOK
<1>4. TimeTaken'
  BY DEF TimeTaken, TimerExists, TimerTypeOK, Orders
<1>5. LastMeasured'
  BY DEF LastMeasured, TimerGone, Measured, TimerTypeOK
<1>6. QED BY <1>1, <1>2, <1>3, <1>4, <1>5

\* The three accesses of an update, all by the thread that holds the mutex.
LEMMA UpdateStep ==
  ASSUME TInv, NEW t \in Threads, Update(t) PROVE TInv'
<1> USE DEF TInv, Update, timerVars, At, Goes
<1>1. TimerTypeOK'
  <2>1. GuardedTypeOK'
    <3>1. CASE ReadData(t)
      BY <3>1 DEF ReadData, TimerTypeOK, GuardedTypeOK
    <3>2. CASE WriteFirst(t)
      BY <3>2 DEF WriteFirst, TimerTypeOK, GuardedTypeOK, Data
    <3>3. CASE WriteSecond(t)
      BY <3>3 DEF WriteSecond, TimerTypeOK, GuardedTypeOK, Data
    <3>4. QED BY <3>1, <3>2, <3>3
  <2>2. pc' \in [Threads -> Pcs]
    BY DEF TimerTypeOK, Pcs
  <2>3. QED BY <2>1, <2>2 DEF TimerTypeOK
<1>2. mutex_' = mutex_
  BY DEF ReadData, WriteFirst, WriteSecond
<1>3. (GuardHeld /\ StopsInScope)'
  BY <1>2 DEF GuardHeld, StopsInScope, InGuard, TimerTypeOK, Orders
<1>4. \A u \in Threads : u # t => ~InGuard(u)
  BY DEF GuardHeld, InGuard
<1>5. UpdateInStep'
  <2>1. CASE ReadData(t) /\ pc[t] = "body"
    BY <2>1, <1>4 DEF ReadData, UpdateInStep, TimerTypeOK, GuardedTypeOK, InGuard
  <2>2. CASE WriteFirst(t) /\ pc[t] = "read"
    BY <2>2, <1>4 DEF WriteFirst, UpdateInStep, TimerTypeOK, GuardedTypeOK, InGuard, Data
  <2>3. CASE WriteSecond(t) /\ pc[t] = "half"
    BY <2>3, <1>4 DEF WriteSecond, UpdateInStep, TimerTypeOK, GuardedTypeOK, InGuard, Data
  <2>4. QED BY <2>1, <2>2, <2>3
<1>6. TimeTaken'
  BY DEF TimeTaken, TimerExists, TimerTypeOK, Orders
<1>7. LastMeasured'
  BY DEF LastMeasured, TimerGone, Measured, TimerTypeOK
<1>8. QED BY <1>1, <1>3, <1>5, <1>6, <1>7

LEMMA LeaveAccessStep ==
  ASSUME TInv, NEW t \in Threads, LeaveAccess(t) PROVE TInv'
<1> USE DEF TInv, LeaveAccess, Release, timerVars, At, Goes
<1>1. TimerTypeOK'
  BY DEF TimerTypeOK, GuardedTypeOK, Pcs
<1>2. (GuardHeld /\ StopsInScope)'
  BY GuardedDataAssumption DEF GuardHeld, StopsInScope, InGuard, TimerTypeOK
<1>3. UpdateInStep'
  BY DEF UpdateInStep, TimerTypeOK
<1>4. TimeTaken'
  BY DEF TimeTaken, TimerExists, TimerTypeOK, Orders
<1>5. LastMeasured'
  BY DEF LastMeasured, TimerGone, Measured, TimerTypeOK, Orders
<1>6. QED BY <1>1, <1>2, <1>3, <1>4, <1>5

\* What Stop computes is a time, and no scope's last measurement is disturbed:
\* the timer that computes it is not gone.
LEMMA BeginStopStep ==
  ASSUME TInv, NEW t \in Threads, BeginStop(t),
         pc[t] \in {"half", "stop"} \/ (pc[t] = "release" /\ order[t] = "timer"),
         UNCHANGED <<order, pc, scopes>>, stoppedEarly' \in [Threads -> BOOLEAN],
         lifetime' = [lifetime EXCEPT ![t] = IF pc[t] = "stop" THEN clock + @ ELSE @]
  PROVE  TInv'
<1> USE DEF TInv, BeginStop, guardedVars
<1>1. clock - startTime_[t] \in Int /\ clock + lifetime[t] \in Int
  BY DEF TimerTypeOK
<1>2. TimerTypeOK'
  BY <1>1 DEF TimerTypeOK, GuardedTypeOK
<1>3. (GuardHeld /\ StopsInScope)'
  BY DEF GuardHeld, StopsInScope, InGuard, TimerTypeOK
<1>4. UpdateInStep'
  BY DEF UpdateInStep
<1>5. TimeTaken'
  <2>1. ASSUME NEW u \in Threads, u # t
        PROVE  /\ lifetime'[u] = lifetime[u] /\ milliseconds'[u] = milliseconds[u]
               /\ stop'[u] = stop[u]
    BY <2>1 DEF TimerTypeOK
  <2>2. stop'[t] = "taken" /\ (pc[t] # "stop" => lifetime'[t] = lifetime[t])
    BY DEF TimerTypeOK
  <2>3. ASSUME pc[t] = "stop" PROVE milliseconds'[t] = lifetime'[t]
    <3>1. lifetime[t] = -startTime_[t]
      BY <2>3 DEF TimeTaken, TimerExists, TimerTypeOK, Orders
    <3>2. milliseconds'[t] = clock - startTime_[t] /\ lifetime'[t] = clock + lifetime[t]
      BY <2>3 DEF TimerTypeOK
    <3>3. startTime_[t] \in Int /\ clock \in Int
      BY DEF TimerTypeOK
    <3>4. QED BY <3>1, <3>2, <3>3
  <2>4. QED BY <2>1, <2>2, <2>3 DEF TimeTaken, TimerExists
<1>6. LastMeasured'
  BY DEF LastMeasured, TimerGone, Measured, TimerTypeOK
<1>7. QED BY <1>2, <1>3, <1>4, <1>5, <1>6

LEMMA StopWritesStep ==
  ASSUME TInv, NEW t \in Threads, StopWrites(t) PROVE TInv'
<1> USE DEF TInv, StopWrites, guardedVars, scopeVars
<1>1. TimerTypeOK'
  BY DEF TimerTypeOK, GuardedTypeOK
<1>2. (GuardHeld /\ StopsInScope)'
  BY DEF GuardHeld, StopsInScope, InGuard, TimerTypeOK
<1>3. (UpdateInStep /\ TimeTaken)'
  BY DEF UpdateInStep, TimeTaken, TimerExists, TimerTypeOK
<1>4. LastMeasured'
  BY DEF LastMeasured, TimerGone, Measured, TimerTypeOK
<1>5. QED BY <1>1, <1>2, <1>3, <1>4

\* The thread's item gets its time, unless it raced; other items keep theirs.
LEMMA StopReturnsStep ==
  ASSUME TInv, NEW t \in Threads, StopReturns(t) PROVE TInv'
<1> DEFINE name == timerName_[t]
           map  == [n \in DOMAIN measuredTimes \cup {name} |->
                      IF n = name THEN milliseconds[t] ELSE measuredTimes[n]]
<1> USE DEF TInv, StopReturns, guardedVars, Goes
<1>1. measuredTimes' = map \/ (raced /\ measuredTimes' = measuredTimes)
  BY DEF Recorded, TimerTypeOK
<1>2. TimerTypeOK'
  <2>1. DOMAIN measuredTimes' \subseteq Names /\ \A n \in DOMAIN measuredTimes' : measuredTimes'[n] \in Int
    <3>1. milliseconds[t] \in Int /\ name \in Names
      BY DEF TimerTypeOK
    <3>2. QED BY <1>1, <3>1 DEF TimerTypeOK
  <2>2. startTime_' \in [Threads -> 0 .. MaxTime] /\ milliseconds' \in [Threads -> Int]
    BY TimerAssumption DEF TimerTypeOK
  <2>3. QED BY <2>1, <2>2 DEF TimerTypeOK, GuardedTypeOK, Pcs
<1>3. (GuardHeld /\ StopsInScope)'
  BY DEF GuardHeld, StopsInScope, InGuard, TimerTypeOK, Orders
<1>4. UpdateInStep'
  BY DEF UpdateInStep, TimerTypeOK
<1>5. TimeTaken'
  BY DEF TimeTaken, TimerExists, TimerTypeOK
<1>6. LastMeasured'
  <2>1. SUFFICES ASSUME NEW u \in Threads, TimerGone(u)', ~raced,
                        \A w \in Threads \ {u} : timerName_[w] # timerName_[u]
                 PROVE  Measured(u)'
    BY DEF LastMeasured
  <2>2. measuredTimes' = map
    BY <1>1, <2>1
  <2>3. CASE u = t
    <3>1. pc[t] = "stop" /\ milliseconds[t] = lifetime[t]
      BY <2>1, <2>3 DEF TimerGone, StopsInScope, TimeTaken, TimerTypeOK, Orders
    <3>2. QED BY <2>2, <2>3, <3>1 DEF Measured
  <2>4. CASE u # t
    BY <2>1, <2>2, <2>4 DEF Measured, LastMeasured, TimerGone, TimerTypeOK
  <2>5. QED BY <2>3, <2>4
<1>7. QED BY <1>2, <1>3, <1>4, <1>5, <1>6

LEMMA TInvStep == TInv /\ [TimerNext]_allVars => TInv'
<1> SUFFICES ASSUME TInv, [TimerNext]_allVars PROVE TInv'
  OBVIOUS
<1>1. CASE TimePasses
  BY <1>1, TimePassesStep
<1>2. ASSUME NEW t \in Threads, BeginScope(t) PROVE TInv'
  BY <1>2, BeginScopeStep
<1>3. ASSUME NEW t \in Threads, EnterAccess(t) PROVE TInv'
  BY <1>3, EnterAccessStep
<1>4. ASSUME NEW t \in Threads, Update(t) PROVE TInv'
  BY <1>4, UpdateStep
<1>5. ASSUME NEW t \in Threads, LeaveAccess(t) PROVE TInv'
  BY <1>5, LeaveAccessStep
<1>6. ASSUME NEW t \in Threads, StopEarly(t) PROVE TInv'
  BY <1>6, BeginStopStep DEF StopEarly, TInv, TimerTypeOK
<1>7. ASSUME NEW t \in Threads, StopInDestructor(t) PROVE TInv'
  BY <1>7, BeginStopStep DEF StopInDestructor, scopeVars, TInv, TimerTypeOK
<1>8. ASSUME NEW t \in Threads, StopWrites(t) PROVE TInv'
  BY <1>8, StopWritesStep
<1>9. ASSUME NEW t \in Threads, StopReturns(t) PROVE TInv'
  BY <1>9, StopReturnsStep
<1>10. CASE UNCHANGED allVars
  BY <1>10 DEF allVars, guardedVars, timerVars, scopeVars, TInv, TimerTypeOK, GuardedTypeOK,
     GuardHeld, InGuard, StopsInScope, UpdateInStep, TimeTaken, TimerExists, LastMeasured, TimerGone,
     Measured
<1>11. QED BY <1>1, <1>2, <1>3, <1>4, <1>5, <1>6, <1>7, <1>8, <1>9, <1>10 DEF TimerNext, InScope

-------------------------------------------------------------------------------
LEMMA TimerInvariance == TimerSpec => []TInv
<1>1. QED BY TInvInit, TInvStep, PTL DEF TimerSpec

\* Type correctness, under a clock that may be set back: a measured time is a
\* number, which may be negative, and is entered under a timer's name only.
THEOREM TimerTypeCorrectness == TimerSpec => []TimerTypeOK
<1>1. TInv => TimerTypeOK
  BY DEF TInv
<1>2. QED BY <1>1, TimerInvariance, PTL

\* Mutual exclusion through GuardedAccess: no update is lost, and who gets the
\* mutex finds the pair whole.
THEOREM UpdatesKept == TimerSpec => []GuardedUpdatesKept
<1>1. TInv => GuardedUpdatesKept
  <2> SUFFICES ASSUME TInv PROVE GuardedUpdatesKept
    OBVIOUS
  <2>1. ASSUME NEW t \in Threads, At(t, "body") \/ mutex_ = NoThread
        PROVE  data_.first = data_.second
    <3>1. \A u \in Threads : pc[u] # "half"
      BY <2>1, GuardedDataAssumption DEF TInv, GuardHeld, InGuard, At
    <3>2. QED BY <3>1 DEF TInv, UpdateInStep
  <2>2. QED BY <2>1 DEF TInv, UpdateInStep, GuardedUpdatesKept
<1>2. QED BY <1>1, TimerInvariance, PTL

\* Timers that stop while their scopes hold the same guard never write the
\* map together.
THEOREM RacesOutsideGuard == TimerSpec => []MapRaceOnlyOutsideGuard
<1>1. TInv => MapRaceOnlyOutsideGuard
  BY DEF TInv, MapRaceOnlyOutsideGuard, GuardHeld, InGuard, StopsInScope, TimerTypeOK, Orders
<1>2. QED BY <1>1, TimerInvariance, PTL

\* The map has what the last timer of an item measured from its making to its
\* destruction, for any number of scopes, early calls of Stop and settings of
\* the clock.
THEOREM WholeScopes == TimerSpec => []WholeScopeMeasured
<1>1. TInv => WholeScopeMeasured
  BY DEF TInv, LastMeasured, WholeScopeMeasured, TimerGone, Measured
<1>2. QED BY <1>1, TimerInvariance, PTL
===============================================================================
