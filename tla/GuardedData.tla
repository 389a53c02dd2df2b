------------------------------ MODULE GuardedData ------------------------------
(***************************************************************************)
(* Data behind a mutex (src/include/core/guarded_data.h): GuardedAccess    *)
(* locks it when it is made and unlocks it when it is destroyed, and gives *)
(* access in between.  The data is a pair, as in the tests, that an update *)
(* reads and then writes one half at a time, so that a step of another     *)
(* thread may come between any two accesses.  GetUnsafe goes round the     *)
(* mutex, and nothing is claimed of it.                                    *)
(***************************************************************************)
EXTENDS Integers

CONSTANTS Threads, NoThread

ASSUME GuardedDataAssumption == NoThread \notin Threads

VARIABLES
    mutex_,     \* who has locked it
    data_,
    seen,       \* what each thread has read
    updates     \* history: how many updates were made

guardedVars == <<mutex_, data_, seen, updates>>

Data == [first : Nat, second : Nat]

GuardedTypeOK ==
    /\ mutex_ \in Threads \cup {NoThread}
    /\ data_ \in Data
    /\ seen \in [Threads -> Data]
    /\ updates \in Nat

GuardedInit ==
    /\ mutex_ = NoThread
    /\ data_ = [first |-> 0, second |-> 0]
    /\ seen = [t \in Threads |-> data_]
    /\ updates = 0

AccessWithoutLock(t) ==         \* slip: the constructor does not lock
    mutex_' = t /\ UNCHANGED <<data_, seen, updates>>

\* GuardedAccess's constructor waits for the mutex.
Access(t) ==
    /\ mutex_ = NoThread
    /\ mutex_' = t
    /\ UNCHANGED <<data_, seen, updates>>

ReleaseForgotten(t) == UNCHANGED guardedVars    \* slip: the destructor does not unlock

\* Its destructor.
Release(t) == mutex_' = NoThread /\ UNCHANGED <<data_, seen, updates>>

\* An update through operator* or operator->, in three accesses.
ReadData(t) ==
    /\ seen' = [seen EXCEPT ![t] = data_]
    /\ UNCHANGED <<mutex_, data_, updates>>

WriteFirst(t) ==
    /\ data_' = [data_ EXCEPT !.first = seen[t].first + 1]
    /\ updates' = updates + 1
    /\ UNCHANGED <<mutex_, seen>>

WriteSecond(t) ==
    /\ data_' = [data_ EXCEPT !.second = seen[t].second + 1]
    /\ UNCHANGED <<mutex_, seen, updates>>
===============================================================================
