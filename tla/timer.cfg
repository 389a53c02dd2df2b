\* Two threads with the same or different items, two scopes of one and
\* one of the other, under a clock that may be set back.  All scopes
\* end, so deadlock is not checked.
SPECIFICATION FairTimerSpec
CONSTANTS
    t1 = t1
    t2 = t2
    Threads = {t1, t2}
    NoThread = NoThread
    Names = {a, b}
    MaxScopes <- TwiceAndOnce
    MaxTime = 1
INVARIANTS
    TimerTypeOK
    GuardedUpdatesKept
    MapRaceOnlyOutsideGuard
    
PROPERTIES
    ScopesEnd
CHECK_DEADLOCK FALSE
