\* A line from the handlers beside an invalid command, a stop and all of main's own
\* lines, with every fault or none.  A process that has ended stops.
SPECIFICATION FairProcessSpec
CONSTANTS
    MaxLines = 1
    LogFaults = {"open", "reopen"}
INVARIANTS
    ProcessTypeOK
    LogComplete
    ReportsLast
    LinesWholeWhenAlone
PROPERTIES
    ImplementsLifecycle
    LogOnlyGrows
    ClosedUnderWriterOnlyByCrash
    CrashEnds
CHECK_DEADLOCK FALSE
