\* Two clients and every fault.  The services stop for good when an exception
\* leaves io_context.run(), so deadlock is not checked.
SPECIFICATION Spec
CONSTANTS
    MaxConnections = 2
    MaxUnread = 1
    Faults = {"accept", "accept_setup", "early_reset", "out_file"}
INVARIANTS
    TypeOK
    NoDanglingHandler
    RefCountExact
    OperationsMatchStatus
    HandlerPreconditions
    NoStalledConnection
PROPERTIES
    StatusOnlyAdvances
    ClosedOnlyForCause
    ImplementsLifetime
CHECK_DEADLOCK FALSE
