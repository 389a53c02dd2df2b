\* Debug build: stopping with a client connected fails an assertion.
SPECIFICATION ServerSpec
CONSTANTS
    MaxConnections = 1
    MaxUnread = 1
    Faults = {}
INVARIANTS
    StopDoesNotAbort
CHECK_DEADLOCK FALSE
