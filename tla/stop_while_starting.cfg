\* Stopping before there is an acceptor fails an assertion.
SPECIFICATION ServerSpec
CONSTANTS
    MaxConnections = 1
    MaxUnread = 1
    Faults = {}
INVARIANTS
    AcceptorHasValue
CHECK_DEADLOCK FALSE
