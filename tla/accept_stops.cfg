\* A client that resets before it is accepted ends the services.
SPECIFICATION Spec
CONSTANTS
    MaxConnections = 1
    MaxUnread = 1
    Faults = {"early_reset"}
INVARIANTS
    AcceptsUntilStopped
CHECK_DEADLOCK FALSE
