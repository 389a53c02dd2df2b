\* Both builds, one client, every fault.  A process that has ended stops.
SPECIFICATION FairServerSpec
CONSTANTS
    MaxConnections = 1
    MaxUnread = 1
    Faults = {"accept", "accept_setup", "early_reset", "out_file"}
INVARIANTS
    ServerTypeOK
PROPERTIES
    ImplementsLifecycle
    HandlersRunOnLive
    StopEndsProcess
CHECK_DEADLOCK FALSE
