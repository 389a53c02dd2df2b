\* One client that may send its greeting and data ahead; accepts may fail.
SPECIFICATION FairSpec
CONSTANTS
    MaxConnections = 1
    MaxUnread = 3
    Faults = {"accept", "out_file"}
INVARIANTS
    AcceptsUntilStopped
PROPERTIES
    HandshakeResolved
    GreetedConnectionReclaimed
