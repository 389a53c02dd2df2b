\* A connection whose greeting could not be written is never collected.
SPECIFICATION FairSpec
CONSTANTS
    MaxConnections = 1
    MaxUnread = 1
    Faults = {}
PROPERTIES
    EndedConnectionReclaimed
