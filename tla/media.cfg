\* Two runs that may start in the same second, with a file system that works and
\* with one that has every fault.
\* The bounds are reached in the end, so deadlock is not checked.
SPECIFICATION MediaSpec
CONSTANTS
    MaxRuns = 2
    MaxSecond = 1
    MaxConnections = 2
    MaxReceived = 3
    MaxPieces = 3
    FileFaults = {"open", "make", "write", "remove"}
CONSTRAINT
    AtMostMaxPieces
INVARIANTS
    MediaTypeOK
    FileOfOneStream
    EverythingSaved
PROPERTIES
    ImplementsRecorder
CHECK_DEADLOCK FALSE
