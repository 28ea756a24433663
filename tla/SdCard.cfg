SPECIFICATION MCSpec
CONSTANTS
    BlockOf <- MCBlockOf
    Half = 2
    RawDepth = 2
    EncDepth = 1
    FileLen = 8
    NetBytes = 5
    MaxFlips = 2
    MaxErrors = 1
INVARIANTS
    TypeOK
    FileExact
    TransfersWhole
    NeverHangs
PROPERTIES
    SessionEnds
    NetworkResumes
\* The system does stop where a session finds more than the path has room for.
CHECK_DEADLOCK FALSE
