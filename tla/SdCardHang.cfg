SPECIFICATION Spec
CONSTANTS
    BlockOf <- MCBlockOf
    Half = 2
    RawDepth = 2
    EncDepth = 1
    FileLen = 8
    NetBytes = 5
    MaxFlips = 2
    MaxErrors = 0
PROPERTY
    TransfersComplete
\* The system does stop here: main() waits for a transfer that cannot end.
CHECK_DEADLOCK FALSE
