SPECIFICATION Spec
CONSTANTS
    BlockOf <- MCBlockOf
    Half = 2
    RawDepth = 2
    EncDepth = 3
    FileLen = 8
    NetBytes = 3
    MaxFlips = 2
    MaxErrors = 0
INVARIANT
    SdFileFromSdOnly
