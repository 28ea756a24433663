SPECIFICATION Spec
CONSTANTS
    Word <- MCWord
    Rest <- MCRest
    Code <- MCCode
    Type <- MCType
    Check <- MCCheck
    Payloads = 2
INVARIANT
    ReplyIcmpOK
\* A behaviour is one frame.
CHECK_DEADLOCK FALSE
