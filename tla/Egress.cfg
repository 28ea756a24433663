SPECIFICATION Spec
CONSTANTS
    N = 4
    None = None
    Scripts <- MCScripts
    OutDepth <- MCOutDepth
    TxDepth = 4
INVARIANTS
    TypeOK
    NeverStalls
    BoundedBypass
PROPERTIES
    ImplementsMerge
    AllSent
    ComesToRest
\* The cores have only so many frames to send: the path stops when the last one
\* is on the line.
CHECK_DEADLOCK FALSE
