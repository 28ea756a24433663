SPECIFICATION Spec
CONSTANTS
    c1 = c1
    c2 = c2
    NoClient = NoClient
    Clients <- MCClients
    Traffic <- MCTraffic
    Cap = 3
    Block = 2
    RawDepth = 2
    EncDepth = 3
INVARIANTS
    TypeOK
    Unbroken
    Framed
    Addressed
PROPERTIES
    ImplementsRepacketizer
    AllButTail
    ComesToRest
\* The traffic is finite: the path stops when it has been processed.
CHECK_DEADLOCK FALSE
