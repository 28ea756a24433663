SPECIFICATION Spec
CONSTANTS
    EthWords <- MCEthWords
    IpWords <- MCIpWords
    UdpWords <- MCUdpWords
    Traffic <- MCTraffic
    PktDepth <- MCPktDepth
    ProtDepth <- MCProtDepth
    PortDepth <- MCPortDepth
INVARIANTS
    TypeOK
    VerdictsAligned
    NothingLost
PROPERTIES
    ComesToRest
    ImplementsRouter
    DeliversAll
\* The traffic is finite: the system stops when the last core has read its
\* last word.  NeverStuck in ComesToRest tells that state from a deadlock.
CHECK_DEADLOCK FALSE
