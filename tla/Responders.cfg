SPECIFICATION Spec
CONSTANTS
    Cases <- MCCases
    MyIp = "board"
    MyMac = "board"
    Words <- MCWords
INVARIANTS
    TypeOK
    Synced
    AnswersExactly
    RegistersHold
PROPERTIES
    ComesToRest
    AllServed
CHECK_DEADLOCK FALSE
