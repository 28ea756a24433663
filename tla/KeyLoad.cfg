SPECIFICATION Spec
CONSTANTS
    Value = {0, 1}
    Zero = 0
    Words = 2
    KeyWords <- MCKeyWords
    Rows <- MCRows
    Cols <- MCCols
    UsedCols <- MCUsedCols
    MaxWrites = 2
    MaxFlips = 2
INVARIANTS
    TypeOK
    CleanBlocks
    FileOneKey
PROPERTY
    Settles
