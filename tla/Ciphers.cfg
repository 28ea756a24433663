SPECIFICATION Spec
CONSTANTS
    PC1    <- InitialKeyPermutation
    PC2    <- SubKeyPermutation
    Shifts <- KeyShiftSizes
    IP     <- InitialMessagePermutation
    FP     <- FinalMessagePermutation
    E      <- MessageExpansion
    P      <- RightSubMessagePermutation
    SBox   <- SubstitutionBoxes
    Sub    <- S_Box
    InverseSub <- isbox
    Expanded <- aes_expanded_key
    Answers <- MCAnswers
INVARIANTS
    TypeOK
    Reversible
    KnownAnswer
PROPERTY
    RoundsInvertible
