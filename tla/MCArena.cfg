SPECIFICATION Spec
CONSTANTS
    Cap    <- MCCap
    Sizes  <- MCSizes
    HdrLen <- MCHdrLen
    Texts  <- MCTexts
INVARIANTS
    TypeOK
    BlocksApart
    NamesIntact
    NamesCanonical
PROPERTY FreshBlocksZero
\* die() ends the compiler: an aborted arena has no next step.
CHECK_DEADLOCK FALSE
