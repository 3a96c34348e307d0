SPECIFICATION Spec
CONSTANTS
    ByteBits = 2
    SymTy   <- MCSymTy
    SymAt   <- MCSymAt
    Frame   <- MCFrame
    Foreign <- MCForeign
    Funcs   <- MCFuncs
    FP      <- MCFP
    Exprs   <- MCDeviations
    Mems    <- MCMems
INVARIANT ResultIsMeaning
\* A compiled expression comes to its end.
CHECK_DEADLOCK FALSE
