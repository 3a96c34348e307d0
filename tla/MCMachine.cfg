SPECIFICATION Spec
CONSTANTS
    ByteBits = 2
    SymTy   <- MCSymTy
    SymAt   <- MCSymAt
    Frame   <- MCFrame
    Foreign <- MCForeign
    Funcs   <- MCFuncs
    FP      <- MCFP
    Exprs   <- MCExprs
    Mems    <- MCMems
INVARIANTS
    TypeOK
    ResultIsMeaning
    EffectsAsMeant
    StackBalanced
    FoldAgrees
    UpperHalfClear
\* A compiled expression comes to its end.
CHECK_DEADLOCK FALSE
