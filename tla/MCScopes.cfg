SPECIFICATION Spec
CONSTANTS
    x = x
    f = f
    Names    <- MCNames
    Tys      <- MCTys
    Written  <- MCNone
    MaxSyms  = 4
    MaxDepth = 4
    MaxRefs  = 1
    MaxDecls = 2
    LateTentative = FALSE
SYMMETRY Renaming
INVARIANTS
    OneMeaning
    LocalsInOwnFrame
PROPERTY
    OuterScopesUntouched
\* The end of the compilation, and a rejected file, end the behaviour.
CHECK_DEADLOCK FALSE
