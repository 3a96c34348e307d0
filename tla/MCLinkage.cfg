SPECIFICATION Spec
CONSTANTS
    x = x
    f = f
    Names    <- MCNames
    Tys      <- MCTys
    Written  <- MCStorages
    MaxSyms  = 3
    MaxDepth = 3
    MaxRefs  = 1
    MaxDecls = 3
    LateTentative = FALSE
SYMMETRY Renaming
INVARIANTS
    TypeOK
    AddressesResolve
    LabelsUnique
PROPERTY
    LinkageAsInC
\* The end of the compilation, and a rejected file, end the behaviour.
CHECK_DEADLOCK FALSE
