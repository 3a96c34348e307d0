SPECIFICATION Spec
CONSTANTS
    LONG_BITS  = 6
    INT_BITS   = 4
    CHUNK_SIZE = 3
    BUF_SIZE   = 2
    FILE_BUF_CAP = 3
    Jobs <- MCLosers
INVARIANT OutputComplete
\* Every program ends.
CHECK_DEADLOCK FALSE
