SPECIFICATION Spec
CONSTANTS
    LONG_BITS  = 6
    INT_BITS   = 4
    CHUNK_SIZE = 3
    BUF_SIZE   = 2
    FILE_BUF_CAP = 3
    Jobs <- MCJobs
INVARIANTS NumbersAsC OptionsAsPosix PrintedAsC DumpSound WcCounts CatCopies
\* Every program ends.
CHECK_DEADLOCK FALSE
