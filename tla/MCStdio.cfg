SPECIFICATION FairSpec
CONSTANTS
    MAX_FILES    = 4
    FILE_BUF_CAP = 2
    Objects      <- MCObjects
    Used         = {1}
    MaxBytes     = 5
INVARIANTS TypeOK NothingLost AnswersAreTrue TableSound
PROPERTIES ByteStreams CallsEnd
\* A program that has left exit does nothing more.
CHECK_DEADLOCK FALSE
