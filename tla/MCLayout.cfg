SPECIFICATION Spec
CONSTANTS
    A = A
    B = B
    f = f
    Tags       <- MCTags
    Func       = f
    Widths     <- MCWidths
    ArrLens    <- MCLens
    MaxMembers <- MCMembers
CONSTRAINT StructsOrFrame
INVARIANTS
    TypeOK
    MembersApart
    LayoutAligned
    FrameSound
    ReservedSizesFinal
\* A rejected or trapped compilation and an emitted function end the behaviour.
CHECK_DEADLOCK FALSE
