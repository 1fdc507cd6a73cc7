SPECIFICATION Spec
CONSTANTS
    p1 = p1
    p2 = p2
    p3 = p3
    Proc <- Two
    NoFile = NoFile
    NoPid = NoPid
    MaxErrands = 1
INVARIANT DrainsOnlyWhenAsked
CHECK_DEADLOCK FALSE
