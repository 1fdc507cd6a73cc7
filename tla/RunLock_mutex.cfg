SPECIFICATION Spec
CONSTANTS
    p1 = p1
    p2 = p2
    p3 = p3
    Proc <- Two
    NoFile = NoFile
    NoPid = NoPid
    MaxErrands = 0
INVARIANT OneConductor
CHECK_DEADLOCK FALSE
