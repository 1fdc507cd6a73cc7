SPECIFICATION CleanFairSpec
CONSTANTS
    p1 = p1
    p2 = p2
    Proc <- Two
    Busy <- Two
    NoFile = NoFile
    NoPid = NoPid
    MaxErrands = 1
INVARIANTS CleanTypeOK HolderKeepsFile SweepSparesTheSeen LeakIsFound
PROPERTY StaleNeverBlocks
CHECK_DEADLOCK FALSE
