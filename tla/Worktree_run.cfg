SPECIFICATION Spec
CONSTANTS
    code = code
    scratch = scratch
    NoTree = NoTree
    Missed = Missed
    Path = {code, scratch}
    Scratch = {scratch}
    Repos <- Kinds
    InQuotes = InQuotes
    Nodes <- Some
    Bases <- SomeBases
    Leaves <- MayLeave
    Loose = {code}
    MaxMerges = 1
    MaxWindows = 2
    MaxRuns = 2
INVARIANTS TypeOK PublishedIsJudged PublishedIsWhatSmokeSaw NothingRefusedIsPublished RedGateWritesNeverDelivered KeptHoldsTheWork
CHECK_DEADLOCK FALSE
