SPECIFICATION FairSpec
CONSTANTS
    a = a
    b = b
    c = c
    stack1 = stack1
    NoStack = NoStack
    NoNode = NoNode
    Node <- AllNodes
    Rank <- PlanOrder
    Needs <- ForkNeeds
    StackOf <- PinnedPair
    Only = {a, b, c}
    Phased = {a}
    Audited = {a}
    Caps = {1, 2}
    MaxReloads = 1
    LedgerRejects = TRUE
    SeamThrows = TRUE
INVARIANTS TypeOK GroupInPlanOrder DependentsNeverOverlap WorkKept AtMostOneLateLaunch LockCoversNodes CleanRunIsComplete
PROPERTIES ImplementsDagRun RunEnds
CHECK_DEADLOCK FALSE
