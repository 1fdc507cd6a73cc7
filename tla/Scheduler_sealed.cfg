SPECIFICATION Spec
CONSTANTS
    a = a
    b = b
    c = c
    stack1 = stack1
    NoStack = NoStack
    NoNode = NoNode
    Node <- AllNodes
    Rank <- PlanOrder
    Needs <- NoNeeds
    StackOf <- NoPins
    Only = {a, b, c}
    Phased = {a}
    Audited = {}
    Caps = {2}
    MaxReloads = 0
    LedgerRejects = FALSE
    SeamThrows = FALSE
INVARIANT SealedWorkKept
CHECK_DEADLOCK FALSE
