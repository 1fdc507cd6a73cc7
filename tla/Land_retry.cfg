SPECIFICATION Spec
CONSTANTS
    root = root
    a = a
    b = b
    c = c
    d = d
    main = main
    other = other
    Edit = Edit
    None = None
    Order <- Plan
    Needs <- PlanNeeds
    Branch <- Branches
    Landings <- TwoSmokes
    Unrunnable = {"pipe"}
    Flakes = 1
    Moves = 0
INVARIANT PublishedPassedEveryGate
CHECK_DEADLOCK FALSE
