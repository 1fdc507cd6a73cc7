SPECIFICATION FairSpec
CONSTANTS
    root = root
    a = a
    b = b
    c = c
    d = d
    main = main
    other = other
    Edit = Edit
    None = None
    Order <- Plan
    Needs <- PlanNeeds
    Branch <- Branches
    Landings <- AllLandings
    Unrunnable = {"pipe"}
    Flakes = 1
    Moves = 1
INVARIANTS TypeOK CulpritsAreGuilty PublishedPassedTheGates OnlyVerifiedLands PinsCompleteTheStack NothingLeftBehind
PROPERTIES OnlyGatedTreesArePublished LandingEnds
CHECK_DEADLOCK FALSE
