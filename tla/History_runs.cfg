SPECIFICATION Spec
CONSTANTS
    a = a
    b = b
    p = p
    q = q
    None = None
    Implied = Implied
    ByName = ByName
    Order <- Plan
    Sources <- TwoSources
    Worlds <- AllWorlds
INVARIANTS TypeOK SeedIsNotSuperseded TrustedCloseWasVerified ReauditedBuildWasGreen VerifiedStandsOnVerified
CHECK_DEADLOCK FALSE
