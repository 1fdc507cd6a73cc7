SPECIFICATION Spec
CONSTANTS
    a = a
    b = b
    p = p
    q = q
    None = None
    Implied = Implied
    ByName = ByName
    Order <- Plan
    Sources <- TwoSources
    Worlds <- Edited
INVARIANT NoSkipTrustOfAnotherSmoke
CHECK_DEADLOCK FALSE
