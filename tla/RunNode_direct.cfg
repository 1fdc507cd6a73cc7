SPECIFICATION FairSpec
CONSTANTS
    claude = claude
    codex = codex
    grok = grok
    NoProvider = NoProvider
    Nodes <- AllNodes
    Options <- DirectOptions
    ProviderWaits = 1
PROPERTY InterruptIsNotDeath
CHECK_DEADLOCK FALSE
