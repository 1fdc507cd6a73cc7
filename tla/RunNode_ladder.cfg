SPECIFICATION FairSpec
CONSTANTS
    claude = claude
    codex = codex
    grok = grok
    NoProvider = NoProvider
    Nodes <- AllNodes
    Options <- EveryOption
    ProviderWaits = 1
INVARIANTS TypeOK OutcomesAreEarned SealsBelongToTree TreeAccounted AtMostOneSpawnAfterAbort NoWorkerOutlivesNode
PROPERTY NodeSettles
CHECK_DEADLOCK FALSE
