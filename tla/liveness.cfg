SPECIFICATION FairSpec
CONSTANTS
    N = 3
    B = 2
    c1 = c1
    c2 = c2
    Text <- MCText
    Unescaped <- MCUnescaped
    Misread <- MCMisread
    Bare <- MCBare
    Client <- TwoClients
    Entry <- OneEntry
    Plan <- LivePlan
    MaxCrashes = 1
INVARIANTS
    NoWaitCycle
PROPERTIES
    CallsReturn
    BootEnds
