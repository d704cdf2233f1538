SPECIFICATION TFairSpec
CONSTANTS
    N = 2
    B = 2
    c1 = c1
    c2 = c2
    Text <- NetworkText
    Unescaped <- MCUnescaped
    Misread <- MCMisread
    Bare <- MCBare
    Client <- Two
    Entry <- OneEntry
    Plan <- NoPlan
    Scripts <- NetworkScripts
    MaxTribbles = 2
    MaxCrashes = 1
INVARIANTS
    FeedsComplete
    ScriptWorks
PROPERTIES
    OperationsEnd
    ImplementsSocialNetwork
