SPECIFICATION Spec
CONSTANTS
    N = 3
    B = 1
    c1 = c1
    c2 = c2
    Text <- MCText
    Unescaped <- MCUnescaped
    Misread <- MCMisread
    Bare <- MCBare
    Client <- TwoClients
    Entry <- OneEntry
    Plan <- ShortPlan
    MaxCrashes = 0
CONSTRAINT
    FewCrashes
INVARIANTS
    ReadyServersAnswer
