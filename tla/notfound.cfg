SPECIFICATION Spec
CONSTANTS
    N = 3
    B = 3
    c1 = c1
    c2 = c2
    Text <- MCText
    Unescaped <- MCUnescaped
    Misread <- MCMisread
    Bare <- MCBare
    Client <- TwoClients
    Entry <- TwoEntries
    Plan <- RemovalPlan
    MaxCrashes = 0
CONSTRAINT
    FewCrashes
PROPERTIES
    OnlyMissingItemsAreNotFound
CHECK_DEADLOCK FALSE
