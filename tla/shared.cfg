SPECIFICATION TSpec
CONSTANTS
    N = 2
    B = 2
    c1 = c1
    c2 = c2
    Text <- MCText
    Unescaped <- MCUnescaped
    Misread <- MCMisread
    Bare <- MCBare
    Client <- Two
    Entry <- TwoEntries
    Plan <- NoPlan
    Scripts <- SharedScripts
    MaxTribbles = 2
    MaxCrashes = 0
INVARIANTS
    TribblerTypeOK
    CreatedOnce
    ToldIsStored
    SubscriptionsSound
    StatusesTrue
    FeedsComplete
    FeedsInOrder
CHECK_DEADLOCK FALSE
