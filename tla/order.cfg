SPECIFICATION Spec
CONSTANTS
    N = 3
    B = 2
    c1 = c1
    c2 = c2
    Text <- MCText
    Unescaped <- MCUnescaped
    Misread <- MCMisread
    Bare <- MCBare
    Client <- TwoClients
    Entry <- TwoEntries
    Plan <- OrderPlan
    MaxCrashes = 1
CONSTRAINT
    FewCrashes
INVARIANTS
    OwnClockLeads
    OrderAgreement
CHECK_DEADLOCK FALSE
