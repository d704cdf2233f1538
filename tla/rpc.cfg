SPECIFICATION FairSpec
CONSTANTS
    x1 = x1
    x2 = x2
    x3 = x3
    Conn <- ThreeConn
    Client <- TriClient
    Processor <- TriProcessor
    Request <- TriRequest
    Answer <- TriAnswer
    MaxCalls = 2
    MaxCrashes = 1
PROPERTIES
    CallsEnd
    ImplementsRemoteCall
INVARIANTS
    InStep
    AnswersFit
