SPECIFICATION Spec
CONSTANTS
    t1 = t1
    t2 = t2
    t3 = t3
    t4 = t4
    t5 = t5
    t6 = t6
    Found <- SixTribbles
    Older <- PostedBefore
    MaxTribbles = 3
INVARIANTS
    KeepsNewest
    AnswersFeed
