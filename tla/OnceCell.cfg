SPECIFICATION FairSpec
CONSTANTS
    Callers = {c1, c2, c3, c4}
    Values = {v1, v2}
    Nil = Nil
INVARIANTS
    TypeOK
    OneOwner
    WaitersHaveOwner
    ResumeReachable
    RefsStayValid
    OneInsertWins
PROPERTIES
    ImplementsOnce
    EveryoneLeavesQueue
