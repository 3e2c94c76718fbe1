SPECIFICATION FairSpec
CONSTANTS
    Waiters = {w1, w2, w3}
    Wakers = {t1, t2}
    Inputs = {i1, i2}
    Outputs = {o1, o2}
    Nil = Nil
    Reentrant = TRUE
INVARIANTS
    TypeOK
    PointersSpellOrder
    OnlyLiveNodesLinked
    WakerTagsUnion
    LatestWakerNotified
PROPERTIES
    ImplementsQueue
    WokenResumes
CHECK_DEADLOCK FALSE
