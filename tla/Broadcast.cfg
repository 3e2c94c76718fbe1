SPECIFICATION FairSpec
CONSTANTS
    Slots = {s1, s2}
    Tasks = {t1, t2}
    Capacity = 1
    MaxId = 3
    MaxSends = 3
    Nil = Nil
INVARIANTS
    TypeOK
    InOrderOnce
    IdTellsWhoHasIt
    GuaranteedDelivery
    SenderNotified
PROPERTY
    CallsComplete
CHECK_DEADLOCK FALSE
