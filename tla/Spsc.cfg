SPECIFICATION FairSpec
CONSTANTS
    Messages = {m1, m2}
    Tasks = {t1, t2}
    Capacity = 2
    MaxBuffered = 3
    Nil = Nil
INVARIANTS
    TypeOK
    ReceiverNotified
    SenderNotified
PROPERTIES
    ImplementsChannel
    CallsComplete
CHECK_DEADLOCK FALSE
