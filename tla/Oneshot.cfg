SPECIFICATION FairSpec
CONSTANTS
    Channels = {c1, c2}
    Messages = {m1, m2}
    Tasks = {t1, t2}
    None = None
    Err = Err
    Nil = Nil
INVARIANTS
    TypeOK
    AnswerIsTrue
    AcceptedIsKept
PROPERTY ReceiverAnswered
