SPECIFICATION FairSpec
CONSTANTS
    Channels = {c1, c2}
    Client = Client
    Server = Server
    Capacity = 1
    MaxRequests = 3
    None = None
    Err = Err
    Nil = Nil
INVARIANTS
    SendersHaveOwner
    RepliesMatch
PROPERTY Answered
