SPECIFICATION Spec
CONSTANTS
    Handles = {h1, h2, h3}
    MaxUsize = 3
    InitPermits = 2
    Amounts = {0, 1, 2}
    Nil = Nil
PROPERTY ImplementsSemaphore
