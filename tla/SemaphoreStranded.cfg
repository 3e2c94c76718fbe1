SPECIFICATION FairSpec
CONSTANTS
    Handles = {h1, h2, h3}
    MaxUsize = 2
    InitPermits = 2
    Amounts = {1, 2}
PROPERTY AvailabilityNoticed
