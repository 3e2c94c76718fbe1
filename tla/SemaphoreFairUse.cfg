SPECIFICATION FairUseSpec
CONSTANTS
    Handles = {h1, h2, h3, h4}
    MaxUsize = 3
    InitPermits = 2
    Amounts = {0, 1, 2, 3}
PROPERTY NoStarvation
