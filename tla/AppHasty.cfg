SPECIFICATION FairSpec
CONSTANTS
    d1 = d1
    d2 = d2
    a1 = a1
    Chdirs = {d1}
    BootDir = d1
    Addrs = {a1}
    Commands <- BusyCommands
    Hasty = TRUE
    MaxRuns = 2
    MaxDepth = 1
    MaxWaiting = 1
PROPERTY
    BusyEnds
CHECK_DEADLOCK FALSE
