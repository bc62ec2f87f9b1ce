CONSTANTS
    d1 = d1
    d2 = d2
    a1 = a1
    a2 = a2
    w1 = w1
    w2 = w2
    Chdirs <- TwoChdirs
    BootDir = d1
    Addrs <- TwoAddrs
    Matching <- OneMatch
    Workspaces <- TwoWorkspaces
    Default = w1
    MaxOps = 3
    MaxSwitches = 1
SPECIFICATION Spec
INVARIANT TypeOK
INVARIANT WaitingHasRun
INVARIANT ListIsCurrent
PROPERTY ImplementsConfirmedEdits
CHECK_DEADLOCK FALSE
