SPECIFICATION Spec
CONSTANTS
    d1 = d1
    d2 = d2
    a1 = a1
    Chdirs = {d1, d2}
    BootDir = d1
    Addrs = {a1}
    Commands <- PlanCommands
    Hasty = FALSE
    MaxRuns = 3
    MaxDepth = 2
    MaxWaiting = 1
PROPERTY RetryUsesThePlanFile
CHECK_DEADLOCK FALSE
