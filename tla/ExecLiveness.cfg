SPECIFICATION FairSpec
CONSTANTS
    p1 = p1
    p2 = p2
    p3 = p3
    root = root
    child = child
    d1 = d1
    Nobody = Nobody
    Procs = {p1, p2, p3}
    Services = {root}
    Root = root
    Dirs = {d1}
    WorkingDir <- MCWorkingDir
    Workload <- MCMix
    SeedSource = "none"
    MaxVersion = 1
    EmptyStates = {}
    Strangers = FALSE
PROPERTY EveryCallReturns
