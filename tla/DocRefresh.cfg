SPECIFICATION Spec
CONSTANTS
    p1 = p1
    p2 = p2
    root = root
    child = child
    d1 = d1
    p3 = p3
    Nobody = Nobody
    Procs = {p1, p2}
    Services = {root, child}
    Root = root
    Dirs = {d1}
    WorkingDir <- MCWorkingDir
    Workload <- Ops
    SeedSource = "none"
    MaxVersion = 2
    EmptyStates = {1}
    Strangers = TRUE
INVARIANT SkipCacheReReads
SYMMETRY Symmetric
