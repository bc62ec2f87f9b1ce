CONSTANTS
    Dirs <- TwoDirs
    Names <- TwoNames
    Default = "default"
    Globs <- OneGlob
    Texts <- SixTexts
    Launches <- FiveLaunches
    Addrs = {"a"}
    MaxRequests = 1
    MaxEdits = 0
SPECIFICATION Spec
INVARIANT PlanFollowsChain
CHECK_DEADLOCK FALSE
