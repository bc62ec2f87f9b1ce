CONSTANTS
    Dirs <- TwoDirs
    Names <- TwoNames
    Default = "default"
    Globs <- OneGlob
    Texts <- SixTexts
    Launches <- FiveLaunches
    Addrs = {"a"}
    MaxRequests = 1
    MaxEdits = 1
SPECIFICATION Spec
INVARIANT TypeOK
INVARIANT ResolveIsChain
PROPERTY SwitchReadsMember
CHECK_DEADLOCK FALSE
