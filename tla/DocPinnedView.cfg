CONSTANTS
    Addrs <- ThreeAddrs
    Queries <- TwoQueries
    Matching <- SomeMatch
    ByPlan <- PlanOrder
    ByScore <- ScoreOrder
    Plans <- ThreePlans
    MaxPlans = 2
    MaxRequests = 1
SPECIFICATION Spec
INVARIANT PinnedViewIsDerived
CHECK_DEADLOCK FALSE
