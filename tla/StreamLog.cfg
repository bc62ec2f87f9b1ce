SPECIFICATION FairSpec
CONSTANTS
    Capacity = 1
    Lengths = {0, 2}
    MaxRuns = 2
INVARIANTS
    TypeOK
    LogIsFaithful
PROPERTIES
    OutputEnds
    LogEnds
