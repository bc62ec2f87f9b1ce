CONSTANTS
    MaxSteps = 2
    MaxLines = 1
    MaxRounds = 1
SPECIFICATION Spec
INVARIANT DocFailureRows
CHECK_DEADLOCK FALSE
