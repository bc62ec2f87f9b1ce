CONSTANTS
    MaxSteps = 2
    MaxLines = 1
    MaxRounds = 1
SPECIFICATION Spec
PROPERTY DocMacroCompletes
CHECK_DEADLOCK FALSE
