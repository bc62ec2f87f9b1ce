CONSTANTS
    MaxSteps = 6
    MaxLines = 2
    MaxRounds = 2
SPECIFICATION Spec
INVARIANT TypeOK
INVARIANT DryRunTouchesNothing
INVARIANT ChangesOnlyAsked
INVARIANT ExitTellsOutcome
INVARIANT FailureIsReported
INVARIANT SettlesWithoutDeadline
INVARIANT RecordingIsComplete
INVARIANT AskedRecordedOnce
PROPERTY SessionsEnd
CHECK_DEADLOCK FALSE
