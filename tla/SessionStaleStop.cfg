SPECIFICATION Spec
CONSTANTS
    MaxPlays = 2
    MaxSteps = 1
INVARIANT StoppedOnRequest
CHECK_DEADLOCK FALSE
