CONSTANTS
    MaxPackets = 4
    MaxCuts = 3
    MaxErrors = 2
    RecoverAfterError = FALSE
SPECIFICATION Spec
CHECK_DEADLOCK FALSE
INVARIANT AckedIsRecovered
