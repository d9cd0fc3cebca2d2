CONSTANTS
    MaxPackets = 4
    MaxCuts = 3
    MaxErrors = 2
    RecoverAfterError = TRUE
SPECIFICATION Spec
CHECK_DEADLOCK FALSE
INVARIANTS TypeOK AckedIsRecovered HeadContinuesFile
PROPERTIES NothingRecoveredIsLost ComesBack
