CONSTANTS
    a = a
    sealer1 = sealer1
    sealer2 = sealer2
    keeper = keeper
    Nodes = {a}
    Threads = {sealer1, sealer2, keeper}
    Home <- MCHome
    Duty <- MCDuty
    BootEpoch = 1
    SeqMax = 5
    EpochMax = 4
    MaxSeals = 4
    MaxExports = 3
    MaxCrashes = 2
    Window = 2
    Bits = 3
    SealersWait = TRUE
    SaveAfterRestore = FALSE
SPECIFICATION RecoverySpec
SYMMETRY Symmetry
CHECK_DEADLOCK FALSE
INVARIANT UniqueIdentity
