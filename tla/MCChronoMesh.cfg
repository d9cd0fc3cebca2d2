CONSTANTS
    a = a
    b = b
    sealer = sealer
    opener1 = opener1
    opener2 = opener2
    keeper = keeper
    Nodes = {a, b}
    Threads = {sealer, opener1, opener2, keeper}
    Home <- MCHome
    Duty <- MCDuty
    BootEpoch = 1
    SeqMax = 4
    EpochMax = 3
    MaxSeals = 3
    MaxExports = 1
    MaxCrashes = 1
    Window = 2
    Bits = 3
SPECIFICATION Spec
SYMMETRY Symmetry
CHECK_DEADLOCK FALSE
INVARIANTS TypeOK PeersExact IntegrityExact DeliveredOnce EqualDigestsMeanNoLoss
