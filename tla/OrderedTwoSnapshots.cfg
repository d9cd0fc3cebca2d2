CONSTANTS
    SeqMax = 3
    EpochMax = 3
    MaxSeals = 3
    Careful = FALSE
SPECIFICATION Spec
CHECK_DEADLOCK FALSE
INVARIANT SnapshotsNeverBlock
