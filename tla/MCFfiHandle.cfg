CONSTANTS
    Window = 1
    Bits = 2
    GenMax = 12
    Sent <- MCSent
    Arriving <- MCArriving
    AgreedAad <- MCAad
    Now = 7
    MaxDrift = 2
    BootEpoch = 1
    SeqMax = 2
    EpochMax = 4
    FirstCap = 1
    Cuts = {"headB", "slotB"}
    MaxSeals = 2
    MaxSaves = 1
    MaxStops = 2
SPECIFICATION Spec
CHECK_DEADLOCK FALSE
INVARIANTS TypeOK UniqueIdentity SavedIsRefused JournalIsWhole OnlySealedIsRead
PROPERTIES EveryArrivalIsRead ServesAgain
