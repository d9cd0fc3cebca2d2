CONSTANTS
    SeqMax = 3
    EpochMax = 3
    MaxSeals = 4
    Careful = TRUE
SPECIFICATION Spec
CHECK_DEADLOCK FALSE
INVARIANTS TypeOK NextPacketOpens
PROPERTIES InitiatorIsHeardInOrder ResponderIsHeardInOrder AllDelivered
