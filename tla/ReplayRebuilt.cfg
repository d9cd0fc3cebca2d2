CONSTANTS
    Window = 3
    Bits = 4
    SeqMax = 7
    MaxLives = 2
SPECIFICATION Spec
CHECK_DEADLOCK FALSE
INVARIANT NonceNeverReused
