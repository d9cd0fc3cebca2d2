CONSTANTS
    s1 = s1
    s2 = s2
    Savers = {s1, s2}
    Overlap = FALSE
    DirSyncs = TRUE
    GenMax = 5
    MaxVersions = 6
    Cuts = {"headB", "slotB"}
SPECIFICATION SaveSpec
CHECK_DEADLOCK FALSE
INVARIANTS SaveTypeOK DurableSurvives FallbackIsPreviousCommit
PROPERTY NeverGoesBack
