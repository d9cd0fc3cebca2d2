CONSTANTS
    GenMax = 6
    MaxVersions = 6
    Cuts = {"slotA", "headB", "slotB"}
SPECIFICATION Spec
CHECK_DEADLOCK FALSE
INVARIANT DurableSurvives
