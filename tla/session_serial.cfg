\* Calls one at a time, beside batch review and sync; the process may die.
SPECIFICATION LiveSpec
CONSTANTS
    Records = {1, 2, 3}
    MaxRev = 3
    Threads = {t1}
    Calls = {"dictate", "confirm", "scratch", "correct", "manual", "arm", "disarm"}
    MaxItems = 2
    AutoConfirm = TRUE
    StoreFails = FALSE
INVARIANTS
    TypeOK
    PendingIffReviewing
    PendingIsStored
    LastSavedWasSaved
PROPERTIES
    ArmedByArm
    NeverWedged
CHECK_DEADLOCK FALSE
