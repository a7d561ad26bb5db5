\* Two threads of the shell, every call, store errors, process death.
SPECIFICATION Spec
CONSTANTS
    Records = {1, 2}
    MaxRev = 3
    Threads = {t1, t2}
    Calls = {"dictate", "confirm", "scratch", "correct", "edit", "manual", "arm", "disarm"}
    MaxItems = 1
    AutoConfirm = TRUE
    StoreFails = TRUE
SYMMETRY ThreadSymmetry
INVARIANT ReviewHasPending
CHECK_DEADLOCK FALSE
