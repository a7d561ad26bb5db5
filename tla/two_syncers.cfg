\* No fault at all, but SetConfigJSON replaced the syncer during a pass.
SPECIFICATION Spec
CONSTANTS
    Records = {1, 2}
    MaxRev = 1
    Syncers = {s1, s2}
    BatchSize = 1
    MaxAttempts = 1
    MayRefuse = {1}
    Faults = {}
    MaxLate = 0
PROPERTY PendingVoidsNotLost
CHECK_DEADLOCK FALSE
