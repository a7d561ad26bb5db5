\* The operator edits a confirmed record while its upload is in flight.
SPECIFICATION Spec
CONSTANTS
    Records = {1}
    MaxRev = 2
    Syncers = {s1}
    BatchSize = 1
    MaxAttempts = 1
    MayRefuse = {}
    Faults = {}
    MaxLate = 0
INVARIANT SyncedMatchesBackend
CHECK_DEADLOCK FALSE
