\* One syncer, pages of two, a retry of each request; every fault but a
\* delayed request.
SPECIFICATION Spec
CONSTANTS
    Records = {1, 2, 3}
    MaxRev = 2
    Syncers = {s1}
    BatchSize = 2
    MaxAttempts = 2
    MayRefuse = {1}
    Faults = {"lostResponse", "crash", "storeError"}
    MaxLate = 0
INVARIANTS
    TypeOK
    PassCoversQueue
PROPERTY PendingVoidsNotLost
CHECK_DEADLOCK FALSE
