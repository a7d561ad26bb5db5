\* Two syncers on one store (an App that dropped its syncer mid-pass, or two
\* vinv processes) and every fault.
SPECIFICATION Spec
CONSTANTS
    Records = {1, 2}
    MaxRev = 1
    Syncers = {s1, s2}
    BatchSize = 1
    MaxAttempts = 1
    MayRefuse = {1}
    Faults = {"lostResponse", "late", "crash", "storeError"}
    MaxLate = 1
SYMMETRY SyncerSymmetry
INVARIANTS
    SyncedWasAccepted
    OnlyConfirmedUploaded
    SyncedHasNoBadge
    VoidsAreRejected
PROPERTY Refines
CHECK_DEADLOCK FALSE
