\* The answer to an upload is lost, and the operator rejects the record next.
SPECIFICATION Spec
CONSTANTS
    Records = {1}
    MaxRev = 1
    Syncers = {s1}
    BatchSize = 1
    MaxAttempts = 2
    MayRefuse = {}
    Faults = {"lostResponse"}
    MaxLate = 0
INVARIANT NoSilentDivergence
CHECK_DEADLOCK FALSE
