\* One syncer and a network that fails requests without handling them: the
\* void protocol keeps its promise, and everything settles.
SPECIFICATION LiveSpec
CONSTANTS
    Records = {1, 2, 3}
    MaxRev = 1
    Syncers = {s1}
    BatchSize = 2
    MaxAttempts = 2
    MayRefuse = {1, 2}
    Faults = {}
    MaxLate = 0
INVARIANT NoSilentDivergence
PROPERTIES
    PassTerminates
    EventuallySettled
    VoidsDrain
CHECK_DEADLOCK FALSE
