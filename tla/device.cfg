\* Two threads in each of the three components.
SPECIFICATION DeviceSpec
CONSTANTS
    Pullers = {p1, p2}
    MaxVersion = 2
    MaxSyncers = 2
    Setters = {s1, s2}
    Operators = {"ann", "bob"}
    Profiles = {"shipped"}
    DefaultProfile <- MCDefaultProfile
    Keepers = {k1, k2}
    Records = {1, 2}
    MaxRev = 2
    MaxFaults = 1
INVARIANTS
    NotModifiedIsTrue
    FileIsWhole
    SavedAtRest
    OperatorIsLastLogin
    RefHasClip
    OrphanOnlyByFault
PROPERTIES
    PullDelivers
    PurgedForGood
    PurgedInTheEnd
CHECK_DEADLOCK FALSE
