SPECIFICATION FairSpec
CONSTANTS
    None = None
    s1 = s1
    s2 = s2
    r1 = r1
    r2 = r2
    Sessions = {s1, s2}
    Responses = {r1, r2}
    Forms = {r1}
    OneHandshake = TRUE
    MaxFields = 2
    MaxQueued = 2
    MaxUses = 3
    MayShutDown = TRUE
CHECK_DEADLOCK FALSE
INVARIANTS PointersValid WaitersHold ReturnedWhenUnused
PROPERTY UnusedExpires
