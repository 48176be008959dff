SPECIFICATION FairSpec
CONSTANTS
    MaxRequests = 3
    MaxWrites = 2
CHECK_DEADLOCK FALSE
INVARIANTS InOrder IdleEnds
PROPERTY BlockedServed
