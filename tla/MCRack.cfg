SPECIFICATION FairSpec
CONSTANTS
    None = None
    r1 = r1
    r2 = r2
    r3 = r3
    Requests = {r1, r2, r3}
CHECK_DEADLOCK FALSE
INVARIANT NothingLeftBehind
PROPERTIES RequestAnswered RunEnds
