SPECIFICATION FairSpec
CONSTANTS
    me = me
    None = None
    n1 = n1
    r1 = r1
    r2 = r2
    Nodes = {n1}
    Users = {me}
    Responses = {r1, r2}
    Forms = {}
    Large = {}
    MaxMessages = 2
    Patient = TRUE
    MayShutDown = TRUE
    MaxOpen = 1
    MaxIds = 1
    MaxFields = 1
CHECK_DEADLOCK FALSE
INVARIANTS AckedBeforeUpdate ClientAgrees
PROPERTY WaiterAnswered
