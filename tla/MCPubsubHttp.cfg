SPECIFICATION FairSpec
CONSTANTS
    me = me
    None = None
    n1 = n1
    r1 = r1
    r2 = r2
    Nodes = {n1}
    Users = {me}
    Responses = {r1, r2}
    MaxVersion = 3
    MaxPending = 2
    MaxReturns <- MCMaxReturns
    MaxOpen = 1
CHECK_DEADLOCK FALSE
INVARIANTS NoWaitWithEvents SessionListed InStep
PROPERTIES AnsweredOnce CatchesUp
