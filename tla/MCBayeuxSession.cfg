SPECIFICATION Spec
CONSTANTS
    me = me
    None = None
    n1 = n1
    r1 = r1
    r2 = r2
    Nodes = {n1}
    Users = {me}
    Responses = {r1, r2}
    Forms = {r1}
    Large = {"update", "refused", "not_subscribed"}
    MaxMessages = 1
    Patient = FALSE
    MayShutDown = FALSE
    MaxOpen = 1
    MaxIds = 2
    MaxFields = 2
CHECK_DEADLOCK FALSE
INVARIANTS TypeOK NoWaitWithMessages NobodyForgotten AckCanCome AnsweredOnce
