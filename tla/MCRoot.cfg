SPECIFICATION FairSpec
CONSTANTS
    u1 = u1
    u2 = u2
    n1 = n1
    v0 = v0
    v1 = v1
    Users = {u1, u2}
    Nodes = {n1}
    Values = {v0, v1}
    Null = v0
    MaxOpen = 2
INVARIANTS OneInitialization FreshSubscribers AuthorizedOnly WaitingIsPending
PROPERTIES KeepsPromise WaitingAnswered
