SPECIFICATION Spec
CONSTANTS
    None = None
    Conns = {c1, c2}
    Responses = {r1, r2}
    Large = r1
    Limits = {1, 2}
    MaxRestarts = 1
    BufferSize = 16
    Size = 3
    MaxSize = 255
    Answers <- MCAnswers
INVARIANTS SocketsHeld IdleAtBoundary WholeOrClosed
PROPERTY ResponseEnds
CHECK_DEADLOCK FALSE
