SPECIFICATION Spec
CONSTANTS
    BufferSize = 24
    MaxSize = 1000
    BodyBufferSize = 8
    Handlers = {"bayeux", "json"}
    Streams <- MCStreams
INVARIANTS RequestsAsSent NothingHeldBack StackShape Reparses
CHECK_DEADLOCK FALSE
