SPECIFICATION MCSpec
CONSTANTS
    Parts = {"output", "logins"}
    Streams = {"stdout", "stderr"}
    Readers = {"c1"}
    MaxLines = 3
    PipeSize = 1
    RingSize = 2
    BufferSize = 1
    Clients = {"b1", "b2"}
    MaxTokens = 3
    MaxSaves = 1
INVARIANTS
    StreamIsComplete
    StateUsedOnce
    EndedIsRefused
PROPERTIES
    RunReturns
CHECK_DEADLOCK FALSE
