SPECIFICATION Spec
CONSTANTS
    MaxMessages = 3
    Malformed = {2}
    Requests = {3}
    Concurrency = 1
    MaxLosses = 2
    Prefetch = 2
    Streamed = {1, 2}
    Transports = {"kafka"}
INVARIANT AtLeastOnce
CHECK_DEADLOCK FALSE
