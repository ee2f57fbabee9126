SPECIFICATION ListeningSpec
CONSTANTS
    MaxMessages = 3
    Malformed = {2}
    Requests = {3}
    Concurrency = 1
    MaxLosses = 2
    Prefetch = 2
    Streamed = {1, 2}
    Transports = {"kafka", "rabbit", "nats", "redis", "tcp", "grpc"}
    l1 = l1
    l2 = l2
    m1 = m1
    m2 = m2
    Listeners = {l1, l2}
    Subscribed = {l1}
    Starters = {s1, s2}
    Stoppers = {t1, t2}
    Inbound = {m1, m2}
    Via <- MCVia
    Slots = 1
    MaxFailures = 1
INVARIANTS GoneIsAccountedFor AnsweredBeforeSettled RerunsOnlyAfterLoss NoHandlerOutlivesListen StopDrains
PROPERTIES EveryMessageIsTaken CancelEndsListen ListensUntilStopped WaitingMessageIsDecided
CHECK_DEADLOCK FALSE
