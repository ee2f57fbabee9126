SPECIFICATION FairSpec
CONSTANTS
    c1 = c1
    c2 = c2
    Callers = {c1, c2}
    Kinds <- MCKinds
    MaxLinks = 2
    Buffer = 1
    Nobody = Nobody
    Transports = {"memory", "rabbit", "kafka", "redis", "nats", "tcp", "grpc"}
INVARIANTS NoStrayConnection NoEntryOutlivesItsCall LiveRequestIsRegistered FailedPublishLeavesNothing
CHECK_DEADLOCK FALSE
PROPERTIES ImplementsRequestReply CallsReturn
