SPECIFICATION RoutingSpec
CONSTANTS
    Letters <- MCLetters
    MaxPattern = 1
    MaxSubject = 1
    Order <- MCByteOrder
    PatternSet <- MCPatternSet
    SubjectSet <- MCSubjectSet
    PatternLists <- MCPatternLists
    Services <- MCServices
    Published <- MCPublished
    ReplyNamespace <- MCReply
    ClientId <- MCClientId
    m1 = m1
    m2 = m2
    m3 = m3
    None = None
    Fields <- MCFields
    Guarded = {"guarded"}
    Inbound = {m1}
    Addressed <- MCAddressed
    Buffers = {b1}
    Subjects <- MCSubjects
    ExactPatterns <- MCExact
    WildPatterns <- MCWild
    Match <- MCMatch
    Rank <- MCRank
    NoRoute = NoRoute
    NotCached = NotCached
    Resolvers = {p1, p2}
    MaxCache = 2
INVARIANT RepliesReachNoHandler
CHECK_DEADLOCK FALSE
