SPECIFICATION RoutingSpec
CONSTANTS
    Letters <- MCLetters
    MaxPattern = 4
    MaxSubject = 5
    Order <- MCByteOrder
    PatternSet <- MCPatternSet
    SubjectSet <- MCSubjectSet
    PatternLists <- MCPatternLists
    Services <- MCServices
    Published <- MCPublished
    ReplyNamespace <- MCReply
    ClientId <- MCClientId
    m1 = m1
    m2 = m2
    m3 = m3
    None = None
    Fields <- MCFields
    Guarded = {"guarded"}
    Inbound = {m1, m2, m3}
    Addressed <- MCAddressed
    Buffers = {b1, b2, b3}
    Subjects <- MCSubjects
    ExactPatterns <- MCExact
    WildPatterns <- MCWild
    Match <- MCMatch
    Rank <- MCRank
    NoRoute = NoRoute
    NotCached = NotCached
    Resolvers = {p1, p2}
    MaxCache = 2
SYMMETRY Symmetry
INVARIANTS AnswerIsMeaning HandledOnce RepliesEchoOnceWhereStraddled AnswerIsOwn RegisteredIsReached
INVARIANTS CacheBounded ResolvedRouteCoversSubject ExactWins BestUnlessOverlapped
CHECK_DEADLOCK FALSE
