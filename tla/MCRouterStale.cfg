SPECIFICATION RouterSpec
CONSTANTS
    Letters = {"a", "b", "c"}
    Order <- MCOrder
    Subjects <- MCSubjects
    ExactPatterns <- MCExact
    WildPatterns <- MCWild
    Match <- MCMatch
    Rank <- MCRank
    NoRoute = NoRoute
    NotCached = NotCached
    Resolvers = {p1, p2}
    MaxCache = 2
SYMMETRY Symmetry
INVARIANT ResolveReturnsBest
