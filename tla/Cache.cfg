\* Three calls of any kind on one key and two deadlines: a lock that expires,
\* its reclaim, and a late eviction between two more claims.
SPECIFICATION FairSpec
CONSTANTS
    Callers = {c1, c2, c3}
    Drivers = {"memory", "redis", "file", "nolinks"}
    None = None
    Corrupt = Corrupt
    MaxWindows = 2
INVARIANT OneHolder
PROPERTIES LiveEntriesKeepTheirTime ExpiredIsReclaimed
CHECK_DEADLOCK FALSE
