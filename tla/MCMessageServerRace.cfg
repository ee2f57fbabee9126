SPECIFICATION ServerSpec
CONSTANTS
    l1 = l1
    l2 = l2
    m1 = m1
    m2 = m2
    Listeners = {l1, l2}
    Subscribed = {l1}
    Starters = {s1}
    Stoppers = {t1}
    Inbound = {m1, m2}
    Via <- MCVia
    Slots = 1
    MaxFailures = 1
INVARIANT StopAlwaysDrains
CHECK_DEADLOCK FALSE
