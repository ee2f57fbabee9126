\* Two Increments of the file provider on one counter.
SPECIFICATION Spec
CONSTANTS
    Callers = {c1, c2}
    Drivers = {"file"}
    None = None
    Corrupt = Corrupt
    MaxWindows = 1
INVARIANT IncrementsAreAtomic
CHECK_DEADLOCK FALSE
