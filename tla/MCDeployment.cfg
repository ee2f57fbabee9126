SPECIFICATION DeploymentSpec
CONSTANTS
    old = old
    new = new
    Nobody = Nobody
    NoRow = NoRow
    NoSum = NoSum
    Pods = {old, new}
    Known <- MCKnown
    Checksums <- MCChecksums
    Dialects = {"postgres", "mysql", "sqlite", "mongo"}
    Deployed = {{}, {1, 2}}
    Irreversible = {1}
    Limits = {0, 2}
    MaxRuns = 2
    Seeders = {old, new}
    Seeds = {1, 2}
    AlwaysRun = {2}
    MaxSeedings = 3
INVARIANTS RecordedIsPrefix TableMatchesSchema OneRunnerPerVersion SeededOnce
PROPERTIES NeverBuildsOnChangedHistory RunsEnd
CHECK_DEADLOCK FALSE
