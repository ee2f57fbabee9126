SPECIFICATION DeploymentSpec
CONSTANTS
    old = old
    new = new
    Nobody = Nobody
    NoRow = NoRow
    NoSum = NoSum
    Pods = {old, new}
    Known <- MCKnown
    Checksums <- MCChecksums
    Dialects = {"postgres"}
    Deployed = {{}, {1, 2}}
    Irreversible = {1}
    Limits = {0, 2}
    MaxRuns = 2
    Seeders = {}
    Seeds = {}
    AlwaysRun = {}
    MaxSeedings = 0
INVARIANT LockHeldOnlyDuringRun
CHECK_DEADLOCK FALSE
