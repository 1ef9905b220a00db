CONSTANTS
    Jobs = {j1}
    Definitions <- ReplaceOrAllow
    Triggers = {"catch_up"}
    Outcomes = {"succeeded"}
    Outputs = {}
    GlobalLimits = {2}
    MaxRuns = 3
    MaxAttempts = 1
    MaxRevision = 2
SPECIFICATION Spec
INVARIANTS
    QueuedOverlapOnlyIfAllowed
    PerJobConcurrency
PROPERTIES
    SnapshotIsCurrent
