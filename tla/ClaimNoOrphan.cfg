CONSTANTS
    Jobs = {j1}
    Definitions <- OnlyReplace
    Triggers = {"scheduled"}
    Outcomes = {"succeeded", "failed", "timed_out", "cancelled"}
    Outputs = {"finalized"}
    GlobalLimits = {2}
    HardGuard = 2
    KeepsPipes = FALSE
    MaxRuns = 2
    MaxAttempts = 1
    MaxRevision = 1
SPECIFICATION DaemonSpec
INVARIANT NoOrphanedAttempt
