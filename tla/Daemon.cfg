CONSTANTS
    Jobs = {j1}
    Definitions <- ReplaceOrAllow
    Triggers = {}
    Outcomes = {"succeeded", "failed", "timed_out", "cancelled"}
    Outputs = {"finalized"}
    GlobalLimits = {2}
    HardGuard = 2
    KeepsPipes = FALSE
    MaxRuns = 2
    MaxAttempts = 2
    MaxRevision = 1
SPECIFICATION DaemonSpec
INVARIANTS
    DaemonTypeOK
    TasksOwnTheirAttempts
    OrphansWereNeverSpawned
    LiveTreeIsNotReportedDone
    TreesOverlapOnlyIfAllowed
PROPERTIES
    TerminalIsFinal
