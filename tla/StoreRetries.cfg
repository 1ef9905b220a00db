CONSTANTS
    Jobs = {j1}
    Definitions <- AllPolicies
    Triggers = {"scheduled", "catch_up"}
    Outcomes = {"failed", "succeeded"}
    Outputs = {"finalized"}
    GlobalLimits = {1, 2}
    MaxRuns = 2
    MaxAttempts = 2
    MaxRevision = 1
SPECIFICATION Spec
INVARIANTS
    TypeOK
    AttemptsAgreeWithRuns
    RetryIntentsNameKnownFailure
    CatchUpInOrder
PROPERTIES
    GlobalConcurrencyHeld
    TerminalIsFinal
    QuarantineHeld
    RemovedWithLastAttempt
