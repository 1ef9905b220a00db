CONSTANTS
    Privileged = {}
    Escaping = {}
SPECIFICATION FairRunnerSpec
PROPERTIES
    CancellationEndsAttempt
CHECK_DEADLOCK FALSE
