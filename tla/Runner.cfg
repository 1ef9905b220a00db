CONSTANTS
    Privileged = {"leader", "child"}
    Escaping = {"leader", "child"}
SPECIFICATION FairRunnerSpec
INVARIANTS
    RunnerTypeOK
    ReportedTreeIsDead
    OutputIsComplete
PROPERTIES
    DeadTreeIsNotQuarantined
    TerminationEnds
CHECK_DEADLOCK FALSE
