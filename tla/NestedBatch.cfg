SPECIFICATION Spec
CONSTANTS
    Engines = {"sqlite"}
    Faults <- NoFaults
    PlainCalls <- NoCalls
    BodyCalls <- Batches
    MaxOps = 3
PROPERTY OnlyCommitCommits
CHECK_DEADLOCK FALSE
