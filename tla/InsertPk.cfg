SPECIFICATION Spec
CONSTANTS
    Engines = {"sqlite"}
    Faults <- StatementFails
    PlainCalls <- InsertPk
    BodyCalls <- NoCalls
    MaxOps = 2
INVARIANT CleanHandover
CHECK_DEADLOCK FALSE
