SPECIFICATION Spec
CONSTANTS
    Engines <- Both
    Faults <- UsualFaults
    PlainCalls <- SoundPlainCalls
    BodyCalls <- SoundBodyCalls
    MaxOps = 4
INVARIANTS TypeOK CleanHandover Durable NoResidue BodyInTransaction NeverLost
PROPERTY OnlyCommitCommits
CHECK_DEADLOCK FALSE
