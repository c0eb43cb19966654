SPECIFICATION FairSpec
CONSTANTS
    t1 = t1
    i1 = i1
    Task = {t1}
    Inline = {i1}
    Recovery = Recovery
    None = None
    MaxAttempts = 2
    BatchSize = 1
    MaxChunks = 2
    MaxFaults = 2
CHECK_DEADLOCK FALSE
INVARIANTS
    LateSendsBounded
    CheckpointWithinChunk
PROPERTIES
    SupersededWritesNothing
    ImplementsTaskOutcome
    EventuallyFinished
    RecoveryPassEnds
