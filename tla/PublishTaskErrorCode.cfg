SPECIFICATION Spec
CONSTANTS
    t1 = t1
    i1 = i1
    Task = {t1}
    Inline = {i1}
    Recovery = Recovery
    None = None
    MaxAttempts = 2
    BatchSize = 1
    MaxChunks = 1
    MaxFaults = 1
CHECK_DEADLOCK FALSE
PROPERTIES
    LeaseLostMeansLost
