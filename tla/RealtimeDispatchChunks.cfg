SPECIFICATION DispatchSpec
CONSTANTS
    s1 = s1
    s2 = s2
    t1 = t1
    t2 = t2
    Socket = {s1, s2}
    Task = {t1, t2}
    Profile = {"old"}
    Offer <- Replacement
    NoOffer = NoOffer
    MaxRevision = 2
    MaxAttempts = 2
    ChunkSize = 1
    MaxSubscriptions = 2
    MaxQueries = 0
    MaxFaults = 1
SYMMETRY Symmetry
CHECK_DEADLOCK FALSE
INVARIANTS
    Converged
PROPERTIES
    SuccessReachesEveryone
