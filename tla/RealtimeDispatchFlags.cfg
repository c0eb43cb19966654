SPECIFICATION DispatchSpec
CONSTANTS
    s1 = s1
    t1 = t1
    Socket = {s1}
    Task = {t1}
    Profile = {"old"}
    Offer <- MandatoryForUsers
    NoOffer = NoOffer
    MaxRevision = 1
    MaxAttempts = 1
    ChunkSize = 1
    MaxSubscriptions = 2
    MaxQueries = 1
    MaxFaults = 0
CHECK_DEADLOCK FALSE
INVARIANTS
    OrderMakesNoDifference
