SPECIFICATION FairDispatch
CONSTANTS
    s1 = s1
    t1 = t1
    t2 = t2
    Socket = {s1}
    Task = {t1, t2}
    Profile = {"old"}
    Offer <- Rollout
    NoOffer = NoOffer
    MaxRevision = 2
    MaxAttempts = 2
    ChunkSize = 1
    MaxSubscriptions = 2
    MaxQueries = 1
    MaxFaults = 0
CHECK_DEADLOCK FALSE
INVARIANTS
    TypeOK
    NoDeadDeliveries
PROPERTIES
    PushesMatchSubscription
    StaleSocketCatchesUp
