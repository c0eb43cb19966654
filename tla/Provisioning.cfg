SPECIFICATION FairSpec
CONSTANTS
    c1 = c1
    c2 = c2
    k1 = k1
    r1 = r1
    Cli = {c1, c2}
    Nobody = Nobody
    App = {"a", "b", "c"}
    Asked <- Commands
    Prefix <- Prefixes
    NoPrefix = NoPrefix
    Initial <- CollidingInitial
    Hashed <- HashedNames
    Key = {k1}
    NoKey = NoKey
    MaxApplications = 2
    Request = {r1}
    MaxCommands = 3
    MaxFaults = 1
CHECK_DEADLOCK FALSE
INVARIANTS
    AuditsFollowGrants
    GrantsBounded
    TablesAreOwn
    AdmittedWasGranted
PROPERTIES
    RevokedIsFinal
    ImplementsKeyLedger
    EveryCommandEnds
