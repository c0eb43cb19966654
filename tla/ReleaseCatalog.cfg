SPECIFICATION FairSpec
CONSTANTS
    c1 = c1
    c2 = c2
    l1 = l1
    l2 = l2
    l3 = l3
    Caller = {c1, c2}
    Load = {l1, l2, l3}
    NoLoad = NoLoad
    NoCatalog = NoCatalog
    MaxRevision = 2
    MaxInvalidations = 3
    MaxFaults = 2
CHECK_DEADLOCK FALSE
PROPERTIES
    ImplementsCatalogPromise
    EveryCallerServed
