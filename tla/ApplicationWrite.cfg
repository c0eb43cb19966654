SPECIFICATION FairSpec
CONSTANTS
    w1 = w1
    w2 = w2
    Operation = {w1, w2}
    Preparation = Preparation
    Nobody = Nobody
    MaxPreparations = 2
    MaxFaults = 2
CHECK_DEADLOCK FALSE
INVARIANTS
    OutcomeNeverLies
    WritesAreSerial
PROPERTIES
    ImplementsAuditedWrites
    NobodyIsStuck
