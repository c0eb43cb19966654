SPECIFICATION Spec
CONSTANTS
    w1 = w1
    Operation = {w1}
    Preparation = Preparation
    Nobody = Nobody
    MaxPreparations = 2
    MaxFaults = 1
CHECK_DEADLOCK FALSE
PROPERTIES
    ReadyStaysReady
