SPECIFICATION Spec
CONSTANTS
    s1 = s1
    s2 = s2
    m1 = m1
    m2 = m2
    q1 = q1
    q2 = q2
    Socket = {s1, s2}
    Message = {m1, m2}
    Request = {q1, q2}
    NoMessage = NoMessage
    MaxFaults = 2
SYMMETRY Symmetry
CHECK_DEADLOCK FALSE
INVARIANTS
    PendingReachesSubscribers
PROPERTIES
    OnlyConsumedIsDeleted
