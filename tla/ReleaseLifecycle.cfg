SPECIFICATION Spec
CONSTANTS
    r1 = r1
    r2 = r2
    u1 = u1
    u2 = u2
    a1 = a1
    m1 = m1
    Release = {r1, r2}
    NoId = NoId
    User = {u1, u2}
    Artifact = {a1}
    NoArtifact = NoArtifact
    Manager = {m1}
    Body <- Bodies
    Patch <- Patches
    PartSize = 1
    MaxRevision = 3
    MaxSequence = 2
SYMMETRY Symmetry
CHECK_DEADLOCK FALSE
INVARIANTS
    PublishedOnce
    AuditTrailComplete
    AuditPartsComplete
    AudienceIsAudited
    PublishedArtifactsAreUsed
PROPERTIES
    AuditsConnect
    NoBlindOverwrite
    ImplementsReleaseLog
