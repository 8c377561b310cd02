SPECIFICATION Spec
CONSTANTS
    t = t
    u = u
    f = f
    g = g
    Tables = {t, u}
    Fields = {f, g}
    Absent = Absent
    Structures <- Settled
    RecentLimit = 10
    MaxRecords = 4
INVARIANTS
    TypeOK
    RecordedAsCurrent
    RollbackRestoresFields
    SuccessIsWhole
    RetryNeedsNoConsent
PROPERTY NothingLostWithoutConsent
