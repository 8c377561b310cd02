SPECIFICATION Spec
CONSTANTS
    t = t
    u = u
    f = f
    g = g
    Tables = {t, u}
    Fields = {f, g}
    Absent = Absent
    Structures <- Pair
    RecentLimit = 10
    MaxRecords = 1
INVARIANT FailedLeavesSchema
