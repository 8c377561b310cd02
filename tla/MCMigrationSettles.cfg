SPECIFICATION Spec
CONSTANTS
    t = t
    u = u
    f = f
    g = g
    Tables = {t, u}
    Fields = {f, g}
    Absent = Absent
    Structures <- Awkward
    RecentLimit = 10
    MaxRecords = 1
INVARIANT NextRunIsNoop
