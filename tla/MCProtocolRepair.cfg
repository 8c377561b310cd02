CONSTANTS
    i1 = i1
    i2 = i2
    d1 = d1
    d2 = d2
    d3 = d3
    Isolates = {i1}
    Databases = {d1, d2}
    Paths = {p1, p2}
    Mem = Mem
    Handles = {h1, h2, h3}
    Null = Null
    Home <- OneHome
SPECIFICATION RepairSpec
INVARIANTS
    RegisteredIsLive
PROPERTIES
    AcceptedOpsUseLiveHandle
\* The process may have crashed, or every object may be lost.
CHECK_DEADLOCK FALSE
