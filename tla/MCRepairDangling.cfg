CONSTANTS
    i1 = i1
    i2 = i2
    d1 = d1
    d2 = d2
    d3 = d3
    Isolates = {i1}
    Databases = {d1, d2}
    Paths = {p1}
    Mem = Mem
    Handles = {h1, h2}
    Null = Null
    Home <- OneHome
SPECIFICATION RepairSpec
INVARIANTS
    DereferencesOnlyLive
\* Every object may have been lost to a restart: nothing is left to be done.
CHECK_DEADLOCK FALSE
