CONSTANTS
    i1 = i1
    i2 = i2
    d1 = d1
    d2 = d2
    Isolates = {i1, i2}
    Databases = {d1, d2}
    Paths = {p1}
    Mem = Mem
    Handles = {h1}
    Null = Null
    Home <- SplitHome
    MaxQueue <- QueueBounds
SPECIFICATION FairSpec
INVARIANTS
    TypeOK
PROPERTIES
    KeepsContract
    NothingRunsAfterClose
    CloseGivesBack
