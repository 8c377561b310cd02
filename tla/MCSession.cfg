CONSTANTS
    i1 = i1
    i2 = i2
    d1 = d1
    d2 = d2
    d3 = d3
    c1 = c1
    c2 = c2
    c3 = c3
    Isolates = {i1, i2}
    Databases = {d1, d2, d3}
    Calls = {c1, c2, c3}
    Home <- Objects
    Owner <- Callers
    Opener = i1
    MaxWrites <- WriteBounds
    None = None
SPECIFICATION FairSpec
INVARIANTS
    TypeOK
    OwnVector
    ParametersRemoved
    ParameterIsBound
    AllOrNothing
    NothingLeftOpen
PROPERTIES
    CallsEnd
\* The application may make no further call.
CHECK_DEADLOCK FALSE
