CONSTANTS
    t1 = t1
    t2 = t2
    Threads = {t1, t2}
    MaxStatements = 2
    Workload <- Calls
SPECIFICATION Spec
INVARIANTS
    TypeOK
    FreedExactlyOnce
    FailedStatementsThrow
    ResponseIsComplete
    MessageIsOwn
    LeftoversKnown
