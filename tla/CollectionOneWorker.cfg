\* One worker process, exceptions anywhere, no crash: what the guard gives.
SPECIFICATION FairSpec
CONSTANTS
    a1 = a1
    a2 = a2
    r1 = r1
    r2 = r2
    v1 = v1
    v2 = v2
    w1 = w1
    w2 = w2
    w3 = w3
    Workers <- WorkersOne
    BadKey <- NoWorkers
    Conns <- ConnsOne
    Vms <- VmsTwo
    Reqs <- ReqsTwo
    BatchSize = 1
    MaxClock = 5
    Faults <- Exceptions
INVARIANTS
    OneCollectionPerConnection
    PendingHasTask
    ColumnsTellTheTruth
PROPERTIES
    AgeNeverGoesBack
    ImplementsPromise
    ImplementsReport
    AttemptIsAnswered
\* Once MaxClock is reached and nobody clicks, the system rests.
CHECK_DEADLOCK FALSE
