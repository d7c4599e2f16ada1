\* Two worker processes, as deployed, with every fault, and a third one whose
\* key cannot be decoded.
SPECIFICATION Spec
SYMMETRY Symmetry
CONSTANTS
    a1 = a1
    a2 = a2
    r1 = r1
    r2 = r2
    v1 = v1
    v2 = v2
    w1 = w1
    w2 = w2
    w3 = w3
    Workers <- WorkersThree
    BadKey <- WorkersBad
    Conns <- ConnsOne
    Vms <- VmsTwo
    Reqs <- ReqsTwo
    BatchSize = 1
    MaxClock = 2
    Faults <- AllFaults
INVARIANTS
    GuardIsExact
    ReaderSessionReleased
    NoOrphanVms
    SomeoneCanAdvance
\* Once MaxClock is reached and nobody clicks, the system rests.
CHECK_DEADLOCK FALSE
