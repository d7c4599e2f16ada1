\* Wrong passwords, one request at a time.
SPECIFICATION Spec
CONSTANTS
    root = root
    u1 = u1
    p1 = p1
    p2 = p2
    t1 = t1
    r1 = r1
    r2 = r2
    Root = root
    NoPassword = NoPassword
    Users <- UsersTwo
    Admins <- AdminsOne
    Own <- OwnTwo
    Temporary <- TemporaryOne
    Reqs <- ReqsOne
    MaxAttempts = 2
INVARIANTS
    FailuresLock
\* Once nobody asks for anything the system may rest.
CHECK_DEADLOCK FALSE
