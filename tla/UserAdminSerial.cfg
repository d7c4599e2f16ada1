\* One request at a time: administration keeps its promises.
SPECIFICATION FairSpec
CONSTANTS
    root = root
    u1 = u1
    u2 = u2
    a1 = a1
    a2 = a2
    r1 = r1
    r2 = r2
    Root = root
    Users <- UsersThree
    Conns <- ConnsOne
    Reqs <- ReqsOne
    RolesAsked <- Roles
INVARIANTS
    TypeOK
    SomeAdmin
    AdminsUnscoped
PROPERTIES
    ImplementsAccounts
    RejectedIsFinal
    ScopesAreReplaced
\* Once nobody asks for anything the system may rest.
CHECK_DEADLOCK FALSE
