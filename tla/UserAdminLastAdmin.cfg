\* Two administrators at once.
SPECIFICATION Spec
CONSTANTS
    root = root
    u1 = u1
    u2 = u2
    a1 = a1
    a2 = a2
    r1 = r1
    r2 = r2
    Root = root
    Users <- UsersTwo
    Conns <- ConnsOne
    Reqs <- ReqsTwo
    RolesAsked <- RolesTwo
INVARIANTS
    SomeAdmin
\* Once nobody asks for anything the system may rest.
CHECK_DEADLOCK FALSE
