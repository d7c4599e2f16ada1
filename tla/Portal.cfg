SPECIFICATION Spec
CONSTANTS
    w1 = w1  w2 = w2  r1 = r1  r2 = r2
    c1 = c1  c2 = c2  c3 = c3  t1 = t1  t2 = t2
    Workers <- WorkersTwo
    Homes <- WorkersTwo
    AdminNamed = TRUE
    Reqs <- ReqsTwo
    Ids <- IdsThree
    Targets <- TargetsTwo
    NoRow = NoRow
SYMMETRY Symmetry
INVARIANTS
    ServedWithAdmin
    AuditTellsTheTable
PROPERTIES
    AnswersAreTrue
    ImplementsRegistry
