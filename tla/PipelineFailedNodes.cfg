SPECIFICATION Spec
CONSTANTS
    v1 = v1  v2 = v2  n1 = n1  n2 = n2  i1 = i1  i2 = i2  i3 = i3
    Vms <- VmsTwo
    Nodes <- NodesTwo
    Gone = Gone
    NoRow = NoRow
    Ids <- IdsThree
    Natives <- NativesOfTwo
    NoUuid <- MayMissUuid
    Reports <- ReportsFew
    Kinds <- OnlyCluster
    PageSize = 1
    BatchSize = 2
    MaxMoves = 1
    MaxJobs = 1
PROPERTIES
    FailedNodesAreTold
CHECK_DEADLOCK FALSE
