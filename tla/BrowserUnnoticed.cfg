SPECIFICATION Spec
CONSTANTS
    c1 = c1  c2 = c2
    Ids <- IdsTwo
    First <- FirstOne
    Vms <- VmsTwo
    HomeOf <- HomesTwo
    NameOf <- NamesTwo
    IdRank <- RanksTwo
    MaxEvents = 2
    Calls <- Two
    MaxPosts = 2
    Queries <- One
    PageSize = 1
    Undefined = Undefined
    Everything = Everything
PROPERTY
    EveryEndIsNoticed
