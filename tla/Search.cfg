CONSTANTS
    Node = {1, 4, 6}
    Me = 0
    Path <- MCPath
    OneHop = {1, 4}
    LoopPath <- MCLoopPath
    Target = {6}
    Distance <- XorDistance
    Lists <- MCLists
    K = 2
    MAX_SEARCHES = 2
    SEARCH_NODES = 2
    MAX_REQUESTS = 1
    MaxBegun = 2
    None = None
SPECIFICATION Spec
INVARIANTS TypeOK ReplyFindsNode
PROPERTY EverySearchEnds
