CONSTANTS
    c1 = c1
    c2 = c2
    Clients <- Sessions
    NameOrder <- Names
    Scenarios <- Work
    MaxDepth = 5
    MaxLimit = 2
    AdminToken = 100
    MaxRequests = 3
    MaxFaults = 1
    MaxTokens = 2
SPECIFICATION Spec
SYMMETRY Sessions_symmetry
CHECK_DEADLOCK FALSE
INVARIANTS
    HierarchyEnds
    UniqueRows
    NearestWins
    PrivateHidden
    PagesCoverList
    HooksMatch
PROPERTY
    OwnedByCaller
