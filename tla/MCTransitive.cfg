SPECIFICATION Spec
CONSTANTS
    o1 = o1
    o2 = o2
    o3 = o3
    ca = ca
    cb = cb
    Objects = {o1, o2, o3}
    Clusters = {ca, cb}
    Roots = {o1}
    MaxDepth = 2
    Limit = 3
    Filtered = FALSE
SYMMETRY Symmetry
INVARIANTS SimplePaths FindsAllReachable LimitKeepsParents
CHECK_DEADLOCK FALSE
