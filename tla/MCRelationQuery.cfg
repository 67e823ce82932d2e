SPECIFICATION Spec
CONSTANTS
    a = a
    b = b
    c = c
    d = d
    e = e
    Objects = {a, b, c, d, e}
    Matches = {a, b}
    Hyphenated <- MCHyphenated
    Segments <- MCSegments
    Rank <- MCRank
    Requests <- MCRequests
    BaseRelation <- MCBaseRelation
    Admits <- MCAdmits
    RelLimit <- RefLimit
    Joinable <- MCJoinable
    Limits = {0, 1, 2, 4}
    Depths = {0, 1, 3}
    DefaultLimit = 3
    MaxLimit = 3
    DefaultMaxDepth = 2
    HardMaxDepth = 2
    MaxRelationBlocks = 3
    MaxTotalRows = 5
INVARIANTS AttachedToParent OnlyWanted NothingReadIsLost CompleteUnlessFlagged
CHECK_DEADLOCK FALSE
