SPECIFICATION Spec
CONSTANTS
    a = a
    b = b
    c = c
    d = d
    e = e
    Objects = {a, b, c, d, e}
    Matches = {a, b}
    Hyphenated <- MCHyphenated
    Segments <- DottedSegments
    Rank <- MCRank
    Requests <- OneBlock
    BaseRelation <- MCBaseRelation
    Admits <- NoFilter
    RelLimit <- NoLimit
    Joinable <- OneLevel
    Limits = {0}
    Depths = {0}
    DefaultLimit = 3
    MaxLimit = 3
    DefaultMaxDepth = 2
    HardMaxDepth = 2
    MaxRelationBlocks = 3
    MaxTotalRows = 9
INVARIANT NothingReadIsLost
CHECK_DEADLOCK FALSE
