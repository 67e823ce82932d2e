SPECIFICATION FairSpec
CONSTANTS
    c1 = c1
    p1 = p1
    p2 = p2
    pods = pods
    None = None
    Blank = Blank
    Malformed = Malformed
    Clusters = {c1}
    Paths = {p1, p2}
    Flags <- MCFlags
    Types = {pods}
    CRDTypes = {pods}
    Watchable = {pods}
    Blacklisted = {}
    GroupResource <- MCGroupResource
    MaxStarts = 2
    MaxFaults = 1
    MaxChanges = 1
    MaxTime = 0
    TTL = 1
INVARIANT EngagedIsSynced
PROPERTIES CallsSerialized EveryClusterReported
CHECK_DEADLOCK FALSE
