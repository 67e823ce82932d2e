SPECIFICATION FairSpec
CONSTANTS
    c1 = c1
    e1 = e1
    e2 = e2
    e3 = e3
    pods = pods
    k1 = k1
    None = None
    Clusters = {c1}
    Calls = {e1, e2, e3}
    Types = {pods}
    CRDTypes = {}
    Watchable = {pods}
    Blacklisted = {}
    Keys = {k1}
    ResourceOf <- MCResourceOf
    GroupResource <- MCGroupResource
    Serialized = TRUE
    MaxFaults = 1
    MaxChanges = 0
    MaxTime = 2
    MaxVersion = 1
    TTL = 2
CONSTRAINT CallsInOrder
PROPERTY DeletesOnlyExpired
CHECK_DEADLOCK FALSE
