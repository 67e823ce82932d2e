SPECIFICATION FairSpec
CONSTANTS
    c1 = c1
    r1 = r1
    r2 = r2
    pods = pods
    podsV2 = podsV2
    k1 = k1
    None = None
    Clusters = {c1}
    Calls = {r1, r2}
    Types = {pods}
    Keys = {k1}
    ResourceOf <- MCResourceOf
    GroupResource <- MCGroupResource
    MaxVersion = 2
    MaxFaults = 0
    TTL = 1
PROPERTY DeletesPropagate
CHECK_DEADLOCK FALSE
