SPECIFICATION FairSpec
CONSTANTS
    c1 = c1
    r1 = r1
    r2 = r2
    pods = pods
    podsV2 = podsV2
    k1 = k1
    None = None
    Clusters = {c1}
    Calls = {r1, r2}
    Types = {pods, podsV2}
    Keys = {k1}
    ResourceOf <- MCResourceOf
    GroupResource <- MCGroupResource
    MaxVersion = 3
    MaxFaults = 1
    TTL = 1
INVARIANT TypeOK
PROPERTIES OnlyOthersRegress RowsConverge OneRunDeletes
CHECK_DEADLOCK FALSE
