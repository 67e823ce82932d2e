SPECIFICATION FairSpec
CONSTANTS
    c1 = c1
    e1 = e1
    e2 = e2
    widgets = widgets
    widgetsV2 = widgetsV2
    secrets = secrets
    None = None
    Clusters = {c1}
    Calls = {e1, e2}
    Types = {widgets, widgetsV2, secrets}
    CRDTypes = {widgets, widgetsV2}
    Watchable = {}
    Blacklisted = {secrets}
    Serialized = TRUE
    MaxFaults = 1
    MaxChanges = 1
    MaxTime = 1
    GroupResource <- MCGroupResource
    TTL = 1
INVARIANTS TypeOK OneLiveRun LiveRunIsActive DiscoveryIntact
PROPERTIES TypesConverge ImplementsLifecycle
CHECK_DEADLOCK FALSE
