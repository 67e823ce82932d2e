SPECIFICATION Spec
CONSTANTS
    NULL = NULL
    Malformed = Malformed
    Lower <- MCLower
    Dotted = {"k8s.io/name", "kuery.io/group"}
    ClusterLabels <- MCClusterLabels
    Rows <- MCRows
    TypeRows <- MCTypeRows
    Requests <- MCRequests
INVARIANTS OnlyMeant AllMeant DialectsAgree Opposites ReferencesTyped
CHECK_DEADLOCK FALSE
