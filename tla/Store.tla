------------------------------- MODULE Store -------------------------------
(***************************************************************************)
(* The SQL store of internal/store/store.go: the three tables the sync     *)
(* controller, the event handlers and the garbage collector share.  Each   *)
(* method of the store is one SQL statement, so each operator below maps a *)
(* table to the table after one atomic statement.  There is no transaction *)
(* around two statements anywhere in the program.                          *)
(*                                                                         *)
(* A table is a total function on its key; a missing row has a value of    *)
(* its own (NoRow, Absent).  Columns no property tells apart are left out. *)
(***************************************************************************)
EXTENDS Naturals

CONSTANTS
    TTL,            \* clusters.ttl: every UpsertCluster writes the same 3600 s
    GroupResource   \* the group-resource of each type (group-version-resource)

ASSUME TTLAssumption == TTL \in Nat \ {0}

----------------------------------------------------------------------------
\* clusters: a row is the cluster's status and last_seen.
ClusterRow == [status : {"none", "active", "stale"}, lastSeen : Nat]
NoRow      == [status |-> "none", lastSeen |-> 0]

\* INSERT ... ON CONFLICT (name) DO UPDATE: the row is overwritten whole.
UpsertCluster(table, c, status, now) ==
    [table EXCEPT ![c] = [status |-> status, lastSeen |-> now]]

DeleteCluster(table, c) == [table EXCEPT ![c] = NoRow]

\* Mutant: the WHERE clause asks for the wrong status.
ListActiveClusters(table, now) ==
    {c \in DOMAIN table : table[c].status = "active" /\ table[c].lastSeen < now}

\* WHERE status = 'stale' AND last_seen < now
ListStaleClusters(table, now) ==
    {c \in DOMAIN table : table[c].status = "stale" /\ table[c].lastSeen < now}

----------------------------------------------------------------------------
\* resource_types: per cluster, the types that have a row.  The key has no
\* version: a type replaces the row of another version of its resource.
UpsertResourceType(table, c, t) ==
    [table EXCEPT ![c] = {u \in @ : GroupResource[u] # GroupResource[t]} \cup {t}]

\* The group-resources of a set of types.
Resources(S) == {GroupResource[t] : t \in S}

DeleteResourceTypesForCluster(table, c) == [table EXCEPT ![c] = {}]

----------------------------------------------------------------------------
\* objects: per cluster and object key, the resourceVersion stored (> 0).
Absent == 0

\* ON CONFLICT DO UPDATE without comparing resource versions: last write wins.
UpsertObject(table, c, k, rv) == [table EXCEPT ![c][k] = rv]

DeleteObject(table, c, k) == [table EXCEPT ![c][k] = Absent]

DeleteObjectsForCluster(table, c) ==
    [table EXCEPT ![c] = [k \in DOMAIN @ |-> Absent]]
=============================================================================
