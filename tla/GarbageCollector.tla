-------------------------- MODULE GarbageCollector --------------------------
(***************************************************************************)
(* The garbage collector of internal/gc/gc.go.  A pass lists the stale     *)
(* clusters once, with their rows, and then deletes cluster by cluster in  *)
(* three separate statements; it decides on the rows it listed and never   *)
(* reads them again.                                                       *)
(***************************************************************************)
EXTENDS Store

CONSTANTS Clusters, None, MaxFaults

VARIABLES
    clusters, types, objects,   \* the tables
    now,          \* the wall clock
    faults,       \* failed requests so far
    gcNow,        \* collect: now
    gcList,       \* collect: listed, expired clusters not yet dealt with
    gcCluster,    \* collect: the cluster being deleted, or None
    gcStep        \* collect: the next statement for gcCluster

tables == <<clusters, types, objects>>

GCTypeOK ==
    /\ gcNow \in Nat
    /\ gcList \in SUBSET Clusters
    /\ gcCluster \in Clusters \cup {None}
    /\ gcStep \in {"objects", "types", "cluster"}
    /\ gcCluster # None => gcCluster \in gcList

GCInit ==
    /\ gcNow = 0
    /\ gcList = {}
    /\ gcCluster = None
    /\ gcStep = "objects"

\* A pass is under way.
Collecting == gcList # {}

\* The TTL test of collect on a listed row: now.Before(expiry) keeps it, so it
\* is collected at the end of its TTL already (design.md:375, :770 say "<").
Expired(row, t) == row.status = "stale" /\ row.lastSeen + TTL <= t

GCFault == faults < MaxFaults /\ faults' = faults + 1

----------------------------------------------------------------------------
\* Mutant: the TTL test of the listed rows is left out.
CollectWithoutTTL ==
    /\ ~Collecting
    /\ gcNow' = now
    /\ gcList' = ListStaleClusters(clusters, now)
    /\ UNCHANGED <<tables, now, gcCluster, gcStep, faults>>

\* The ticker fires and no pass is under way: read the clock, list, and keep
\* the clusters whose TTL has run out.  An error ends the pass.
Collect ==
    /\ ~Collecting
    /\ \/ /\ gcNow' = now
          /\ gcList' = {c \in ListStaleClusters(clusters, now) :
                           ~(now < clusters[c].lastSeen + TTL)}
          /\ UNCHANGED faults
       \/ GCFault /\ UNCHANGED <<gcNow, gcList>>
    /\ UNCHANGED <<tables, now, gcCluster, gcStep>>

\* An error in any of the three statements: log, continue with the next.
GiveUp(c) ==
    /\ GCFault
    /\ gcList' = gcList \ {c}
    /\ gcCluster' = None
    /\ gcStep' = "objects"
    /\ UNCHANGED <<tables, now, gcNow>>

CollectObjects(c) ==
    /\ gcCluster = None /\ c \in gcList
    /\ \/ /\ objects' = DeleteObjectsForCluster(objects, c)
          /\ gcCluster' = c
          /\ gcStep' = "types"
          /\ UNCHANGED <<clusters, types, now, faults, gcNow, gcList>>
       \/ GiveUp(c)

\* Mutant: an error is logged without the continue.
CollectTypesFallsThrough(c) ==
    /\ gcCluster = c /\ gcStep = "types"
    /\ gcStep' = "cluster"
    /\ \/ /\ types' = DeleteResourceTypesForCluster(types, c)
          /\ UNCHANGED faults
       \/ GCFault /\ UNCHANGED types
    /\ UNCHANGED <<clusters, objects, now, gcNow, gcList, gcCluster>>

CollectTypes(c) ==
    /\ gcCluster = c /\ gcStep = "types"
    /\ \/ /\ types' = DeleteResourceTypesForCluster(types, c)
          /\ gcStep' = "cluster"
          /\ UNCHANGED <<clusters, objects, now, faults, gcNow, gcList, gcCluster>>
       \/ GiveUp(c)

\* The last statement.
CollectCluster(c) ==
    /\ gcCluster = c /\ gcStep = "cluster"
    /\ \/ /\ clusters' = DeleteCluster(clusters, c)
          /\ gcList' = gcList \ {c}
          /\ gcCluster' = None
          /\ gcStep' = "objects"
          /\ UNCHANGED <<types, objects, now, faults, gcNow>>
       \/ GiveUp(c)

DeleteExpired == \E c \in Clusters : CollectObjects(c) \/ CollectTypes(c) \/ CollectCluster(c)

\* The pass dies with the process.
GCCrash ==
    /\ gcList' = {}
    /\ gcCluster' = None
    /\ gcStep' = "objects"
    /\ UNCHANGED gcNow
=============================================================================
