---------------------------- MODULE KueryProofs ----------------------------
(***************************************************************************)
(* Proofs about Kuery, for every set of clusters, calls, types and keys    *)
(* and every bound: what a pass of the garbage collector is about to       *)
(* delete is expired, and, when calls for a cluster do not overlap each    *)
(* other, no row outlives its cluster; a cluster for which a call was      *)
(* under way while a pass had it on its list is excepted from both.        *)
(***************************************************************************)
EXTENDS Kuery, FiniteSetTheorems, TLAPS

\* The locations a call can be at before and after its context exists.
CtxShape ==
    \A i \in Calls :
        /\ pc[i] \in {"idle", "markActive", "markStale", "register"} => ctx[i] = "none"
        /\ pc[i] = "watching" => ctx[i] # "none"
        /\ Ctl!Live(i) => pc[i] \in {"watching", "fetch", "clear", "populate"}

\* Whatever the map holds for a cluster is a live run of that cluster.
MapHoldsLive ==
    \A c \in Clusters :
        registered[c] # None => Ctl!Live(registered[c]) /\ target[registered[c]] = c

\* Only a run that was started has events for its handlers.
QueueShape ==
    \A i \in Calls : ctx[i] = "none" => \A t \in Types : queue[i][t] = <<>>

Shape == TypeOK /\ CtxShape /\ MapHoldsLive /\ QueueShape

\* A call owns its cluster until it returns, or, if it engaged, is cancelled.
Owner(i) == Ctl!InProgress(i) \/ Ctl!Live(i)

\* Every live run is in the map, so the next call can cancel it.
LiveIsRegistered ==
    \A i \in Calls : Ctl!Live(i) => registered[target[i]] = i

UniqueOwner ==
    \A i, j \in Calls : Owner(i) /\ Owner(j) /\ target[i] = target[j] => i = j

\* A call that has marked its cluster active and may write its rows.
Writer(i) ==
    Ctl!Live(i) \/ (Ctl!InProgress(i) /\ pc[i] \notin {"markActive", "markStale"})

OwnerActive ==
    \A i \in Calls :
        Writer(i) /\ target[i] \notin raced => clusters[target[i]].status = "active"

\* What a pass has yet to delete is expired, and no call touches it.
PassAlone == \A c \in gcList \ raced : Ctl!Quiet(c) /\ GC!Expired(clusters[c], now)

\* A run that was cancelled with events still on their way to its handlers.
Late(i) == ctx[i] = "cancelled" /\ \E t \in Types : queue[i][t] # <<>>

\* The cluster of such a run is not expired: whatever has marked it stale has
\* done so since the last tick.
LateIsFresh ==
    \A i \in Calls :
        Late(i) /\ target[i] \notin raced =>
            \/ clusters[target[i]].status = "active"
            \/ /\ clusters[target[i]].status = "stale"
               /\ clusters[target[i]].lastSeen = now

\* What the first two statements of a pass deleted stays deleted.
Emptied ==
    /\ gcCluster = None <=> gcStep = "objects"
    /\ gcCluster # None /\ gcCluster \notin raced =>
          /\ \A k \in Keys : objects[gcCluster][k] = Absent
          /\ gcStep = "cluster" => types[gcCluster] = {}

Apart == LiveIsRegistered /\ UniqueOwner /\ OwnerActive /\ LateIsFresh /\ Emptied
         /\ NoOrphanRows

IInv == Shape /\ PassAlone /\ (Serialized => Apart)
----------------------------------------------------------------------------
\* The assumptions on the constants that the proofs use.
LEMMA Constants ==
    /\ None \notin Clusters /\ None \notin Calls
    /\ CRDTypes \subseteq Types
    /\ IsFiniteSet(Types)
    /\ MaxFaults \in Nat /\ MaxChanges \in Nat /\ MaxTime \in Nat /\ MaxVersion \in Nat
BY KueryAssumption

\* The first list of a CRD informer yields a natural number of notifications.
LEMMA CRDsCounted ==
    ASSUME Ctl!TypeOK, NEW c \in Clusters
    PROVE  Ctl!Cardinality(Ctl!CRDs(c)) \in Nat
<1>. DEFINE S == served[c] \cap CRDTypes
            f == [t \in S |-> GroupResource[t]]
<1>1. IsFiniteSet(S)
    BY FS_Subset, Constants DEF Ctl!TypeOK
<1>2. f \in Surjection(S, Ctl!CRDs(c))
    BY DEF Surjection, Ctl!CRDs, Resources, Ctl!Resources
<1>3. IsFiniteSet(Ctl!CRDs(c))
    BY <1>1, <1>2, FS_Surjection
<1>4. Ctl!Cardinality(Ctl!CRDs(c)) = Cardinality(Ctl!CRDs(c))
    BY DEF Ctl!Cardinality, Cardinality
<1>. QED
    BY <1>3, <1>4, FS_CardinalityType

\* A failing request keeps the count within its bound.
LEMMA FaultType == Ctl!TypeOK /\ Ctl!Fault => faults' \in 0..MaxFaults
    BY Constants DEF Ctl!TypeOK, Ctl!Fault

\* UpsertCluster writes a well-formed row.
LEMMA UpsertClusterType ==
    ASSUME Ctl!TypeOK, NEW c \in Clusters, NEW s \in {"active", "stale"}
    PROVE  Ctl!UpsertCluster(clusters, c, s, now) \in [Clusters -> Ctl!ClusterRow]
<1>1. [status |-> s, lastSeen |-> now] \in Ctl!ClusterRow
    BY Constants DEF Ctl!TypeOK, Ctl!ClusterRow
<1>. QED
    BY <1>1 DEF Ctl!TypeOK, Ctl!UpsertCluster

\* The critical section that cancels a run keeps the types of what it writes.
LEMMA CancelTypes ==
    ASSUME Ctl!TypeOK, NEW c \in Clusters, Ctl!CancelExisting(c)
    PROVE  /\ registered' \in [Clusters -> Calls \cup {None}]
           /\ ctx' \in [Calls -> {"none", "live", "cancelled"}]
           /\ events' \in [Calls -> Nat]
           /\ window' \in SUBSET Calls
<1>1. CASE registered[c] = None
    BY <1>1 DEF Ctl!CancelExisting, Ctl!TypeOK, Ctl!watcher
<1>2. CASE registered[c] # None
    BY <1>2 DEF Ctl!CancelExisting, Ctl!TypeOK
<1>. QED
    BY <1>1, <1>2

\* Every action of the controller keeps its types.
LEMMA ControllerTypes ==
    ASSUME Ctl!TypeOK
    PROVE  \/ \E i \in Calls, c \in Clusters : Ctl!BeginEngage(i, c) \/ Ctl!BeginDisengage(i, c)
           \/ \E i \in Calls : Ctl!Step(i) \/ Ctl!Watch(i)
           \/ \E c \in Clusters, t \in CRDTypes : Ctl!ChangeCRD(c, t)
           \/ Ctl!Tick \/ Ctl!Crash
           => Ctl!TypeOK'
<1>. USE Constants
     DEF Ctl!TypeOK, Ctl!Location, Ctl!disc, Ctl!watcher, Ctl!tables, Ctl!env
<1>1. ASSUME NEW i \in Calls, NEW c \in Clusters, Ctl!BeginEngage(i, c) PROVE Ctl!TypeOK'
    BY <1>1, CancelTypes DEF Ctl!BeginEngage
<1>2. ASSUME NEW i \in Calls, NEW c \in Clusters, Ctl!BeginDisengage(i, c) PROVE Ctl!TypeOK'
    BY <1>2, CancelTypes DEF Ctl!BeginDisengage
<1>3. ASSUME NEW i \in Calls, Ctl!MarkActive(i) PROVE Ctl!TypeOK'
    <2>1. Ctl!UpsertCluster(clusters, target[i], "active", now) \in [Clusters -> Ctl!ClusterRow]
        BY <1>3, UpsertClusterType DEF Ctl!MarkActive
    <2>. QED
        BY <1>3, <2>1, FaultType DEF Ctl!MarkActive
<1>4. ASSUME NEW i \in Calls, Ctl!MarkStale(i) PROVE Ctl!TypeOK'
    <2>1. Ctl!UpsertCluster(clusters, target[i], "stale", now) \in [Clusters -> Ctl!ClusterRow]
        BY <1>4, UpsertClusterType DEF Ctl!MarkStale
    <2>. QED
        BY <1>4, <2>1, FaultType DEF Ctl!MarkStale
<1>5. ASSUME NEW i \in Calls, Ctl!Fetch(i) PROVE Ctl!TypeOK'
    BY <1>5, FaultType DEF Ctl!Fetch, Ctl!DiscoveryFailed, Ctl!Listed
<1>6. ASSUME NEW i \in Calls, Ctl!Clear(i) PROVE Ctl!TypeOK'
    BY <1>6, FaultType DEF Ctl!Clear, Ctl!DiscoveryFailed, Ctl!DeleteResourceTypesForCluster
<1>7. ASSUME NEW i \in Calls, Ctl!Populate(i) PROVE Ctl!TypeOK'
    BY <1>7, FaultType DEF Ctl!Populate, Ctl!UpsertResourceType
<1>8. ASSUME NEW i \in Calls, Ctl!Discovered(i) PROVE Ctl!TypeOK'
    BY <1>8 DEF Ctl!Discovered
<1>9. ASSUME NEW i \in Calls, Ctl!Register(i) PROVE Ctl!TypeOK'
    <2>1. Ctl!Cardinality(Ctl!CRDs(target[i])) \in Nat
        BY <1>9, CRDsCounted DEF Ctl!Register
    <2>. QED
        BY <1>9, <2>1, FaultType DEF Ctl!Register
<1>10. ASSUME NEW i \in Calls, Ctl!Watch(i) PROVE Ctl!TypeOK'
    BY <1>10 DEF Ctl!Watch, Ctl!HandleCRDEvent, Ctl!ResyncCRDs, Ctl!Refresh, Ctl!WindowExpires
<1>11. ASSUME NEW c \in Clusters, NEW t \in CRDTypes, Ctl!ChangeCRD(c, t) PROVE Ctl!TypeOK'
    BY <1>11 DEF Ctl!ChangeCRD
<1>12. CASE Ctl!Tick
    BY <1>12 DEF Ctl!Tick
<1>13. CASE Ctl!Crash
    BY <1>13 DEF Ctl!Crash
<1>. QED
    BY <1>1, <1>2, <1>3, <1>4, <1>5, <1>6, <1>7, <1>8, <1>9, <1>10, <1>11, <1>12, <1>13
    DEF Ctl!Step, Ctl!Discover

\* A run that was started has a cluster.
LEMMA RunCluster ==
    ASSUME Shape, NEW i \in Calls
    PROVE  /\ ctx[i] # "none" => target[i] \in Clusters
           /\ (\E t \in Types : queue[i][t] # <<>>) => ctx[i] # "none"
BY DEF Shape, TypeOK, Ctl!TypeOK, CtxShape, QueueShape, Ctl!Location

\* What informers and handlers do keeps the types of what they write.
LEMMA EventTypes ==
    ASSUME Shape, NEW i \in Calls, Evt!Informers(i)
    PROVE  Evt!TypeOK'
<1>. Evt!TypeOK
    BY DEF Shape, TypeOK
<1>. USE DEF Evt!runVars, Evt!TypeOK
<1>1. ASSUME NEW t \in Types, NEW k \in Keys, NEW rv \in 0..MaxVersion,
             NEW kind \in {"upsert", "delete", "tombstone"}, Evt!Enqueue(i, t, k, kind, rv)
      PROVE  queue' \in [Calls -> [Types -> Seq(Evt!Event)]]
    <2>1. [kind |-> kind, key |-> k, rv |-> rv] \in Evt!Event
        BY DEF Evt!Event
    <2>. QED
        BY <1>1, <2>1 DEF Evt!Enqueue
<1>2. ASSUME NEW t \in Types, NEW k \in Keys, Evt!Observe(i, t, k) PROVE Evt!TypeOK'
    <2>1. target[i] \in Clusters
        BY <1>2, RunCluster DEF Evt!Observe, Evt!Live
    <2>2. upstream[target[i]][k] \in Evt!ObjectState
        BY <2>1
    <2>3. upstream[target[i]][k].rv \in 0..MaxVersion
        BY <2>2 DEF Evt!ObjectState
    <2>4. queue' \in [Calls -> [Types -> Seq(Evt!Event)]]
        BY <1>1, <1>2, <2>3 DEF Evt!Observe
    <2>. QED
        BY <1>2, <2>2, <2>4 DEF Evt!Observe
<1>3. ASSUME NEW t \in Types, NEW k \in Keys, Evt!Resync(i, t, k) PROVE Evt!TypeOK'
    <2>1. cache[i][t][k].rv \in 0..MaxVersion
        BY DEF Evt!ObjectState
    <2>2. queue' \in [Calls -> [Types -> Seq(Evt!Event)]]
        BY <1>1, <1>3, <2>1 DEF Evt!Resync
    <2>. QED
        BY <1>3, <2>2 DEF Evt!Resync
<1>4. ASSUME NEW t \in Types, Evt!Handle(i, t) PROVE Evt!TypeOK'
    <2>1. target[i] \in Clusters
        BY <1>4, RunCluster DEF Evt!Handle
    <2>2. queue[i][t] \in Seq(Evt!Event) /\ queue[i][t] # <<>>
        BY <1>4 DEF Evt!Handle
    <2>3. Head(queue[i][t]) \in Evt!Event /\ Tail(queue[i][t]) \in Seq(Evt!Event)
        BY <2>2
    <2>4. ASSUME NEW e \in Evt!Event
          PROVE  Evt!Written(i, e) \in [Clusters -> [Keys -> 0..MaxVersion]]
        <3>1. e.key \in Keys /\ e.rv \in 0..MaxVersion /\ 0 \in 0..MaxVersion
            BY Constants DEF Evt!Event
        <3>2. ASSUME NEW v \in 0..MaxVersion
              PROVE  [objects EXCEPT ![target[i]][e.key] = v]
                        \in [Clusters -> [Keys -> 0..MaxVersion]]
            BY <2>1, <3>1
        <3>. QED
            BY <3>1, <3>2 DEF Evt!Written, Evt!UpsertObject, Evt!DeleteObject, Evt!Absent
    <2>5. objects' \in [Clusters -> [Keys -> 0..MaxVersion]] /\ faults' \in 0..MaxFaults
        <3>1. Evt!Written(i, Head(queue[i][t])) \in [Clusters -> [Keys -> 0..MaxVersion]]
            BY <2>3, <2>4
        <3>2. \/ objects' = Evt!Written(i, Head(queue[i][t])) /\ faults' = faults
              \/ objects' = objects /\ faults < MaxFaults /\ faults' = faults + 1
            BY <1>4 DEF Evt!Handle
        <3>. QED
            BY <3>1, <3>2, Constants
    <2>6. queue' \in [Calls -> [Types -> Seq(Evt!Event)]]
        BY <1>4, <2>3 DEF Evt!Handle
    <2>. QED
        BY <1>4, <2>5, <2>6 DEF Evt!Handle
<1>5. CASE Evt!Drop(i)
    BY <1>5 DEF Evt!Drop
<1>. QED
    BY <1>2, <1>3, <1>4, <1>5 DEF Evt!Informers

\* What the statements of a pass do.
Deletes(c) ==
    /\ c \in gcList /\ UNCHANGED <<now, gcNow>>
    /\ \/ /\ gcCluster = None /\ gcCluster' = c /\ gcStep' = "types" /\ gcList' = gcList
          /\ objects' = [objects EXCEPT ![c] = [k \in Keys |-> 0]]
          /\ UNCHANGED <<clusters, types, faults>>
       \/ /\ gcCluster = c /\ gcCluster' = c /\ gcList' = gcList
          /\ gcStep = "types" /\ gcStep' = "cluster"
          /\ types' = [types EXCEPT ![c] = {}]
          /\ UNCHANGED <<clusters, objects, faults>>
       \/ /\ gcCluster = c /\ gcCluster' = None /\ gcList' = gcList \ {c}
          /\ gcStep = "cluster" /\ gcStep' = "objects"
          /\ clusters' = [clusters EXCEPT ![c] = NoRow]
          /\ UNCHANGED <<types, objects, faults>>
       \/ /\ gcCluster' = None /\ gcList' = gcList \ {c} /\ gcStep' = "objects"
          /\ gcCluster \in {None, c}
          /\ faults < MaxFaults /\ faults' = faults + 1
          /\ UNCHANGED <<clusters, types, objects>>

\* A step of a pass deletes the rows of one listed cluster, or gives it up.
LEMMA PassDeletes ==
    ASSUME TypeOK, GC!DeleteExpired
    PROVE  \E c \in Clusters : Deletes(c)
<1>1. PICK c \in Clusters : GC!CollectObjects(c) \/ GC!CollectTypes(c) \/ GC!CollectCluster(c)
    BY DEF GC!DeleteExpired
<1>2. c \in gcList
    BY <1>1, Constants DEF GC!CollectObjects, GC!CollectTypes, GC!CollectCluster, TypeOK, GC!GCTypeOK
<1>3. objects[c] \in [Keys -> 0..MaxVersion]
    BY DEF TypeOK, Evt!TypeOK
<1>4. CASE GC!CollectObjects(c)
    BY <1>2, <1>3, <1>4
    DEF GC!CollectObjects, GC!GiveUp, GC!GCFault, GC!tables, GC!DeleteObjectsForCluster,
        GC!Absent, Deletes, TypeOK, Evt!TypeOK
<1>5. CASE GC!CollectTypes(c)
    BY <1>2, <1>5
    DEF GC!CollectTypes, GC!GiveUp, GC!GCFault, GC!tables, GC!DeleteResourceTypesForCluster,
        Deletes
<1>6. CASE GC!CollectCluster(c)
    BY <1>2, <1>6
    DEF GC!CollectCluster, GC!GiveUp, GC!GCFault, GC!tables, GC!DeleteCluster, GC!NoRow,
        NoRow, Deletes
<1>. QED
    BY <1>1, <1>4, <1>5, <1>6

\* The state is well formed when the process is first started.
LEMMA TypeInit == Init => TypeOK
<1>. SUFFICES ASSUME Init PROVE TypeOK
    OBVIOUS
<1>1. Ctl!TypeOK
    BY Constants
    DEF Init, Ctl!Init, Ctl!TypeOK, Ctl!ClusterRow, Ctl!NoRow, Ctl!Location
<1>2. Evt!TypeOK
    BY Constants
    DEF Init, Evt!Init, Evt!TypeOK, Evt!NoCache, Evt!ObjectState, Evt!Unseen, Evt!Absent
<1>3. GC!GCTypeOK /\ raced \subseteq Clusters
    BY DEF Init, GC!GCInit, GC!GCTypeOK
<1>. QED
    BY <1>1, <1>2, <1>3 DEF TypeOK

\* Every action keeps the type invariant.
LEMMA TypeStep == Shape /\ [Next]_vars => TypeOK'
<1>. SUFFICES ASSUME Shape, [Next]_vars PROVE TypeOK'
    OBVIOUS
<1>. Ctl!TypeOK /\ Evt!TypeOK /\ GC!GCTypeOK /\ raced \subseteq Clusters
    BY DEF Shape, TypeOK
<1>. raced' \subseteq Clusters
    <2>1. \/ raced' = raced
          \/ \E c \in Clusters : raced' = raced \cup ({c} \cap gcList)
          \/ StartPass
        BY DEF Next, Call, Run, Sync, Pass, Upstream, Tick, Crash, vars
    <2>2. CASE StartPass
        <3>1. gcList' \subseteq Clusters
            BY <2>2 DEF StartPass, GC!Collect, GC!ListStaleClusters, Ctl!TypeOK, GC!GCTypeOK
        <3>. QED
            BY <2>2, <3>1 DEF StartPass
    <2>. QED
        BY <2>1, <2>2
<1>0. ASSUME Ctl!TypeOK', UNCHANGED <<evtOnly, gcOnly>> PROVE TypeOK'
    BY <1>0 DEF TypeOK, Ctl!TypeOK, Evt!TypeOK, GC!GCTypeOK, evtOnly, gcOnly
<1>1. ASSUME NEW i \in Calls, NEW c \in Clusters, Call(i, c) PROVE TypeOK'
    BY <1>0, <1>1, ControllerTypes DEF Call
<1>2. ASSUME NEW i \in Calls, Run(i) PROVE TypeOK'
    BY <1>0, <1>2, ControllerTypes DEF Run
<1>3. ASSUME NEW i \in Calls, Sync(i) PROVE TypeOK'
    <2>1. Evt!TypeOK'
        BY <1>3, EventTypes DEF Sync
    <2>2. UNCHANGED <<target, ctx, watched>>
        BY <1>3
        DEF Sync, Evt!Informers, Evt!Observe, Evt!Resync, Evt!Handle, Evt!Drop, Evt!runVars
    <2>. QED
        BY <1>3, <2>1, <2>2
        DEF Sync, ctlOnly, gcOnly, TypeOK, Ctl!TypeOK, Evt!TypeOK, GC!GCTypeOK
<1>4. CASE StartPass
    <2>1. faults' \in 0..MaxFaults
        BY <1>4, Constants DEF StartPass, GC!Collect, GC!GCFault, Ctl!TypeOK
    <2>2. gcNow' \in Nat /\ gcList' \in SUBSET Clusters
        BY <1>4, Constants
        DEF StartPass, GC!Collect, GC!ListStaleClusters, Ctl!TypeOK, GC!GCTypeOK
    <2>3. gcCluster = None /\ gcCluster' = None /\ gcStep' = gcStep
        BY <1>4 DEF StartPass, GC!Collect, GC!Collecting, GC!GCTypeOK
    <2>. QED
        BY <1>4, <2>1, <2>2, <2>3
        DEF StartPass, ctlOnly, evtOnly, TypeOK, Ctl!TypeOK, Evt!TypeOK, GC!GCTypeOK
<1>5. CASE Pass
    <2>1. TypeOK /\ GC!DeleteExpired
        BY <1>5 DEF Pass, Shape
    <2>2. PICK c \in Clusters : Deletes(c)
        BY <2>1, PassDeletes
    <2>3. NoRow \in Ctl!ClusterRow /\ 0 \in 0..MaxVersion
        BY Constants DEF NoRow, Ctl!ClusterRow
    <2>4. /\ clusters' \in [Clusters -> Ctl!ClusterRow] /\ types' \in [Clusters -> SUBSET Types]
          /\ faults' \in 0..MaxFaults /\ now' = now
        BY <2>2, <2>3, Constants DEF Deletes, Ctl!TypeOK
    <2>5. objects' \in [Clusters -> [Keys -> 0..MaxVersion]]
        BY <2>2, <2>3 DEF Deletes, Evt!TypeOK
    <2>6. GC!GCTypeOK'
        BY <2>2 DEF Deletes, GC!GCTypeOK
    <2>. QED
        BY <1>5, <2>4, <2>5, <2>6 DEF Pass, TypeOK, Ctl!TypeOK, Evt!TypeOK
<1>6. CASE Upstream
    <2>1. ASSUME NEW c \in Clusters, NEW k \in Keys, Evt!WriteUpstream(c, k),
                 UNCHANGED <<ctlOnly, gcOnly>>
          PROVE  TypeOK'
        <3>1. \A e \in BOOLEAN : upstream[c][k].rv < MaxVersion =>
                    [rv |-> upstream[c][k].rv + 1, exists |-> e] \in Evt!ObjectState
            BY Constants DEF Evt!TypeOK, Evt!ObjectState
        <3>2. upstream' \in [Clusters -> [Keys -> Evt!ObjectState]]
            BY <2>1, <3>1 DEF Evt!WriteUpstream, Evt!TypeOK
        <3>. QED
            BY <2>1, <3>2
            DEF Evt!WriteUpstream, Evt!runVars, ctlOnly, gcOnly, TypeOK, Ctl!TypeOK, Evt!TypeOK,
                GC!GCTypeOK
    <2>. QED
        BY <1>0, <1>6, <2>1, ControllerTypes DEF Upstream
<1>7. CASE Tick
    BY <1>0, <1>7, ControllerTypes DEF Tick
<1>8. CASE Crash
    <2>1. Ctl!TypeOK'
        BY <1>8, ControllerTypes DEF Crash
    <2>2. cache' \in [Calls -> [Types -> [Keys -> Evt!ObjectState]]]
        BY <1>8, Constants DEF Crash, Evt!NoCache, Evt!Unseen, Evt!ObjectState
    <2>3. queue' \in [Calls -> [Types -> Seq(Evt!Event)]]
        BY <1>8 DEF Crash
    <2>. QED
        BY <1>8, <2>1, <2>2, <2>3
        DEF Crash, GC!GCCrash, TypeOK, Ctl!TypeOK, Evt!TypeOK, GC!GCTypeOK
<1>9. CASE UNCHANGED vars
    BY <1>0, <1>9 DEF vars, ctlOnly, Ctl!TypeOK
<1>. QED
    BY <1>1, <1>2, <1>3, <1>4, <1>5, <1>6, <1>7, <1>8, <1>9 DEF Next
----------------------------------------------------------------------------
\* What opens Engage and Disengage: the run the map holds is cancelled.
Opens(i, c) ==
    /\ pc[i] = "idle" /\ pc'[i] \in {"markActive", "markStale"}
    /\ target' = [target EXCEPT ![i] = c]
    /\ \A j \in Calls \ {i} : pc'[j] = pc[j]
    /\ \A j \in Calls : ctx'[j] = IF j = registered[c] THEN "cancelled" ELSE ctx[j]
    /\ registered' = [registered EXCEPT ![c] = None]
    /\ Serialized => Ctl!Quiet(c)
    /\ raced' = raced \cup ({c} \cap gcList)
    /\ UNCHANGED <<clusters, types, now, objects, queue, gcNow, gcList, gcCluster, gcStep>>

\* Both calls open alike.
LEMMA CallOpens ==
    ASSUME TypeOK, NEW i \in Calls, NEW c \in Clusters, Call(i, c)
    PROVE  Opens(i, c)
<1>. Ctl!TypeOK
    BY DEF TypeOK
<1>1. Ctl!CancelExisting(c)
    BY DEF Call, Ctl!BeginEngage, Ctl!BeginDisengage
<1>2. \A j \in Calls : ctx'[j] = IF j = registered[c] THEN "cancelled" ELSE ctx[j]
    BY <1>1, Constants DEF Ctl!CancelExisting, Ctl!TypeOK
<1>3. registered' = [registered EXCEPT ![c] = None]
    BY <1>1 DEF Ctl!CancelExisting
<1>. QED
    BY <1>2, <1>3
    DEF Opens, Call, Ctl!BeginEngage, Ctl!BeginDisengage, Ctl!TypeOK, Ctl!tables, Ctl!env,
        evtOnly, gcOnly

\* What a step of call k, or of the CRD watcher it left behind, does: it moves
\* call k only; the row of its cluster is written when a call marks it, and
\* resource types are added by a discovery whose context is not cancelled.
Moves(k) ==
    /\ UNCHANGED <<target, now, objects, queue, gcNow, gcList, gcCluster, gcStep, raced>>
    /\ \A j \in Calls \ {k} : pc'[j] = pc[j] /\ ctx'[j] = ctx[j]
    /\ \/ clusters' = clusters
       \/ /\ pc[k] = "markActive" /\ pc'[k] = "fetch"
          /\ clusters' = [clusters EXCEPT ![target[k]] = [status |-> "active", lastSeen |-> now]]
       \/ /\ pc[k] = "markStale" /\ pc'[k] = "returned"
          /\ clusters' = [clusters EXCEPT ![target[k]] = [status |-> "stale", lastSeen |-> now]]
    /\ \A d \in Clusters :
          \/ types'[d] \in {types[d], {}}
          \/ d = target[k] /\ pc[k] = "populate" /\ ctx[k] # "cancelled" /\ clusters' = clusters
    /\ \/ /\ registered' = registered /\ ctx' = ctx
          /\ pc'[k] \notin {"idle", "markActive", "markStale"} \/ pc'[k] = pc[k]
          /\ pc'[k] = "register" => ctx[k] = "none"
          /\ pc'[k] = "watching" => ctx[k] # "none"
          /\ Ctl!Live(k) => pc'[k] \in {"watching", "fetch", "clear", "populate"}
          /\ Ctl!InProgress(k)' => Ctl!InProgress(k)
          /\ Writer(k)' => Writer(k) \/ clusters'[target[k]].status = "active"
       \/ /\ pc[k] = "register" /\ pc'[k] = "watching" /\ ctx[k] = "none" /\ ctx'[k] = "live"
          /\ registered' = [registered EXCEPT ![target[k]] = k]

\* Every step of a call is of this form.
LEMMA RunMoves ==
    ASSUME Shape, NEW k \in Calls
    PROVE  Run(k) => Moves(k)
<1>. Ctl!TypeOK /\ CtxShape
    BY DEF Shape, TypeOK
<1>0. Run(k) => /\ UNCHANGED <<objects, queue, gcNow, gcList, gcCluster, gcStep, raced>>
                /\ Ctl!Step(k) \/ Ctl!Watch(k)
    BY DEF Run, evtOnly, gcOnly
<1>. USE DEF Moves, Writer, CtxShape, Ctl!TypeOK, Ctl!Location, Ctl!InProgress, Ctl!Live,
             Ctl!disc, Ctl!watcher, Ctl!tables, Ctl!env
<1>. SUFFICES ASSUME UNCHANGED <<objects, queue, gcNow, gcList, gcCluster, gcStep, raced>>
              PROVE  Ctl!Step(k) \/ Ctl!Watch(k) => Moves(k)
    BY <1>0
<1>1. CASE Ctl!MarkActive(k)
    BY <1>1 DEF Ctl!MarkActive, Ctl!UpsertCluster
<1>2. CASE Ctl!MarkStale(k)
    BY <1>2 DEF Ctl!MarkStale, Ctl!UpsertCluster
<1>3. CASE Ctl!Fetch(k)
    BY <1>3 DEF Ctl!Fetch, Ctl!DiscoveryFailed
<1>4. CASE Ctl!Clear(k)
    BY <1>4 DEF Ctl!Clear, Ctl!DiscoveryFailed, Ctl!DeleteResourceTypesForCluster
<1>5. CASE Ctl!Populate(k)
    BY <1>5 DEF Ctl!Populate, Ctl!UpsertResourceType
<1>6. CASE Ctl!Discovered(k)
    BY <1>6 DEF Ctl!Discovered
<1>7. CASE Ctl!Register(k)
    BY <1>7 DEF Ctl!Register
<1>8. CASE Ctl!HandleCRDEvent(k)
    BY <1>8 DEF Ctl!HandleCRDEvent, Ctl!Refresh
<1>9. CASE Ctl!ResyncCRDs(k)
    BY <1>9 DEF Ctl!ResyncCRDs, Ctl!Refresh
<1>10. CASE Ctl!WindowExpires(k)
    BY <1>10 DEF Ctl!WindowExpires
<1>. QED
    BY <1>1, <1>2, <1>3, <1>4, <1>5, <1>6, <1>7, <1>8, <1>9, <1>10
    DEF Ctl!Step, Ctl!Watch, Ctl!Discover

\* What informers and handlers of run i do: events are added to the queues of
\* a live run only, and rows are written for events already queued.
Writes(i) ==
    /\ UNCHANGED <<clusters, types, registered, pc, target, ctx, now>>
    /\ UNCHANGED <<gcNow, gcList, gcCluster, gcStep, raced>>
    /\ ctx[i] # "none"
    /\ \A j \in Calls, t \in Types :
          queue'[j][t] # <<>> => queue[j][t] # <<>> \/ (j = i /\ Ctl!Live(i))
    /\ \A d \in Clusters, k \in Keys :
          \/ objects'[d][k] \in {objects[d][k], 0}
          \/ d = target[i] /\ (Ctl!Live(i) \/ Late(i))

\* Every step of the informers is of this form.
LEMMA SyncWrites ==
    ASSUME Shape, NEW i \in Calls, Sync(i)
    PROVE  Writes(i)
<1>. Evt!TypeOK
    BY DEF Shape, TypeOK
<1>0. UNCHANGED <<clusters, types, registered, pc, target, ctx, now,
                  gcNow, gcList, gcCluster, gcStep, raced>>
    BY DEF Sync, ctlOnly, gcOnly, Evt!Informers, Evt!Observe, Evt!Resync, Evt!Handle, Evt!Drop,
           Evt!runVars
<1>1. ASSUME NEW t \in Types, NEW k \in Keys, Evt!Observe(i, t, k) \/ Evt!Resync(i, t, k)
      PROVE  Writes(i)
    <2>1. ctx[i] = "live" /\ objects' = objects
        BY <1>1 DEF Evt!Observe, Evt!Resync, Evt!Live
    <2>2. \A j \in Calls \ {i} : queue'[j] = queue[j]
        BY <1>1 DEF Evt!Observe, Evt!Resync, Evt!Enqueue, Evt!TypeOK
    <2>. QED
        BY <1>0, <2>1, <2>2 DEF Writes, Ctl!Live
<1>2. ASSUME NEW t \in Types, Evt!Handle(i, t) PROVE Writes(i)
    <2>1. queue[i][t] # <<>> /\ ctx[i] # "none" /\ target[i] \in Clusters
        BY <1>2, RunCluster DEF Evt!Handle
    <2>2. Ctl!Live(i) \/ Late(i)
        BY <2>1 DEF Ctl!Live, Late, Evt!TypeOK
    <2>3. \A j \in Calls, u \in Types : j # i \/ u # t => queue'[j][u] = queue[j][u]
        BY <1>2 DEF Evt!Handle, Evt!TypeOK
    <2>4. \A d \in Clusters \ {target[i]}, k \in Keys : objects'[d][k] = objects[d][k]
        BY <1>2 DEF Evt!Handle, Evt!Written, Evt!UpsertObject, Evt!DeleteObject, Evt!TypeOK
    <2>. QED
        BY <1>0, <2>1, <2>2, <2>3, <2>4 DEF Writes
<1>3. CASE Evt!Drop(i)
    <2>1. ctx[i] = "cancelled" /\ objects' = objects
        BY <1>3 DEF Evt!Drop
    <2>2. \A j \in Calls, t \in Types : queue'[j][t] \in {queue[j][t], <<>>}
        BY <1>3 DEF Evt!Drop, Evt!TypeOK
    <2>. QED
        BY <1>0, <2>1, <2>2 DEF Writes
<1>. QED
    BY <1>1, <1>2, <1>3 DEF Sync, Evt!Informers

\* The state is of the right shape when the process is first started.
LEMMA ShapeInit == Init => Shape
<1>. SUFFICES ASSUME Init PROVE Shape
    OBVIOUS
<1>. QED
    BY TypeInit
    DEF Init, Ctl!Init, Evt!Init, Shape, CtxShape, MapHoldsLive, QueueShape, Ctl!Live

\* Every action keeps the shape.
LEMMA ShapeStep == Shape /\ [Next]_vars => Shape'
<1>. SUFFICES ASSUME Shape, [Next]_vars PROVE Shape'
    OBVIOUS
<1>. TypeOK /\ TypeOK' /\ Ctl!TypeOK
    BY TypeStep DEF Shape, TypeOK
<1>. USE DEF Shape, Ctl!Live
<1>0. ASSUME UNCHANGED <<registered, pc, target, ctx, queue>> PROVE Shape'
    BY <1>0 DEF CtxShape, MapHoldsLive, QueueShape
<1>1. ASSUME NEW i \in Calls, NEW c \in Clusters, Call(i, c) PROVE Shape'
    <2>1. Opens(i, c)
        BY <1>1, CallOpens
    <2>2. registered[c] # None => registered[c] # i
        BY <2>1 DEF Opens, CtxShape, MapHoldsLive
    <2>3. CtxShape'
        BY <2>1, <2>2, Constants DEF Opens, CtxShape, MapHoldsLive, Ctl!TypeOK
    <2>4. MapHoldsLive'
        BY <2>1, Constants DEF Opens, CtxShape, MapHoldsLive, Ctl!TypeOK
    <2>5. QueueShape'
        BY <2>1 DEF Opens, QueueShape
    <2>. QED
        BY <2>3, <2>4, <2>5
<1>2. ASSUME NEW k \in Calls, Run(k) PROVE Shape'
    <2>1. Moves(k)
        BY <1>2, RunMoves
    <2>2. CtxShape'
        BY <2>1 DEF Moves, CtxShape, Ctl!TypeOK, Ctl!Location
    <2>3. MapHoldsLive'
        BY <2>1, Constants DEF Moves, MapHoldsLive, CtxShape, Ctl!TypeOK
    <2>4. QueueShape'
        BY <2>1 DEF Moves, QueueShape
    <2>. QED
        BY <2>2, <2>3, <2>4
<1>3. ASSUME NEW i \in Calls, Sync(i) PROVE Shape'
    <2>1. Writes(i)
        BY <1>3, SyncWrites
    <2>. QED
        BY <2>1 DEF Writes, CtxShape, MapHoldsLive, QueueShape
<1>4. CASE StartPass
    BY <1>0, <1>4 DEF StartPass, ctlOnly, evtOnly
<1>5. CASE Pass
    BY <1>0, <1>5 DEF Pass
<1>6. CASE Upstream
    BY <1>0, <1>6
    DEF Upstream, ctlOnly, evtOnly, Evt!WriteUpstream, Evt!runVars, Ctl!ChangeCRD, Ctl!disc
<1>7. CASE Tick
    BY <1>0, <1>7 DEF Tick, evtOnly, Ctl!Tick
<1>8. CASE Crash
    <2>1. /\ \A j \in Calls : /\ pc'[j] = IF pc[j] = "idle" THEN "idle" ELSE "returned"
                              /\ ctx'[j] = IF ctx[j] = "live" THEN "cancelled" ELSE ctx[j]
                              /\ \A t \in Types : queue'[j][t] = <<>>
          /\ \A c \in Clusters : registered'[c] = None
        BY <1>8 DEF Crash, Ctl!Crash
    <2>. QED
        BY <2>1 DEF CtxShape, MapHoldsLive, QueueShape
<1>9. CASE UNCHANGED vars
    BY <1>0, <1>9 DEF vars, ctlOnly, evtOnly
<1>. QED
    BY <1>1, <1>2, <1>3, <1>4, <1>5, <1>6, <1>7, <1>8, <1>9 DEF Next

\* The tables, the controller's memory, the informers and the pass are well
\* formed, whatever overlaps.
THEOREM TypeCorrect == Spec => []TypeOK
<1>1. Shape => TypeOK
    BY DEF Shape
<1>. QED
    BY <1>1, ShapeInit, ShapeStep, PTL DEF Spec

----------------------------------------------------------------------------
\* Times are numbers.
LEMMA Times ==
    ASSUME TypeOK
    PROVE  /\ now \in Nat /\ gcNow \in Nat /\ TTL \in Nat /\ TTL > 0
           /\ \A c \in Clusters : clusters[c].lastSeen \in Nat
           /\ gcList \subseteq Clusters
BY Constants, TTLAssumption DEF TypeOK, Ctl!TypeOK, GC!GCTypeOK, Ctl!ClusterRow

\* A call of Engage or Disengage is the only thing that writes the row of a
\* cluster other than a pass, and it is under way when it does.
LEMMA PassAloneStep == Shape /\ PassAlone /\ [Next]_vars => PassAlone'
<1>. SUFFICES ASSUME Shape, PassAlone, [Next]_vars PROVE PassAlone'
    OBVIOUS
<1>. TypeOK /\ Ctl!TypeOK
    BY DEF Shape, TypeOK
<1>. USE Times DEF Ctl!Live
<1>0. ASSUME UNCHANGED <<clusters, now, pc, target, ctx, gcList, raced>> PROVE PassAlone'
    BY <1>0 DEF PassAlone, GC!Expired, Ctl!Quiet, Ctl!InProgress
<1>1. ASSUME NEW i \in Calls, NEW c \in Clusters, Call(i, c) PROVE PassAlone'
    <2>1. Opens(i, c)
        BY <1>1, CallOpens
    <2>2. /\ target'[i] = c /\ \A j \in Calls \ {i} : target'[j] = target[j]
          /\ \A j \in Calls \ {i} : Ctl!InProgress(j)' => Ctl!InProgress(j)
          /\ UNCHANGED <<clusters, now, gcList>> /\ raced' = raced \cup ({c} \cap gcList)
        BY <2>1 DEF Opens, Ctl!TypeOK, Ctl!InProgress
    <2>3. ASSUME NEW d \in gcList' \ raced' PROVE d # c /\ d \in gcList \ raced
        BY <2>2
    <2>. QED
        BY <2>2, <2>3 DEF PassAlone, GC!Expired, Ctl!Quiet
<1>2. ASSUME NEW k \in Calls, Run(k) PROVE PassAlone'
    <2>1. Moves(k)
        BY <1>2, RunMoves
    <2>2. UNCHANGED <<target, now, gcList, raced>>
        BY <2>1 DEF Moves
    <2>3. \A j \in Calls : Ctl!InProgress(j)' => Ctl!InProgress(j)
        BY <2>1 DEF Moves, Ctl!InProgress, Ctl!TypeOK
    <2>4. ASSUME NEW d \in gcList \ raced PROVE clusters'[d] = clusters[d]
        <3>1. d \in Clusters /\ (target[k] = d => pc[k] \notin {"markActive", "markStale"})
            BY DEF PassAlone, Ctl!Quiet, Ctl!InProgress
        <3>. QED
            BY <2>1, <3>1 DEF Moves, Ctl!TypeOK
    <2>. QED
        BY <2>2, <2>3, <2>4 DEF PassAlone, GC!Expired, Ctl!Quiet
<1>3. ASSUME NEW i \in Calls, Sync(i) PROVE PassAlone'
    BY <1>0, <1>3, SyncWrites DEF Writes
<1>4. CASE StartPass
    <2>1. /\ UNCHANGED <<clusters, now, pc, target, ctx>>
          /\ raced' = raced \cup {c \in gcList' : ~Ctl!Quiet(c)}
        BY <1>4 DEF StartPass, ctlOnly
    <2>2. gcList' = gcList \/ \A c \in gcList' : GC!Expired(clusters[c], now)
        <3>1. \A c \in GC!ListStaleClusters(clusters, now) :
                 ~(now < clusters[c].lastSeen + TTL) => GC!Expired(clusters[c], now)
            BY DEF GC!ListStaleClusters, GC!Expired, Ctl!TypeOK
        <3>. QED
            BY <1>4, <3>1 DEF StartPass, GC!Collect
    <2>3. \A c \in gcList' \ raced' : c \notin raced /\ Ctl!Quiet(c) /\ Ctl!Quiet(c)'
        BY <2>1 DEF Ctl!Quiet, Ctl!InProgress
    <2>. QED
        BY <2>1, <2>2, <2>3 DEF PassAlone, GC!Expired
<1>5. CASE Pass
    <2>1. PICK c \in Clusters : Deletes(c)
        BY <1>5, PassDeletes DEF Pass
    <2>2. /\ UNCHANGED <<now, pc, target, ctx, raced>> /\ gcList' \subseteq gcList
          /\ \A d \in gcList' : clusters'[d] = clusters[d]
        BY <1>5, <2>1 DEF Pass, Deletes, Ctl!TypeOK
    <2>. QED
        BY <2>2 DEF PassAlone, GC!Expired, Ctl!Quiet, Ctl!InProgress
<1>6. CASE Upstream
    BY <1>0, <1>6
    DEF Upstream, ctlOnly, gcOnly, evtOnly, Evt!WriteUpstream, Evt!runVars, Ctl!ChangeCRD,
        Ctl!tables, Ctl!disc
<1>7. CASE Tick
    <2>1. UNCHANGED <<clusters, pc, target, ctx, gcList, raced>> /\ now' = now + 1
        BY <1>7 DEF Tick, Ctl!Tick, Ctl!tables, gcOnly
    <2>. QED
        BY <2>1 DEF PassAlone, GC!Expired, Ctl!Quiet, Ctl!InProgress
<1>8. CASE Crash
    BY <1>8 DEF Crash, GC!GCCrash, PassAlone
<1>9. CASE UNCHANGED vars
    BY <1>0, <1>9 DEF vars, ctlOnly, gcOnly
<1>. QED
    BY <1>1, <1>2, <1>3, <1>4, <1>5, <1>6, <1>7, <1>8, <1>9 DEF Next

\* However late the statements of a pass run after the list it decided on, a
\* cluster it is about to delete is stale and past its TTL, unless Engage or
\* Disengage of that cluster raced with the pass.  Calls may overlap.
THEOREM PassTargetsExpiredCorrect == Spec => []PassTargetsExpired
<1>1. Init => Shape /\ PassAlone
    BY ShapeInit DEF Init, GC!GCInit, PassAlone
<1>2. Shape /\ PassAlone /\ [Next]_vars => Shape' /\ PassAlone'
    BY ShapeStep, PassAloneStep
<1>3. PassAlone => PassTargetsExpired
    BY DEF PassAlone, PassTargetsExpired
<1>. QED
    BY <1>1, <1>2, <1>3, PTL DEF Spec

----------------------------------------------------------------------------
\* A pass never touches a cluster that a run, live or late, still writes.
LEMMA WriterNotListed ==
    ASSUME Shape, PassAlone, Apart, NEW i \in Calls, Writer(i) \/ Late(i)
    PROVE  /\ target[i] \in Clusters
           /\ target[i] \notin raced => /\ target[i] \notin gcList
                                        /\ clusters[target[i]] # NoRow
<1>. TypeOK
    BY DEF Shape
<1>1. target[i] \in Clusters
    BY RunCluster DEF Shape, TypeOK, Ctl!TypeOK, Writer, Late, Ctl!Live, Ctl!InProgress
<1>. SUFFICES ASSUME target[i] \notin raced
              PROVE  target[i] \notin gcList /\ clusters[target[i]] # NoRow
    BY <1>1
<1>2. \/ clusters[target[i]].status = "active"
      \/ /\ clusters[target[i]].status = "stale"
         /\ clusters[target[i]].lastSeen = now
    BY DEF Apart, OwnerActive, LateIsFresh
<1>3. clusters[target[i]] # NoRow
    BY <1>2 DEF NoRow
<1>4. target[i] \notin gcList
    BY <1>1, <1>2, Times DEF PassAlone, GC!Expired
<1>. QED
    BY <1>3, <1>4

\* Nothing in the invariant but time-dependent parts moves.
LEMMA ApartFrame ==
    ASSUME Apart,
           UNCHANGED <<clusters, types, objects, registered, pc, target, ctx, queue, now>>,
           UNCHANGED <<gcCluster, gcStep, raced>>
    PROVE  Apart'
BY DEF Apart, LiveIsRegistered, UniqueOwner, OwnerActive, LateIsFresh, Emptied,
       NoOrphanRows, Owner, Writer, Late, Ctl!InProgress, Ctl!Live

\* The invariant holds when the process is first started.
LEMMA ApartInit == Init => Apart
<1>. SUFFICES ASSUME Init PROVE Apart
    OBVIOUS
<1>1. \A i \in Calls : pc[i] = "idle" /\ ctx[i] = "none"
    BY DEF Init, Ctl!Init
<1>2. LiveIsRegistered /\ UniqueOwner /\ OwnerActive /\ LateIsFresh
    BY <1>1 DEF LiveIsRegistered, UniqueOwner, OwnerActive, LateIsFresh, Owner, Writer, Late,
                Ctl!InProgress, Ctl!Live
<1>3. Emptied
    BY DEF Init, GC!GCInit, Emptied
<1>4. NoOrphanRows
    BY DEF Init, Ctl!Init, Evt!Init, NoOrphanRows, Absent, Evt!Absent
<1>. QED
    BY <1>2, <1>3, <1>4 DEF Apart

\* When calls for one cluster do not overlap, every action keeps runs, passes and the rows they are responsible for apart.
LEMMA ApartStep ==
    ASSUME Serialized
    PROVE  Shape /\ PassAlone /\ Apart /\ [Next]_vars => Apart'
<1>. SUFFICES ASSUME Shape, PassAlone, Apart, [Next]_vars PROVE Apart'
    OBVIOUS
<1>. TypeOK /\ Ctl!TypeOK /\ Shape'
    BY ShapeStep DEF Shape, TypeOK
<1>. USE DEF Ctl!Live
<1>1. ASSUME NEW i \in Calls, NEW c \in Clusters, Call(i, c) PROVE Apart'
    <2>1. Opens(i, c)
        BY <1>1, CallOpens
    <2>2. /\ target'[i] = c /\ \A j \in Calls \ {i} : target'[j] = target[j]
          /\ registered'[c] = None
          /\ \A d \in Clusters \ {c} : registered'[d] = registered[d]
          /\ UNCHANGED <<clusters, types, now, objects, queue, gcList, gcCluster, gcStep>>
          /\ raced \subseteq raced' /\ Ctl!Quiet(c)
        BY <2>1 DEF Opens, Ctl!TypeOK
    <2>3. \A j \in Calls : Ctl!Live(j)' <=> Ctl!Live(j) /\ j # registered[c]
        BY <2>1 DEF Opens
    <2>4. /\ ctx[i] = "none"
          /\ \A j \in Calls \ {i} : Ctl!InProgress(j)' => Ctl!InProgress(j)
        BY <2>1 DEF Opens, Ctl!InProgress, Shape, CtxShape
    <2>5. \A j \in Calls : Ctl!Live(j)' => target[j] # c
        BY <2>3 DEF Apart, LiveIsRegistered
    <2>6. LiveIsRegistered'
        BY <2>2, <2>3, <2>4, <2>5 DEF Apart, LiveIsRegistered, Shape, TypeOK, Ctl!TypeOK, CtxShape
    <2>7. UniqueOwner'
        <3>1. \A j \in Calls \ {i} : Owner(j)' => Owner(j) /\ target'[j] # c
            BY <2>2, <2>3, <2>4, <2>5 DEF Owner, Ctl!Quiet
        <3>. QED
            BY <2>2, <3>1 DEF Apart, UniqueOwner
    <2>8. OwnerActive'
        <3>1. \A j \in Calls : Writer(j)' => Writer(j) /\ j # i
            BY <2>1, <2>3, <2>4 DEF Writer, Opens
        <3>. QED
            BY <2>2, <3>1 DEF Apart, OwnerActive
    <2>10. LateIsFresh'
        <3>1. ASSUME NEW j \in Calls, Late(j)' PROVE j # i /\ (Late(j) \/ Ctl!Live(j))
            <4>1. \E t \in Types : queue[j][t] # <<>>
                BY <2>2, <3>1 DEF Late
            <4>2. ctx[j] # "none"
                BY <4>1, RunCluster
            <4>. QED
                BY <2>4, <4>1, <4>2 DEF Late, Ctl!TypeOK
        <3>. QED
            BY <2>2, <3>1 DEF Apart, LateIsFresh, OwnerActive, Writer
    <2>11. Emptied' /\ NoOrphanRows'
        BY <2>2 DEF Apart, Emptied, NoOrphanRows
    <2>. QED
        BY <2>6, <2>7, <2>8, <2>10, <2>11 DEF Apart
<1>2. ASSUME NEW k \in Calls, Run(k) PROVE Apart'
    <2>1. Moves(k)
        BY <1>2, RunMoves
    <2>2. UNCHANGED <<target, now, objects, queue, gcList, gcCluster, gcStep, raced>>
        BY <2>1 DEF Moves
    <2>3. \A j \in Calls : /\ Owner(j)' => Owner(j)
                           /\ Ctl!InProgress(j)' => Ctl!InProgress(j)
                           /\ Late(j)' => Late(j)
                           /\ Ctl!Live(j)' => Ctl!Live(j) \/ (j = k /\ registered'[target[k]] = k)
        BY <2>1 DEF Moves, Owner, Late, Ctl!InProgress, Shape, TypeOK, Ctl!TypeOK
    <2>4. UniqueOwner'
        BY <2>2, <2>3 DEF Apart, UniqueOwner
    <2>5. LiveIsRegistered'
        <3>1. CASE registered' = registered /\ ctx' = ctx
            BY <2>2, <3>1 DEF Apart, LiveIsRegistered
        <3>2. CASE /\ pc[k] = "register" /\ ctx'[k] = "live"
                   /\ registered' = [registered EXCEPT ![target[k]] = k]
            <4>1. target[k] \in Clusters /\ registered'[target[k]] = k /\ Owner(k)
                BY <3>2 DEF Ctl!TypeOK, Owner, Ctl!InProgress
            <4>2. ASSUME NEW j \in Calls \ {k}, Ctl!Live(j)'
                  PROVE  registered'[target[j]] = j
                <5>1. Ctl!Live(j) /\ target[j] # target[k]
                    BY <2>3, <4>1, <4>2 DEF Apart, UniqueOwner, Owner
                <5>. QED
                    BY <3>2, <5>1 DEF Apart, LiveIsRegistered, Ctl!TypeOK
            <4>. QED
                BY <2>2, <4>1, <4>2 DEF LiveIsRegistered
        <3>. QED
            BY <2>1, <3>1, <3>2 DEF Moves
    <2>6. OwnerActive'
        <3>. SUFFICES ASSUME NEW j \in Calls, Writer(j)', target[j] \notin raced
                      PROVE  clusters'[target[j]].status = "active"
            BY <2>2 DEF OwnerActive
        <3>1. CASE j # k
            <4>1. Writer(j) /\ Owner(j)
                BY <2>1, <3>1 DEF Moves, Writer, Owner, Ctl!InProgress
            <4>2. target[j] \in Clusters /\ clusters[target[j]].status = "active"
                BY <4>1, WriterNotListed DEF Apart, OwnerActive
            <4>3. Owner(k) => target[j] # target[k]
                BY <3>1, <4>1 DEF Apart, UniqueOwner
            <4>4. clusters' = clusters \/ (Owner(k) /\ \A d \in Clusters \ {target[k]} :
                                                           clusters'[d] = clusters[d])
                BY <2>1 DEF Moves, Owner, Ctl!InProgress, Ctl!TypeOK
            <4>. QED
                BY <4>2, <4>3, <4>4
        <3>2. CASE j = k
            <4>1. Writer(k) \/ clusters'[target[k]].status = "active"
                BY <2>1, <3>2 DEF Moves, Writer, Ctl!InProgress
            <4>2. CASE Writer(k)
                <5>1. target[k] \in Clusters /\ clusters[target[k]].status = "active"
                    BY <3>2, <4>2, WriterNotListed DEF Apart, OwnerActive
                <5>2. pc[k] # "markStale"
                    BY <4>2 DEF Writer, Shape, CtxShape
                <5>3. clusters' = clusters \/ clusters'[target[k]].status = "active"
                    BY <2>1, <5>1, <5>2 DEF Moves, Ctl!TypeOK
                <5>. QED
                    BY <3>2, <5>1, <5>3
            <4>. QED
                BY <3>2, <4>1, <4>2
        <3>. QED
            BY <3>1, <3>2
    <2>8. LateIsFresh'
        <3>. SUFFICES ASSUME NEW j \in Calls, Late(j), target[j] \notin raced
                      PROVE  \/ clusters'[target[j]].status = "active"
                             \/ /\ clusters'[target[j]].status = "stale"
                                /\ clusters'[target[j]].lastSeen = now
            BY <2>2, <2>3 DEF LateIsFresh
        <3>1. target[j] \in Clusters
            BY WriterNotListed
        <3>2. \/ clusters'[target[j]] = clusters[target[j]]
              \/ clusters'[target[j]] = [status |-> "active", lastSeen |-> now]
              \/ clusters'[target[j]] = [status |-> "stale", lastSeen |-> now]
            BY <2>1, <3>1 DEF Moves, Ctl!TypeOK
        <3>. QED
            BY <3>2 DEF Apart, LateIsFresh
    <2>9. ASSUME NEW d \in Clusters \ raced, d \in gcList \/ clusters'[d] = NoRow
          PROVE  types'[d] \in {types[d], {}}
        <3>1. ASSUME d = target[k], pc[k] = "populate", ctx[k] # "cancelled", clusters' = clusters
              PROVE  FALSE
            <4>1. Writer(k)
                BY <3>1 DEF Writer, Ctl!InProgress, Ctl!TypeOK
            <4>. QED
                BY <2>9, <3>1, <4>1, WriterNotListed
        <3>. QED
            BY <2>1, <3>1 DEF Moves
    <2>10. Emptied'
        <3>1. gcCluster # None => gcCluster \in gcList /\ gcCluster \in Clusters
            BY DEF TypeOK, GC!GCTypeOK
        <3>. QED
            BY <2>2, <2>9, <3>1 DEF Apart, Emptied
    <2>11. NoOrphanRows'
        <3>1. \A d \in Clusters : clusters'[d] = NoRow => clusters[d] = NoRow
            <4>1. \A s \in {"active", "stale"} : [status |-> s, lastSeen |-> now] # NoRow
                BY DEF NoRow
            <4>. QED
                BY <2>1, <4>1 DEF Moves, Ctl!TypeOK
        <3>. QED
            BY <2>2, <2>9, <3>1 DEF Apart, NoOrphanRows
    <2>. QED
        BY <2>4, <2>5, <2>6, <2>8, <2>10, <2>11 DEF Apart
<1>3. ASSUME NEW i \in Calls, Sync(i) PROVE Apart'
    <2>1. Writes(i)
        BY <1>3, SyncWrites
    <2>2. /\ UNCHANGED <<clusters, types, registered, pc, target, ctx, now>>
          /\ UNCHANGED <<gcList, gcCluster, gcStep, raced>>
        BY <2>1 DEF Writes
    <2>3. LiveIsRegistered' /\ UniqueOwner' /\ OwnerActive'
        BY <2>2
        DEF Apart, LiveIsRegistered, UniqueOwner, OwnerActive, Owner, Writer, Ctl!InProgress
    <2>4. LateIsFresh'
        <3>1. \A j \in Calls : Late(j)' => Late(j)
            BY <2>1 DEF Writes, Late
        <3>. QED
            BY <2>2, <3>1 DEF Apart, LateIsFresh
    <2>5. ASSUME NEW d \in Clusters \ raced, d \in gcList \/ clusters[d] = NoRow, NEW k \in Keys
          PROVE  objects'[d][k] \in {objects[d][k], 0}
        <3>1. (Ctl!Live(i) \/ Late(i)) /\ target[i] \notin raced =>
                 target[i] \notin gcList /\ clusters[target[i]] # NoRow
            BY WriterNotListed DEF Writer
        <3>. QED
            BY <2>1, <2>5, <3>1 DEF Writes
    <2>6. Emptied'
        <3>1. gcCluster # None => gcCluster \in gcList /\ gcCluster \in Clusters
            BY DEF TypeOK, GC!GCTypeOK
        <3>. QED
            BY <2>2, <2>5, <3>1 DEF Apart, Emptied, Absent
    <2>7. NoOrphanRows'
        BY <2>2, <2>5 DEF Apart, NoOrphanRows, Absent
    <2>. QED
        BY <2>3, <2>4, <2>6, <2>7 DEF Apart
<1>4. CASE StartPass
    <2>1. /\ UNCHANGED <<clusters, types, objects, registered, pc, target, ctx, queue, now>>
          /\ UNCHANGED <<gcCluster, gcStep>>
          /\ raced \subseteq raced'
        BY <1>4 DEF StartPass, ctlOnly, evtOnly
    <2>. QED
        BY <2>1
        DEF Apart, LiveIsRegistered, UniqueOwner, OwnerActive, LateIsFresh, Emptied,
            NoOrphanRows, Owner, Writer, Late, Ctl!InProgress
<1>5. CASE Pass
    <2>1. PICK c \in Clusters : Deletes(c)
        BY <1>5, PassDeletes DEF Pass
    <2>2. UNCHANGED <<registered, pc, target, ctx, queue, now, raced>>
        BY <1>5, <2>1 DEF Pass, Deletes
    <2>3. /\ c \in gcList /\ gcList' \subseteq gcList
          /\ \A d \in Clusters \ {c} : clusters'[d] = clusters[d]
        BY <2>1 DEF Deletes, Ctl!TypeOK
    <2>4. \A i \in Calls : (Writer(i) \/ Late(i)) /\ target[i] \notin raced =>
             target[i] \in Clusters /\ clusters'[target[i]] = clusters[target[i]]
        BY <2>3, WriterNotListed
    <2>5. LiveIsRegistered' /\ UniqueOwner'
        BY <2>2 DEF Apart, LiveIsRegistered, UniqueOwner, Owner, Ctl!InProgress
    <2>6. OwnerActive' /\ LateIsFresh'
        BY <2>2, <2>4 DEF Apart, OwnerActive, LateIsFresh, Writer, Late, Ctl!InProgress
    <2>8. Emptied'
        BY <2>1, <2>2, Constants
        DEF Apart, Emptied, Deletes, Absent, Ctl!TypeOK, TypeOK, Evt!TypeOK
    <2>9. NoOrphanRows'
        <3>1. /\ \A d \in Clusters : types'[d] \in {types[d], {}}
              /\ \A d \in Clusters, k \in Keys : objects'[d][k] \in {objects[d][k], 0}
            <4>1. \/ objects' = objects
                  \/ objects' = [objects EXCEPT ![c] = [k \in Keys |-> 0]]
                BY <2>1 DEF Deletes
            <4>2. \A d \in Clusters, k \in Keys : objects'[d][k] \in {objects[d][k], 0}
                <5>1. objects \in [Clusters -> [Keys -> 0..MaxVersion]]
                    BY DEF TypeOK, Evt!TypeOK
                <5>. QED
                    BY <4>1, <5>1
            <4>3. types' = types \/ types' = [types EXCEPT ![c] = {}]
                BY <2>1 DEF Deletes
            <4>4. \A d \in Clusters : types'[d] \in {types[d], {}}
                BY <4>3 DEF Ctl!TypeOK
            <4>. QED
                BY <4>2, <4>4
        <3>2. clusters'[c] # clusters[c] => gcCluster = c /\ gcStep = "cluster"
            BY <2>1 DEF Deletes
        <3>. QED
            BY <2>2, <2>3, <3>1, <3>2, Constants DEF Apart, Emptied, NoOrphanRows, Absent
    <2>. QED
        BY <2>5, <2>6, <2>8, <2>9 DEF Apart
<1>6. CASE Upstream
    BY <1>6, ApartFrame
    DEF Upstream, ctlOnly, evtOnly, gcOnly, Evt!WriteUpstream, Evt!runVars, Ctl!ChangeCRD,
        Ctl!tables, Ctl!disc
<1>7. CASE Tick
    <2>1. /\ UNCHANGED <<clusters, types, objects, registered, pc, target, ctx, queue>>
          /\ UNCHANGED <<gcCluster, gcStep, raced>>
          /\ \A i \in Calls : ~Late(i)
        BY <1>7 DEF Tick, Ctl!Tick, Ctl!tables, evtOnly, gcOnly, Late
    <2>. QED
        BY <2>1
        DEF Apart, LiveIsRegistered, UniqueOwner, OwnerActive, LateIsFresh, Emptied,
            NoOrphanRows, Owner, Writer, Late, Ctl!InProgress
<1>8. CASE Crash
    <2>1. /\ \A i \in Calls :
                /\ pc'[i] \in {"idle", "returned"} /\ ctx'[i] # "live"
                /\ \A t \in Types : queue'[i][t] = <<>>
          /\ UNCHANGED <<clusters, types, objects, target, raced>>
          /\ gcCluster' = None /\ gcStep' = "objects"
        BY <1>8 DEF Crash, Ctl!Crash, GC!GCCrash, Ctl!tables, Ctl!TypeOK
    <2>2. \A i \in Calls : ~Owner(i)' /\ ~Writer(i)' /\ ~Late(i)' /\ ~Ctl!Live(i)'
        BY <2>1 DEF Owner, Writer, Late, Ctl!InProgress
    <2>. QED
        BY <2>1, <2>2
        DEF Apart, LiveIsRegistered, UniqueOwner, OwnerActive, LateIsFresh, Emptied,
            NoOrphanRows
<1>9. CASE UNCHANGED vars
    BY <1>9, ApartFrame DEF vars, ctlOnly, evtOnly, gcOnly
<1>. QED
    BY <1>1, <1>2, <1>3, <1>4, <1>5, <1>6, <1>7, <1>8, <1>9 DEF Next

\* The inductive invariant holds in every reachable state.
LEMMA InvCorrect == Spec => []IInv
<1>1. Init => IInv
    BY ShapeInit, ApartInit DEF IInv, Init, GC!GCInit, PassAlone
<1>2. IInv /\ [Next]_vars => IInv'
    BY ShapeStep, ApartStep, PassAloneStep DEF IInv
<1>. QED
    BY <1>1, <1>2, PTL DEF Spec

\* When calls for one cluster do not overlap, no object and no resource type
\* outlives its cluster row, through failures of any statement of a pass,
\* crashes, and handlers of cancelled runs that write after everything else
\* has stopped.  A call may come at any time of a pass; NoOrphanRows excepts
\* the cluster it is for, if the pass had that cluster on its list.
THEOREM NoOrphanRowsCorrect == Serialized => (Spec => []NoOrphanRows)
<1>. SUFFICES ASSUME Serialized PROVE Spec => []NoOrphanRows
    OBVIOUS
<1>1. IInv => NoOrphanRows
    BY DEF IInv, Apart
<1>. QED
    BY <1>1, InvCorrect, PTL
=============================================================================
