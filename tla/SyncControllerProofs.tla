------------------------ MODULE SyncControllerProofs ------------------------
(***************************************************************************)
(* Proofs about SyncController for every set of clusters, calls and types  *)
(* and every bound on faults, changes and time: its safety properties, and *)
(* that it implements Lifecycle.                                           *)
(***************************************************************************)
EXTENDS SyncController, FiniteSetTheorems, TLAPS

\* A call owns its cluster from the moment Engage or Disengage cancels the
\* previous run until it returns, or, if it engaged, until it is cancelled.
Owner(i) == InProgress(i) \/ Live(i)

\* The locations a call can be at before and after its context exists.
CtxShape ==
    \A i \in Calls :
        /\ pc[i] \in {"idle", "markActive", "markStale", "register"}
              => ctx[i] = "none"
        /\ pc[i] = "watching" => ctx[i] # "none"
        /\ Live(i) => pc[i] \in {"watching", "fetch", "clear", "populate"}

\* Whatever the map holds for a cluster is a live run of that cluster.
MapHoldsLive ==
    \A c \in Clusters :
        registered[c] # None => Live(registered[c]) /\ target[registered[c]] = c

\* Every live run is in the map, so the next call can cancel it.
LiveIsRegistered ==
    \A i \in Calls : Live(i) => registered[target[i]] = i

UniqueOwner ==
    \A i, j \in Calls : Owner(i) /\ Owner(j) /\ target[i] = target[j] => i = j

\* From MarkActive on, the owner's cluster row says active.
OwnerActive ==
    \A i \in Calls :
        Live(i) \/ (InProgress(i) /\ pc[i] \notin {"markActive", "markStale"})
            => clusters[target[i]].status = "active"

\* The rows of call i's cluster are those its last discovery wrote: one per
\* resource it found, in one of the versions it found.
Wrote(i) ==
    /\ types[target[i]] \subseteq found[i]
    /\ Resources(types[target[i]]) = Resources(found[i])

\* From its first Clear on, the owner's rows are the only ones in the table.
OwnerTypes ==
    \A i \in Calls :
        Live(i) \/ (InProgress(i) /\ pc[i] \in {"populate", "register"}) => Wrote(i)

Exclusive == LiveIsRegistered /\ UniqueOwner /\ OwnerActive /\ OwnerTypes

IInv == TypeOK /\ CtxShape /\ MapHoldsLive /\ (Serialized => Exclusive)
----------------------------------------------------------------------------
\* The first list of a CRD informer yields a natural number of notifications.
LEMMA CRDsCounted ==
    ASSUME TypeOK, NEW c \in Clusters
    PROVE  Cardinality(CRDs(c)) \in Nat
<1>1. IsFiniteSet(served[c] \cap CRDTypes)
    BY FS_Subset, ControllerAssumption DEF TypeOK
<1>2. IsFiniteSet(CRDs(c))
    <2>. DEFINE S == served[c] \cap CRDTypes
                f == [t \in S |-> GroupResource[t]]
    <2>1. f \in Surjection(S, CRDs(c))
        BY DEF Surjection, CRDs, Resources
    <2>. QED
        BY <1>1, <2>1, FS_Surjection
<1>. QED
    BY <1>2, FS_CardinalityType

\* The critical section that cancels a run keeps the types of what it writes.
LEMMA CancelTypes ==
    ASSUME TypeOK, NEW c \in Clusters, CancelExisting(c)
    PROVE  /\ registered' \in [Clusters -> Calls \cup {None}]
           /\ ctx' \in [Calls -> {"none", "live", "cancelled"}]
           /\ events' \in [Calls -> Nat]
           /\ window' \in SUBSET Calls
<1>1. CASE registered[c] = None
    BY <1>1 DEF CancelExisting, TypeOK, watcher
<1>2. CASE registered[c] # None
    BY <1>2 DEF CancelExisting, TypeOK
<1>. QED
    BY <1>1, <1>2

\* A failing request keeps the count within its bound.
LEMMA FaultType == TypeOK /\ Fault => faults' \in 0..MaxFaults
    BY ControllerAssumption DEF TypeOK, Fault

\* UpsertCluster writes a well-formed row.
LEMMA UpsertClusterType ==
    ASSUME TypeOK, NEW c \in Clusters, NEW s \in {"active", "stale"}
    PROVE  UpsertCluster(clusters, c, s, now) \in [Clusters -> ClusterRow]
<1>1. [status |-> s, lastSeen |-> now] \in ClusterRow
    BY ControllerAssumption DEF TypeOK, ClusterRow
<1>. QED
    BY <1>1 DEF TypeOK, UpsertCluster

\* The initial state is well formed.
LEMMA TypeInit == Init => TypeOK
    BY ControllerAssumption
    DEF Init, TypeOK, ClusterRow, NoRow, Location

\* Every action keeps the type invariant.
LEMMA TypeStep == TypeOK /\ [Next]_vars => TypeOK'
<1>. SUFFICES ASSUME TypeOK, [Next]_vars PROVE TypeOK'
    OBVIOUS
<1>. USE ControllerAssumption DEF TypeOK, Location, disc, watcher, tables, env
<1>1. ASSUME NEW i \in Calls, NEW c \in Clusters, BeginEngage(i, c)
      PROVE  TypeOK'
    BY <1>1, CancelTypes DEF BeginEngage
<1>2. ASSUME NEW i \in Calls, NEW c \in Clusters, BeginDisengage(i, c)
      PROVE  TypeOK'
    BY <1>2, CancelTypes DEF BeginDisengage
<1>3. ASSUME NEW i \in Calls, MarkActive(i)
      PROVE  TypeOK'
    <2>1. UpsertCluster(clusters, target[i], "active", now) \in [Clusters -> ClusterRow]
        BY <1>3, UpsertClusterType DEF MarkActive
    <2>. QED
        BY <1>3, <2>1, FaultType DEF MarkActive
<1>4. ASSUME NEW i \in Calls, MarkStale(i)
      PROVE  TypeOK'
    <2>1. UpsertCluster(clusters, target[i], "stale", now) \in [Clusters -> ClusterRow]
        BY <1>4, UpsertClusterType DEF MarkStale
    <2>. QED
        BY <1>4, <2>1, FaultType DEF MarkStale
<1>5. ASSUME NEW i \in Calls, Fetch(i)
      PROVE  TypeOK'
    BY <1>5, FaultType DEF Fetch, DiscoveryFailed, Listed
<1>6. ASSUME NEW i \in Calls, Clear(i)
      PROVE  TypeOK'
    BY <1>6, FaultType DEF Clear, DiscoveryFailed, DeleteResourceTypesForCluster
<1>7. ASSUME NEW i \in Calls, Populate(i)
      PROVE  TypeOK'
    BY <1>7, FaultType DEF Populate, UpsertResourceType
<1>8. ASSUME NEW i \in Calls, Discovered(i)
      PROVE  TypeOK'
    BY <1>8 DEF Discovered
<1>9. ASSUME NEW i \in Calls, Register(i)
      PROVE  TypeOK'
    <2>1. Cardinality(CRDs(target[i])) \in Nat
        BY <1>9, CRDsCounted DEF Register
    <2>. QED
        BY <1>9, <2>1, FaultType DEF Register
<1>10. ASSUME NEW i \in Calls, HandleCRDEvent(i)
       PROVE  TypeOK'
    BY <1>10 DEF HandleCRDEvent, Refresh
<1>11. ASSUME NEW i \in Calls, ResyncCRDs(i)
       PROVE  TypeOK'
    BY <1>11 DEF ResyncCRDs, Refresh
<1>12. ASSUME NEW i \in Calls, WindowExpires(i)
       PROVE  TypeOK'
    BY <1>12 DEF WindowExpires
<1>13. ASSUME NEW c \in Clusters, NEW t \in CRDTypes, ChangeCRD(c, t)
       PROVE  TypeOK'
    BY <1>13 DEF ChangeCRD
<1>14. CASE Tick
    BY <1>14 DEF Tick
<1>15. CASE Crash
    BY <1>15 DEF Crash
<1>16. CASE UNCHANGED vars
    BY <1>16 DEF vars
<1>. QED
    BY <1>1, <1>2, <1>3, <1>4, <1>5, <1>6, <1>7, <1>8, <1>9, <1>10, <1>11,
       <1>12, <1>13, <1>14, <1>15, <1>16
    DEF Next, Step, Watch, Discover

\* The state of the controller and of the tables it writes is well formed.
THEOREM TypeCorrect == Spec => []TypeOK
    BY TypeInit, TypeStep, PTL DEF Spec
----------------------------------------------------------------------------
\* The rows of a cluster after UpsertResourceType.
Upserted(S, t) == {u \in S : GroupResource[u] # GroupResource[t]} \cup {t}

\* An upsert keeps one row per resource found, whatever version it replaces.
LEMMA UpsertedResources ==
    ASSUME NEW S, NEW F, NEW t,
           S \subseteq F, Resources(S) = Resources(F)
    PROVE  /\ Upserted(S, t) \subseteq F \cup {t}
           /\ Resources(Upserted(S, t)) = Resources(F \cup {t})
<1>1. Upserted(S, t) \subseteq F \cup {t}
    BY DEF Upserted
<1>2. ASSUME NEW g \in Resources(F \cup {t}), g # GroupResource[t]
      PROVE  g \in Resources(Upserted(S, t))
    <2>1. g \in Resources(S)
        BY <1>2 DEF Resources
    <2>2. PICK u \in S : g = GroupResource[u]
        BY <2>1 DEF Resources
    <2>. QED
        BY <1>2, <2>2 DEF Resources, Upserted
<1>3. GroupResource[t] \in Resources(Upserted(S, t))
    BY DEF Resources, Upserted
<1>4. Resources(Upserted(S, t)) \subseteq Resources(F \cup {t})
    BY <1>1 DEF Resources
<1>. QED
    BY <1>1, <1>2, <1>3, <1>4

\* The inductive invariant holds when the process starts.
LEMMA InvInit == Init => IInv
<1>. SUFFICES ASSUME Init PROVE IInv
    OBVIOUS
<1>1. TypeOK
    BY TypeInit
<1>2. CtxShape /\ MapHoldsLive /\ Exclusive
    BY DEF Init, CtxShape, MapHoldsLive, Exclusive, LiveIsRegistered, UniqueOwner,
           OwnerActive, OwnerTypes, Wrote, Owner, InProgress, Live
<1>. QED
    BY <1>1, <1>2 DEF IInv

\* A step that leaves alone what the invariant mentions keeps it.
LEMMA InvFrame ==
    ASSUME IInv, TypeOK',
           UNCHANGED <<clusters, types, registered, pc, target, ctx, found>>
    PROVE  IInv'
BY DEF IInv, CtxShape, MapHoldsLive, Exclusive, LiveIsRegistered, UniqueOwner,
       OwnerActive, OwnerTypes, Wrote, Owner, InProgress, Live

\* Every action keeps the inductive invariant.
LEMMA InvStep == IInv /\ [Next]_vars => IInv'
<1>. SUFFICES ASSUME IInv, [Next]_vars PROVE IInv'
    OBVIOUS
<1>. TypeOK' /\ TypeOK
    BY TypeStep DEF IInv
<1>. USE ControllerAssumption DEF tables, disc, watcher, env, Live
<1>1. ASSUME NEW i \in Calls, NEW c \in Clusters, BeginEngage(i, c)
      PROVE  IInv'
    <2>1. CtxShape'
        BY <1>1 DEF IInv, TypeOK, CtxShape, MapHoldsLive, BeginEngage, CancelExisting
    <2>2. MapHoldsLive'
        BY <1>1 DEF IInv, TypeOK, CtxShape, MapHoldsLive, BeginEngage, CancelExisting
    <2>3. ASSUME Serialized PROVE Exclusive'
        <3>1. LiveIsRegistered'
            BY <1>1, <2>3
            DEF IInv, TypeOK, CtxShape, MapHoldsLive, Exclusive, LiveIsRegistered,
                UniqueOwner, Owner, InProgress, BeginEngage, CancelExisting
        <3>2. UniqueOwner'
            BY <1>1, <2>3
            DEF IInv, TypeOK, CtxShape, MapHoldsLive, Exclusive, LiveIsRegistered,
                UniqueOwner, Owner, InProgress, Quiet, BeginEngage, CancelExisting
        <3>3. OwnerActive'
            BY <1>1, <2>3
            DEF IInv, TypeOK, CtxShape, MapHoldsLive, Exclusive, OwnerActive,
                UniqueOwner, Owner, InProgress, BeginEngage, CancelExisting
        <3>4. OwnerTypes'
            BY <1>1, <2>3
            DEF IInv, TypeOK, CtxShape, MapHoldsLive, Exclusive, OwnerTypes, Wrote,
                UniqueOwner, Owner, InProgress, BeginEngage, CancelExisting
        <3>. QED
            BY <3>1, <3>2, <3>3, <3>4 DEF Exclusive
    <2>. QED
        BY <2>1, <2>2, <2>3 DEF IInv
<1>2. ASSUME NEW i \in Calls, NEW c \in Clusters, BeginDisengage(i, c)
      PROVE  IInv'
    <2>1. CtxShape'
        BY <1>2 DEF IInv, TypeOK, CtxShape, MapHoldsLive, BeginDisengage, CancelExisting
    <2>2. MapHoldsLive'
        BY <1>2 DEF IInv, TypeOK, CtxShape, MapHoldsLive, BeginDisengage, CancelExisting
    <2>3. ASSUME Serialized PROVE Exclusive'
        <3>1. LiveIsRegistered'
            BY <1>2, <2>3
            DEF IInv, TypeOK, CtxShape, MapHoldsLive, Exclusive, LiveIsRegistered,
                UniqueOwner, Owner, InProgress, BeginDisengage, CancelExisting
        <3>2. UniqueOwner'
            BY <1>2, <2>3
            DEF IInv, TypeOK, CtxShape, MapHoldsLive, Exclusive, LiveIsRegistered,
                UniqueOwner, Owner, InProgress, Quiet, BeginDisengage, CancelExisting
        <3>3. OwnerActive'
            BY <1>2, <2>3
            DEF IInv, TypeOK, CtxShape, MapHoldsLive, Exclusive, OwnerActive,
                UniqueOwner, Owner, InProgress, BeginDisengage, CancelExisting
        <3>4. OwnerTypes'
            BY <1>2, <2>3
            DEF IInv, TypeOK, CtxShape, MapHoldsLive, Exclusive, OwnerTypes, Wrote,
                UniqueOwner, Owner, InProgress, BeginDisengage, CancelExisting
        <3>. QED
            BY <3>1, <3>2, <3>3, <3>4 DEF Exclusive
    <2>. QED
        BY <2>1, <2>2, <2>3 DEF IInv
<1>3. ASSUME NEW i \in Calls, MarkActive(i)
      PROVE  IInv'
    <2>1. CtxShape'
        BY <1>3 DEF IInv, TypeOK, CtxShape, MapHoldsLive, MarkActive, UpsertCluster
    <2>2. MapHoldsLive'
        BY <1>3 DEF IInv, TypeOK, CtxShape, MapHoldsLive, MarkActive, UpsertCluster
    <2>3. ASSUME Serialized PROVE Exclusive'
        <3>1. LiveIsRegistered'
            BY <1>3, <2>3
            DEF IInv, TypeOK, CtxShape, MapHoldsLive, Exclusive, LiveIsRegistered,
                UniqueOwner, Owner, InProgress, MarkActive, UpsertCluster
        <3>2. UniqueOwner'
            BY <1>3, <2>3
            DEF IInv, TypeOK, CtxShape, MapHoldsLive, Exclusive, LiveIsRegistered,
                UniqueOwner, Owner, InProgress, Quiet, MarkActive, UpsertCluster
        <3>3. OwnerActive'
            BY <1>3, <2>3
            DEF IInv, TypeOK, CtxShape, MapHoldsLive, Exclusive, OwnerActive,
                UniqueOwner, Owner, InProgress, MarkActive, UpsertCluster
        <3>4. OwnerTypes'
            BY <1>3, <2>3
            DEF IInv, TypeOK, CtxShape, MapHoldsLive, Exclusive, OwnerTypes, Wrote,
                UniqueOwner, Owner, InProgress, MarkActive, UpsertCluster
        <3>. QED
            BY <3>1, <3>2, <3>3, <3>4 DEF Exclusive
    <2>. QED
        BY <2>1, <2>2, <2>3 DEF IInv
<1>4. ASSUME NEW i \in Calls, MarkStale(i)
      PROVE  IInv'
    <2>1. CtxShape'
        BY <1>4 DEF IInv, TypeOK, CtxShape, MapHoldsLive, MarkStale, UpsertCluster
    <2>2. MapHoldsLive'
        BY <1>4 DEF IInv, TypeOK, CtxShape, MapHoldsLive, MarkStale, UpsertCluster
    <2>3. ASSUME Serialized PROVE Exclusive'
        <3>1. LiveIsRegistered'
            BY <1>4, <2>3
            DEF IInv, TypeOK, CtxShape, MapHoldsLive, Exclusive, LiveIsRegistered,
                UniqueOwner, Owner, InProgress, MarkStale, UpsertCluster
        <3>2. UniqueOwner'
            BY <1>4, <2>3
            DEF IInv, TypeOK, CtxShape, MapHoldsLive, Exclusive, LiveIsRegistered,
                UniqueOwner, Owner, InProgress, Quiet, MarkStale, UpsertCluster
        <3>3. OwnerActive'
            BY <1>4, <2>3
            DEF IInv, TypeOK, CtxShape, MapHoldsLive, Exclusive, OwnerActive,
                UniqueOwner, Owner, InProgress, MarkStale, UpsertCluster
        <3>4. OwnerTypes'
            BY <1>4, <2>3
            DEF IInv, TypeOK, CtxShape, MapHoldsLive, Exclusive, OwnerTypes, Wrote,
                UniqueOwner, Owner, InProgress, MarkStale, UpsertCluster
        <3>. QED
            BY <3>1, <3>2, <3>3, <3>4 DEF Exclusive
    <2>. QED
        BY <2>1, <2>2, <2>3 DEF IInv
<1>5. ASSUME NEW i \in Calls, Fetch(i)
      PROVE  IInv'
    <2>1. CtxShape'
        BY <1>5 DEF IInv, TypeOK, CtxShape, MapHoldsLive, Fetch, DiscoveryFailed
    <2>2. MapHoldsLive'
        BY <1>5 DEF IInv, TypeOK, CtxShape, MapHoldsLive, Fetch, DiscoveryFailed
    <2>3. ASSUME Serialized PROVE Exclusive'
        <3>1. LiveIsRegistered'
            BY <1>5, <2>3
            DEF IInv, TypeOK, CtxShape, MapHoldsLive, Exclusive, LiveIsRegistered,
                UniqueOwner, Owner, InProgress, Fetch, DiscoveryFailed
        <3>2. UniqueOwner'
            BY <1>5, <2>3
            DEF IInv, TypeOK, CtxShape, MapHoldsLive, Exclusive, LiveIsRegistered,
                UniqueOwner, Owner, InProgress, Quiet, Fetch, DiscoveryFailed
        <3>3. OwnerActive'
            BY <1>5, <2>3
            DEF IInv, TypeOK, CtxShape, MapHoldsLive, Exclusive, OwnerActive,
                UniqueOwner, Owner, InProgress, Fetch, DiscoveryFailed
        <3>4. OwnerTypes'
            BY <1>5, <2>3
            DEF IInv, TypeOK, CtxShape, MapHoldsLive, Exclusive, OwnerTypes, Wrote,
                UniqueOwner, Owner, InProgress, Fetch, DiscoveryFailed
        <3>. QED
            BY <3>1, <3>2, <3>3, <3>4 DEF Exclusive
    <2>. QED
        BY <2>1, <2>2, <2>3 DEF IInv
<1>6. ASSUME NEW i \in Calls, Clear(i)
      PROVE  IInv'
    <2>1. CtxShape'
        BY <1>6 DEF IInv, TypeOK, CtxShape, MapHoldsLive, Clear, DiscoveryFailed, DeleteResourceTypesForCluster
    <2>2. MapHoldsLive'
        BY <1>6 DEF IInv, TypeOK, CtxShape, MapHoldsLive, Clear, DiscoveryFailed, DeleteResourceTypesForCluster
    <2>3. ASSUME Serialized PROVE Exclusive'
        <3>1. LiveIsRegistered'
            BY <1>6, <2>3
            DEF IInv, TypeOK, CtxShape, MapHoldsLive, Exclusive, LiveIsRegistered,
                UniqueOwner, Owner, InProgress, Clear, DiscoveryFailed, DeleteResourceTypesForCluster
        <3>2. UniqueOwner'
            BY <1>6, <2>3
            DEF IInv, TypeOK, CtxShape, MapHoldsLive, Exclusive, LiveIsRegistered,
                UniqueOwner, Owner, InProgress, Quiet, Clear, DiscoveryFailed, DeleteResourceTypesForCluster
        <3>3. OwnerActive'
            BY <1>6, <2>3
            DEF IInv, TypeOK, CtxShape, MapHoldsLive, Exclusive, OwnerActive,
                UniqueOwner, Owner, InProgress, Clear, DiscoveryFailed, DeleteResourceTypesForCluster
        <3>4. OwnerTypes'
            <4>. SUFFICES ASSUME NEW j \in Calls,
                                 (Live(j) \/ (InProgress(j) /\ pc[j] \in {"populate", "register"}))'
                          PROVE  Wrote(j)'
                BY DEF OwnerTypes
            <4>0. target[i] \in Clusters /\ target[j] \in Clusters
                BY <1>6 DEF IInv, TypeOK, CtxShape, InProgress, Clear, DiscoveryFailed, DeleteResourceTypesForCluster
            <4>1. CASE j = i
                <5>1. CASE pc'[i] = "populate"
                    <6>1. /\ types' = [types EXCEPT ![target[i]] = {}]
                          /\ found' = [found EXCEPT ![i] = {}]
                          /\ target' = target
                        BY <1>6, <5>1 DEF TypeOK, Clear, DiscoveryFailed, DeleteResourceTypesForCluster
                    <6>. QED
                        BY <4>0, <4>1, <6>1 DEF TypeOK, Wrote
                <5>2. CASE pc'[i] # "populate"
                    BY <1>6, <2>3, <4>1, <5>2
                    DEF IInv, TypeOK, Exclusive, OwnerTypes, Wrote, InProgress, Clear, DiscoveryFailed, DeleteResourceTypesForCluster
                <5>. QED
                    BY <5>1, <5>2
            <4>2. CASE j # i /\ ctx[i] # "cancelled"
                <5>1. Owner(i) /\ Owner(j)
                    BY <1>6, <4>2 DEF Clear, DiscoveryFailed, DeleteResourceTypesForCluster,
                       Owner, InProgress, IInv, CtxShape, TypeOK
                <5>2. target[j] # target[i]
                    BY <2>3, <4>2, <5>1 DEF IInv, Exclusive, UniqueOwner
                <5>3. Wrote(j)
                    BY <1>6, <2>3, <4>2
                    DEF IInv, Exclusive, OwnerTypes, Wrote, InProgress, TypeOK, Clear, DiscoveryFailed, DeleteResourceTypesForCluster
                <5>. QED
                    BY <1>6, <4>0, <4>2, <5>2, <5>3 DEF TypeOK, Wrote, Clear, DiscoveryFailed, DeleteResourceTypesForCluster
            <4>3. CASE j # i /\ ctx[i] = "cancelled"
                BY <1>6, <2>3, <4>3
                DEF IInv, TypeOK, Exclusive, OwnerTypes, Wrote, InProgress, Clear, DiscoveryFailed, DeleteResourceTypesForCluster
            <4>. QED
                BY <4>1, <4>2, <4>3
        <3>. QED
            BY <3>1, <3>2, <3>3, <3>4 DEF Exclusive
    <2>. QED
        BY <2>1, <2>2, <2>3 DEF IInv
<1>7. ASSUME NEW i \in Calls, Populate(i)
      PROVE  IInv'
    <2>1. CtxShape'
        BY <1>7 DEF IInv, TypeOK, CtxShape, MapHoldsLive, Populate, UpsertResourceType
    <2>2. MapHoldsLive'
        BY <1>7 DEF IInv, TypeOK, CtxShape, MapHoldsLive, Populate, UpsertResourceType
    <2>3. ASSUME Serialized PROVE Exclusive'
        <3>1. LiveIsRegistered'
            BY <1>7, <2>3
            DEF IInv, TypeOK, CtxShape, MapHoldsLive, Exclusive, LiveIsRegistered,
                UniqueOwner, Owner, InProgress, Populate, UpsertResourceType
        <3>2. UniqueOwner'
            BY <1>7, <2>3
            DEF IInv, TypeOK, CtxShape, MapHoldsLive, Exclusive, LiveIsRegistered,
                UniqueOwner, Owner, InProgress, Quiet, Populate, UpsertResourceType
        <3>3. OwnerActive'
            BY <1>7, <2>3
            DEF IInv, TypeOK, CtxShape, MapHoldsLive, Exclusive, OwnerActive,
                UniqueOwner, Owner, InProgress, Populate, UpsertResourceType
        <3>4. OwnerTypes'
            <4>. SUFFICES ASSUME NEW j \in Calls,
                                 (Live(j) \/ (InProgress(j) /\ pc[j] \in {"populate", "register"}))'
                          PROVE  Wrote(j)'
                BY DEF OwnerTypes
            <4>0. target[i] \in Clusters /\ target[j] \in Clusters
                BY <1>7 DEF IInv, TypeOK, CtxShape, InProgress, Populate, UpsertResourceType
            <4>1. CASE j = i
                <5>1. CASE pc'[i] = "populate"
                    <6>1. Wrote(i) \/ ctx[i] = "cancelled"
                        BY <1>7, <2>3
                        DEF IInv, TypeOK, Exclusive, OwnerTypes, Wrote, InProgress, Populate, UpsertResourceType
                    <6>2. ctx[i] # "cancelled"
                        BY <1>7, <4>1 DEF InProgress, Populate, UpsertResourceType
                    <6>3. target' = target
                        BY <1>7 DEF Populate, UpsertResourceType
                    <6>4. PICK t \in todo[i] :
                             \/ /\ types' = UpsertResourceType(types, target[i], t)
                                /\ found' = [found EXCEPT ![i] = @ \cup {t}]
                             \/ UNCHANGED <<types, found>>
                        BY <1>7 DEF Populate
                    <6>5. Wrote(i)'
                        <7>1. CASE UNCHANGED <<types, found>>
                            BY <6>1, <6>2, <6>3, <7>1 DEF Wrote
                        <7>2. CASE ~ UNCHANGED <<types, found>>
                            <8>1. types'[target[i]] = Upserted(types[target[i]], t)
                                BY <4>0, <6>4, <7>2 DEF TypeOK, UpsertResourceType, Upserted
                            <8>2. found'[i] = found[i] \cup {t}
                                BY <6>4, <7>2 DEF TypeOK
                            <8>3. /\ Upserted(types[target[i]], t) \subseteq found[i] \cup {t}
                                  /\ Resources(Upserted(types[target[i]], t))
                                        = Resources(found[i] \cup {t})
                                BY <6>1, <6>2, UpsertedResources DEF Wrote
                            <8>. QED
                                BY <6>3, <8>1, <8>2, <8>3 DEF Wrote
                        <7>. QED
                            BY <7>1, <7>2
                    <6>. QED
                        BY <4>1, <6>3, <6>5
                <5>2. CASE pc'[i] # "populate"
                    BY <1>7, <5>2 DEF TypeOK, Populate, UpsertResourceType
                <5>. QED
                    BY <5>1, <5>2
            <4>2. CASE j # i /\ ctx[i] # "cancelled"
                <5>1. Owner(i) /\ Owner(j)
                    BY <1>7, <4>2 DEF Populate, UpsertResourceType,
                       Owner, InProgress, IInv, CtxShape, TypeOK
                <5>2. target[j] # target[i]
                    BY <2>3, <4>2, <5>1 DEF IInv, Exclusive, UniqueOwner
                <5>3. Wrote(j)
                    BY <1>7, <2>3, <4>2
                    DEF IInv, Exclusive, OwnerTypes, Wrote, InProgress, TypeOK, Populate, UpsertResourceType
                <5>. QED
                    BY <1>7, <4>0, <4>2, <5>2, <5>3 DEF TypeOK, Wrote, Populate, UpsertResourceType
            <4>3. CASE j # i /\ ctx[i] = "cancelled"
                BY <1>7, <2>3, <4>3
                DEF IInv, TypeOK, Exclusive, OwnerTypes, Wrote, InProgress, Populate, UpsertResourceType
            <4>. QED
                BY <4>1, <4>2, <4>3
        <3>. QED
            BY <3>1, <3>2, <3>3, <3>4 DEF Exclusive
    <2>. QED
        BY <2>1, <2>2, <2>3 DEF IInv
<1>8. ASSUME NEW i \in Calls, Discovered(i)
      PROVE  IInv'
    <2>1. CtxShape'
        BY <1>8 DEF IInv, TypeOK, CtxShape, MapHoldsLive, Discovered
    <2>2. MapHoldsLive'
        BY <1>8 DEF IInv, TypeOK, CtxShape, MapHoldsLive, Discovered
    <2>3. ASSUME Serialized PROVE Exclusive'
        <3>1. LiveIsRegistered'
            BY <1>8, <2>3
            DEF IInv, TypeOK, CtxShape, MapHoldsLive, Exclusive, LiveIsRegistered,
                UniqueOwner, Owner, InProgress, Discovered
        <3>2. UniqueOwner'
            BY <1>8, <2>3
            DEF IInv, TypeOK, CtxShape, MapHoldsLive, Exclusive, LiveIsRegistered,
                UniqueOwner, Owner, InProgress, Quiet, Discovered
        <3>3. OwnerActive'
            BY <1>8, <2>3
            DEF IInv, TypeOK, CtxShape, MapHoldsLive, Exclusive, OwnerActive,
                UniqueOwner, Owner, InProgress, Discovered
        <3>4. OwnerTypes'
            BY <1>8, <2>3
            DEF IInv, TypeOK, CtxShape, MapHoldsLive, Exclusive, OwnerTypes, Wrote,
                UniqueOwner, Owner, InProgress, Discovered
        <3>. QED
            BY <3>1, <3>2, <3>3, <3>4 DEF Exclusive
    <2>. QED
        BY <2>1, <2>2, <2>3 DEF IInv
<1>9. ASSUME NEW i \in Calls, Register(i)
      PROVE  IInv'
    <2>1. CtxShape'
        BY <1>9 DEF IInv, TypeOK, CtxShape, MapHoldsLive, Register
    <2>2. MapHoldsLive'
        BY <1>9 DEF IInv, TypeOK, CtxShape, MapHoldsLive, Register
    <2>3. ASSUME Serialized PROVE Exclusive'
        <3>1. LiveIsRegistered'
            BY <1>9, <2>3
            DEF IInv, TypeOK, CtxShape, MapHoldsLive, Exclusive, LiveIsRegistered,
                UniqueOwner, Owner, InProgress, Register
        <3>2. UniqueOwner'
            BY <1>9, <2>3
            DEF IInv, TypeOK, CtxShape, MapHoldsLive, Exclusive, LiveIsRegistered,
                UniqueOwner, Owner, InProgress, Quiet, Register
        <3>3. OwnerActive'
            BY <1>9, <2>3
            DEF IInv, TypeOK, CtxShape, MapHoldsLive, Exclusive, OwnerActive,
                UniqueOwner, Owner, InProgress, Register
        <3>4. OwnerTypes'
            BY <1>9, <2>3
            DEF IInv, TypeOK, CtxShape, MapHoldsLive, Exclusive, OwnerTypes, Wrote,
                UniqueOwner, Owner, InProgress, Register
        <3>. QED
            BY <3>1, <3>2, <3>3, <3>4 DEF Exclusive
    <2>. QED
        BY <2>1, <2>2, <2>3 DEF IInv
<1>10. ASSUME NEW i \in Calls, HandleCRDEvent(i)
      PROVE  IInv'
    <2>1. CtxShape'
        BY <1>10 DEF IInv, TypeOK, CtxShape, MapHoldsLive, HandleCRDEvent, Refresh
    <2>2. MapHoldsLive'
        BY <1>10 DEF IInv, TypeOK, CtxShape, MapHoldsLive, HandleCRDEvent, Refresh
    <2>3. ASSUME Serialized PROVE Exclusive'
        <3>1. LiveIsRegistered'
            BY <1>10, <2>3
            DEF IInv, TypeOK, CtxShape, MapHoldsLive, Exclusive, LiveIsRegistered,
                UniqueOwner, Owner, InProgress, HandleCRDEvent, Refresh
        <3>2. UniqueOwner'
            BY <1>10, <2>3
            DEF IInv, TypeOK, CtxShape, MapHoldsLive, Exclusive, LiveIsRegistered,
                UniqueOwner, Owner, InProgress, Quiet, HandleCRDEvent, Refresh
        <3>3. OwnerActive'
            BY <1>10, <2>3
            DEF IInv, TypeOK, CtxShape, MapHoldsLive, Exclusive, OwnerActive,
                UniqueOwner, Owner, InProgress, HandleCRDEvent, Refresh
        <3>4. OwnerTypes'
            BY <1>10, <2>3
            DEF IInv, TypeOK, CtxShape, MapHoldsLive, Exclusive, OwnerTypes, Wrote,
                UniqueOwner, Owner, InProgress, HandleCRDEvent, Refresh
        <3>. QED
            BY <3>1, <3>2, <3>3, <3>4 DEF Exclusive
    <2>. QED
        BY <2>1, <2>2, <2>3 DEF IInv
<1>11. ASSUME NEW i \in Calls, ResyncCRDs(i)
      PROVE  IInv'
    <2>1. CtxShape'
        BY <1>11 DEF IInv, TypeOK, CtxShape, MapHoldsLive, ResyncCRDs, Refresh
    <2>2. MapHoldsLive'
        BY <1>11 DEF IInv, TypeOK, CtxShape, MapHoldsLive, ResyncCRDs, Refresh
    <2>3. ASSUME Serialized PROVE Exclusive'
        <3>1. LiveIsRegistered'
            BY <1>11, <2>3
            DEF IInv, TypeOK, CtxShape, MapHoldsLive, Exclusive, LiveIsRegistered,
                UniqueOwner, Owner, InProgress, ResyncCRDs, Refresh
        <3>2. UniqueOwner'
            BY <1>11, <2>3
            DEF IInv, TypeOK, CtxShape, MapHoldsLive, Exclusive, LiveIsRegistered,
                UniqueOwner, Owner, InProgress, Quiet, ResyncCRDs, Refresh
        <3>3. OwnerActive'
            BY <1>11, <2>3
            DEF IInv, TypeOK, CtxShape, MapHoldsLive, Exclusive, OwnerActive,
                UniqueOwner, Owner, InProgress, ResyncCRDs, Refresh
        <3>4. OwnerTypes'
            BY <1>11, <2>3
            DEF IInv, TypeOK, CtxShape, MapHoldsLive, Exclusive, OwnerTypes, Wrote,
                UniqueOwner, Owner, InProgress, ResyncCRDs, Refresh
        <3>. QED
            BY <3>1, <3>2, <3>3, <3>4 DEF Exclusive
    <2>. QED
        BY <2>1, <2>2, <2>3 DEF IInv
<1>12. ASSUME NEW i \in Calls, WindowExpires(i)
      PROVE  IInv'
    BY <1>12, InvFrame DEF WindowExpires
<1>13. ASSUME NEW c \in Clusters, NEW t \in CRDTypes, ChangeCRD(c, t)
      PROVE  IInv'
    BY <1>13, InvFrame DEF ChangeCRD
<1>14. ASSUME Tick
      PROVE  IInv'
    BY <1>14, InvFrame DEF Tick
<1>15. ASSUME Crash
      PROVE  IInv'
    <2>1. CtxShape'
        BY <1>15 DEF IInv, TypeOK, CtxShape, MapHoldsLive, Crash
    <2>2. MapHoldsLive'
        BY <1>15 DEF IInv, TypeOK, CtxShape, MapHoldsLive, Crash
    <2>3. ASSUME Serialized PROVE Exclusive'
        <3>1. LiveIsRegistered'
            BY <1>15, <2>3
            DEF IInv, TypeOK, CtxShape, MapHoldsLive, Exclusive, LiveIsRegistered,
                UniqueOwner, Owner, InProgress, Crash
        <3>2. UniqueOwner'
            BY <1>15, <2>3
            DEF IInv, TypeOK, CtxShape, MapHoldsLive, Exclusive, LiveIsRegistered,
                UniqueOwner, Owner, InProgress, Quiet, Crash
        <3>3. OwnerActive'
            BY <1>15, <2>3
            DEF IInv, TypeOK, CtxShape, MapHoldsLive, Exclusive, OwnerActive,
                UniqueOwner, Owner, InProgress, Crash
        <3>4. OwnerTypes'
            BY <1>15, <2>3
            DEF IInv, TypeOK, CtxShape, MapHoldsLive, Exclusive, OwnerTypes, Wrote,
                UniqueOwner, Owner, InProgress, Crash
        <3>. QED
            BY <3>1, <3>2, <3>3, <3>4 DEF Exclusive
    <2>. QED
        BY <2>1, <2>2, <2>3 DEF IInv
<1>16. CASE UNCHANGED vars
    BY <1>16, InvFrame DEF vars
<1>. QED
    BY <1>1, <1>2, <1>3, <1>4, <1>5, <1>6, <1>7, <1>8, <1>9, <1>10, <1>11,
       <1>12, <1>13, <1>14, <1>15, <1>16
    DEF Next, Step, Watch, Discover

\* The inductive invariant holds in every reachable state.
LEMMA InvCorrect == Spec => []IInv
    BY InvInit, InvStep, PTL DEF Spec

\* With calls for a cluster serialised, no failure, crash or interleaving of
\* Engage, Disengage and CRD refreshes leaves two sets of informers at work.
THEOREM OneLiveRunCorrect == Serialized => (Spec => []OneLiveRun)
<1>. SUFFICES ASSUME Serialized PROVE Spec => []OneLiveRun
    OBVIOUS
<1>1. IInv => OneLiveRun
    BY DEF IInv, Exclusive, UniqueOwner, Owner, OneLiveRun
<1>. QED
    BY <1>1, InvCorrect, PTL

\* ... or lets the clusters table call a cluster stale while its informers run.
THEOREM LiveRunIsActiveCorrect == Serialized => (Spec => []LiveRunIsActive)
<1>. SUFFICES ASSUME Serialized PROVE Spec => []LiveRunIsActive
    OBVIOUS
<1>1. IInv => LiveRunIsActive
    BY DEF IInv, Exclusive, OwnerActive, LiveRunIsActive
<1>. QED
    BY <1>1, InvCorrect, PTL

\* ... or leaves rows of a cancelled discovery in, or missing from, the table
\* of the run that replaced it.
THEOREM DiscoveryIntactCorrect == Serialized => (Spec => []DiscoveryIntact)
<1>. SUFFICES ASSUME Serialized PROVE Spec => []DiscoveryIntact
    OBVIOUS
<1>1. IInv => DiscoveryIntact
    BY DEF IInv, Exclusive, OwnerTypes, Wrote, DiscoveryIntact
<1>. QED
    BY <1>1, InvCorrect, PTL

----------------------------------------------------------------------------
\* SyncController implements Lifecycle when calls for one cluster are
\* serialised.

Up(c) == \E i \in Calls : Live(i) /\ target[i] = c

\* The phase of a cluster with a call under way, by the call's location.
At(l) == IF l = "markActive" THEN "engaging"
         ELSE IF l = "markStale" THEN "disengaging" ELSE "starting"

\* A cluster's phase is that of its one call, or whether a run lives.
PhaseShape ==
    \A c \in Clusters :
        /\ \A i \in Calls : target[i] = c /\ InProgress(i) => Phase(c) = At(pc[i])
        /\ (\A i \in Calls : target[i] = c => ~InProgress(i))
              => Phase(c) = IF Up(c) THEN "up" ELSE "down"

\* One owner per cluster makes the refinement mapping a function of it.
LEMMA PhaseShaped == Serialized /\ IInv => PhaseShape
<1>. SUFFICES ASSUME Serialized, IInv, NEW c \in Clusters
              PROVE  /\ \A i \in Calls : target[i] = c /\ InProgress(i) => Phase(c) = At(pc[i])
                     /\ (\A i \in Calls : target[i] = c => ~InProgress(i))
                           => Phase(c) = IF Up(c) THEN "up" ELSE "down"
    BY DEF PhaseShape
<1>. DEFINE at == {pc[i] : i \in {j \in Calls : target[j] = c /\ InProgress(j)}}
<1>1. ASSUME NEW i \in Calls, target[i] = c, InProgress(i)
      PROVE  Phase(c) = At(pc[i])
    <2>1. \A j \in Calls : target[j] = c /\ InProgress(j) => j = i
        BY <1>1 DEF IInv, Exclusive, UniqueOwner, Owner
    <2>2. at = {pc[i]}
        BY <1>1, <2>1
    <2>. HIDE DEF at
    <2>. QED
        BY <2>2 DEF Phase, At, at
<1>2. ASSUME \A i \in Calls : target[i] = c => ~InProgress(i)
      PROVE  Phase(c) = IF Up(c) THEN "up" ELSE "down"
    <2>1. at = {}
        BY <1>2
    <2>. QED
        BY <2>1 DEF Phase, Up
<1>. QED
    BY <1>1, <1>2

\* Initially every cluster is down and without a row.
LEMMA LifeInit == Serialized /\ Init => Life!Init
<1>. SUFFICES ASSUME Serialized, Init PROVE Life!Init
    OBVIOUS
<1>1. PhaseShape
    BY InvInit, PhaseShaped
<1>2. ASSUME NEW c \in Clusters PROVE Phase(c) = "down"
    BY <1>1 DEF PhaseShape, Up, Live, InProgress, Init
<1>. QED
    BY <1>2 DEF Life!Init, Init, NoRow

\* A step that moves one cluster and leaves the others where they are.
LEMMA Entered ==
    ASSUME NEW c \in Clusters, NEW from, NEW to, Phase(c) \in from, Phase(c)' = to,
           \A d \in Clusters \ {c} : Phase(d)' = Phase(d)
    PROVE  Life!Enter(c, from, to)
BY DEF Life!Enter

\* A cluster nothing happens to stays in its phase.
LEMMA Unmoved ==
    ASSUME PhaseShape, PhaseShape', NEW d \in Clusters,
           \A j \in Calls : /\ target[j] = d /\ InProgress(j)
                                 <=> (target[j] = d /\ InProgress(j))'
                            /\ target[j] = d /\ InProgress(j) => At(pc[j])' = At(pc[j])
                            /\ target[j] = d /\ Live(j) <=> (target[j] = d /\ Live(j))'
    PROVE  Phase(d)' = Phase(d)
<1>1. CASE \E j \in Calls : target[j] = d /\ InProgress(j)
    <2>. PICK j \in Calls : target[j] = d /\ InProgress(j)
        BY <1>1
    <2>. QED
        BY DEF PhaseShape
<1>2. CASE ~\E j \in Calls : target[j] = d /\ InProgress(j)
    <2>1. Up(d)' <=> Up(d)
        BY DEF Up
    <2>. QED
        BY <1>2, <2>1 DEF PhaseShape
<1>. QED
    BY <1>1, <1>2

\* A step of a call under way moves its cluster alone, to where the call is
\* next, or up if it leaves a run behind, or down.
LEMMA Moved ==
    ASSUME Serialized, IInv, PhaseShape, PhaseShape', NEW i \in Calls, InProgress(i),
           target' = target,
           \A j \in Calls \ {i} : pc'[j] = pc[j] /\ ctx'[j] = ctx[j]
    PROVE  /\ target[i] \in Clusters
           /\ Phase(target[i]) = At(pc[i])
           /\ \A d \in Clusters \ {target[i]} : Phase(d)' = Phase(d)
           /\ InProgress(i)' => Phase(target[i])' = At(pc'[i])
           /\ ~InProgress(i)' => Phase(target[i])' = IF Live(i)' THEN "up" ELSE "down"
<1>1. target[i] \in Clusters
    BY DEF IInv, TypeOK, InProgress
<1>2. \A j \in Calls \ {i} : target[j] = target[i] => ~InProgress(j) /\ ~Live(j)
    BY DEF IInv, Exclusive, UniqueOwner, Owner
<1>3. \A j \in Calls \ {i} : (InProgress(j)' <=> InProgress(j)) /\ (Live(j)' <=> Live(j))
    BY DEF InProgress, Live
<1>4. Phase(target[i]) = At(pc[i])
    BY <1>1 DEF PhaseShape
<1>5. ASSUME NEW d \in Clusters \ {target[i]} PROVE Phase(d)' = Phase(d)
    BY <1>3, <1>5, Unmoved DEF At
<1>6. ASSUME InProgress(i)' PROVE Phase(target[i])' = At(pc'[i])
    BY <1>1, <1>6 DEF PhaseShape, At
<1>7. ASSUME ~InProgress(i)' PROVE Phase(target[i])' = IF Live(i)' THEN "up" ELSE "down"
    <2>1. \A j \in Calls : target'[j] = target[i] => ~InProgress(j)'
        BY <1>2, <1>3, <1>7
    <2>2. Up(target[i])' <=> Live(i)'
        BY <1>2, <1>3 DEF Up
    <2>. QED
        BY <1>1, <2>1, <2>2 DEF PhaseShape
<1>. QED
    BY <1>1, <1>4, <1>5, <1>6, <1>7

\* The critical section that opens a call takes its cluster out of rest.
LEMMA Opened ==
    ASSUME Serialized, IInv, IInv', PhaseShape, PhaseShape',
           NEW i \in Calls, NEW c \in Clusters, NEW l \in {"markActive", "markStale"},
           pc[i] = "idle", Quiet(c), CancelExisting(c),
           pc' = [pc EXCEPT ![i] = l], target' = [target EXCEPT ![i] = c]
    PROVE  Life!Enter(c, {"down", "up"}, At(l))
<1>1. Phase(c) \in {"down", "up"}
    BY DEF PhaseShape, Quiet
<1>2. Phase(c)' = At(l)
    BY DEF PhaseShape, InProgress, IInv, TypeOK, At
<1>3. ASSUME NEW d \in Clusters \ {c} PROVE Phase(d)' = Phase(d)
    <2>1. ASSUME NEW j \in Calls
          PROVE  /\ target[j] = d /\ InProgress(j) <=> (target[j] = d /\ InProgress(j))'
                 /\ target[j] = d /\ InProgress(j) => At(pc[j])' = At(pc[j])
                 /\ target[j] = d /\ Live(j) <=> (target[j] = d /\ Live(j))'
        <3>1. CASE j = i
            BY <1>3, <3>1 DEF IInv, CtxShape, TypeOK, InProgress, Live
        <3>2. CASE j # i
            <4>1. pc'[j] = pc[j] /\ target'[j] = target[j]
                BY <3>2 DEF IInv, TypeOK
            <4>2. target[j] = d => ctx'[j] = ctx[j]
                BY <1>3, ControllerAssumption
                DEF CancelExisting, IInv, TypeOK, MapHoldsLive, watcher
            <4>. QED
                BY <4>1, <4>2 DEF InProgress, Live, At
        <3>. QED
            BY <3>1, <3>2
    <2>. QED
        BY <2>1, Unmoved
<1>. QED
    BY <1>1, <1>2, <1>3, Entered

\* What the call writes into its cluster's row.
LEMMA Recorded ==
    ASSUME TypeOK, NEW c \in Clusters, NEW s,
           clusters' = UpsertCluster(clusters, c, s, now)
    PROVE  Life!Record(c, s)
BY DEF Life!Record, UpsertCluster, TypeOK, ClusterRow
----------------------------------------------------------------------------
\* A step that changes neither a call's place nor a row is a stutter.
LEMMA Stutter ==
    ASSUME PhaseShape, PhaseShape', clusters' = clusters, target' = target,
           \A j \in Calls : /\ InProgress(j)' <=> InProgress(j)
                            /\ InProgress(j) => At(pc'[j]) = At(pc[j])
                            /\ Live(j)' <=> Live(j)
    PROVE  UNCHANGED Life!vars
<1>1. ASSUME NEW d \in Clusters PROVE Phase(d)' = Phase(d)
    BY Unmoved DEF At
<1>. QED
    BY <1>1 DEF Life!vars

\* A failing step of a call under way takes its cluster down.
LEMMA Failed ==
    ASSUME Serialized, IInv, PhaseShape, PhaseShape', NEW i \in Calls, InProgress(i),
           target' = target, clusters' = clusters, ctx' = ctx,
           pc' = [pc EXCEPT ![i] = "returned"]
    PROVE  Life!Fail(target[i])
<1>1. \A j \in Calls \ {i} : pc'[j] = pc[j] /\ ctx'[j] = ctx[j]
    BY DEF IInv, TypeOK
<1>2. ~InProgress(i)' /\ ~Live(i)'
    BY DEF IInv, TypeOK, CtxShape, InProgress, Live
<1>3. At(pc[i]) \in {"engaging", "starting", "disengaging"}
    BY DEF At
<1>4. Life!Enter(target[i], {"engaging", "starting", "disengaging"}, "down")
    BY <1>1, <1>2, <1>3, Moved, Entered
<1>. QED
    BY <1>4 DEF Life!Fail

\* A step of discovery is a stutter, or the failure of the call that runs it.
LEMMA Discovering ==
    ASSUME Serialized, IInv, PhaseShape, PhaseShape', NEW i \in Calls,
           pc[i] \in {"fetch", "clear", "populate"},
           clusters' = clusters, target' = target, ctx' = ctx,
           NEW l \in {"clear", "populate", "register", "watching", "returned"},
           pc' = [pc EXCEPT ![i] = l],
           ctx[i] = "none" => l # "watching",
           l = "register" => ctx[i] = "none"
    PROVE  UNCHANGED Life!vars \/ Life!Fail(target[i])
<1>1. CASE ctx[i] = "none" /\ l = "returned"
    BY <1>1, Failed DEF InProgress
<1>2. CASE ~(ctx[i] = "none" /\ l = "returned")
    <2>1. ASSUME NEW j \in Calls
          PROVE  /\ InProgress(j)' <=> InProgress(j)
                 /\ InProgress(j) => At(pc'[j]) = At(pc[j])
                 /\ Live(j)' <=> Live(j)
        BY <1>2 DEF IInv, TypeOK, InProgress, Live, At
    <2>. QED
        BY <2>1, Stutter
<1>. QED
    BY <1>1, <1>2

\* Every step of the controller is a step of Lifecycle or a stutter.
LEMMA LifeStep ==
    ASSUME Serialized, IInv, IInv', PhaseShape, PhaseShape', [Next]_vars
    PROVE  [Life!Next]_(Life!vars)
<1>. TypeOK
    BY DEF IInv
<1>. USE DEF tables, disc, watcher, env
<1>1. ASSUME NEW i \in Calls, NEW c \in Clusters, BeginEngage(i, c)
      PROVE  Life!BeginEngage(c)
    <2>1. Life!Enter(c, {"down", "up"}, At("markActive"))
        BY <1>1, Opened DEF BeginEngage
    <2>2. UNCHANGED [d \in Clusters |-> clusters[d].status]
        BY <1>1 DEF BeginEngage
    <2>. QED
        BY <2>1, <2>2 DEF Life!BeginEngage, At
<1>2. ASSUME NEW i \in Calls, NEW c \in Clusters, BeginDisengage(i, c)
      PROVE  Life!BeginDisengage(c)
    <2>1. Life!Enter(c, {"down", "up"}, At("markStale"))
        BY <1>2, Opened DEF BeginDisengage
    <2>2. UNCHANGED [d \in Clusters |-> clusters[d].status]
        BY <1>2 DEF BeginDisengage
    <2>. QED
        BY <2>1, <2>2 DEF Life!BeginDisengage, At
<1>3. ASSUME NEW i \in Calls, MarkActive(i)
      PROVE  Life!Activate(target[i]) \/ Life!Fail(target[i])
    <2>1. InProgress(i) /\ target' = target /\ ctx' = ctx
        BY <1>3 DEF MarkActive, InProgress
    <2>2. CASE pc' = [pc EXCEPT ![i] = "returned"]
        <3>1. clusters' = clusters
            BY <1>3, <2>2 DEF MarkActive, TypeOK
        <3>. QED
            BY <2>1, <2>2, <3>1, Failed
    <2>3. CASE pc' = [pc EXCEPT ![i] = "fetch"]
        <3>1. clusters' = UpsertCluster(clusters, target[i], "active", now)
            BY <1>3, <2>3 DEF MarkActive, TypeOK
        <3>2. \A j \in Calls \ {i} : pc'[j] = pc[j] /\ ctx'[j] = ctx[j]
            BY <2>1, <2>3 DEF TypeOK
        <3>3. InProgress(i)'
            BY <1>3, <2>1, <2>3 DEF IInv, TypeOK, CtxShape, MarkActive, InProgress
        <3>4. At(pc[i]) = "engaging" /\ At(pc'[i]) = "starting"
            BY <1>3, <2>3 DEF At, MarkActive, TypeOK
        <3>5. Life!Enter(target[i], {"engaging"}, "starting")
            BY <2>1, <3>2, <3>3, <3>4, Moved, Entered
        <3>6. Life!Record(target[i], "active")
            BY <2>1, <3>1, <3>2, Moved, Recorded
        <3>. QED
            BY <3>5, <3>6 DEF Life!Activate
    <2>. QED
        BY <1>3, <2>2, <2>3 DEF MarkActive
<1>4. ASSUME NEW i \in Calls, MarkStale(i)
      PROVE  Life!Retire(target[i]) \/ Life!Fail(target[i])
    <2>1. /\ InProgress(i) /\ target' = target /\ ctx' = ctx
          /\ pc' = [pc EXCEPT ![i] = "returned"]
        BY <1>4 DEF MarkStale, InProgress
    <2>2. CASE clusters' = clusters
        BY <2>1, <2>2, Failed
    <2>3. CASE clusters' = UpsertCluster(clusters, target[i], "stale", now)
        <3>1. \A j \in Calls \ {i} : pc'[j] = pc[j] /\ ctx'[j] = ctx[j]
            BY <2>1 DEF TypeOK
        <3>2. ~InProgress(i)' /\ ~Live(i)'
            BY <1>4, <2>1 DEF IInv, TypeOK, CtxShape, MarkStale, InProgress, Live
        <3>3. At(pc[i]) = "disengaging"
            BY <1>4 DEF At, MarkStale
        <3>4. Life!Enter(target[i], {"disengaging"}, "down")
            BY <2>1, <3>1, <3>2, <3>3, Moved, Entered
        <3>5. Life!Record(target[i], "stale")
            BY <2>1, <2>3, <3>1, Moved, Recorded
        <3>. QED
            BY <3>4, <3>5 DEF Life!Retire
    <2>. QED
        BY <1>4, <2>2, <2>3 DEF MarkStale
<1>5. ASSUME NEW i \in Calls, Fetch(i)
      PROVE  UNCHANGED Life!vars \/ Life!Fail(target[i])
    BY <1>5, Discovering DEF Fetch, DiscoveryFailed, Live
<1>6. ASSUME NEW i \in Calls, Clear(i)
      PROVE  UNCHANGED Life!vars \/ Life!Fail(target[i])
    BY <1>6, Discovering DEF Clear, DiscoveryFailed, Live
<1>7. ASSUME NEW i \in Calls, Populate(i)
      PROVE  UNCHANGED Life!vars
    <2>1. pc' = pc /\ ctx' = ctx /\ target' = target /\ clusters' = clusters
        BY <1>7 DEF Populate
    <2>. QED
        BY <2>1, Stutter DEF InProgress, Live
<1>8. ASSUME NEW i \in Calls, Discovered(i)
      PROVE  UNCHANGED Life!vars \/ Life!Fail(target[i])
    BY <1>8, Discovering DEF Discovered, Live
<1>9. ASSUME NEW i \in Calls, Register(i)
      PROVE  Life!ComeUp(target[i]) \/ Life!Fail(target[i])
    <2>1. InProgress(i) /\ target' = target /\ clusters' = clusters
        BY <1>9 DEF Register, InProgress
    <2>2. CASE pc' = [pc EXCEPT ![i] = "returned"]
        <3>1. ctx' = ctx
            BY <1>9, <2>2 DEF Register, TypeOK
        <3>. QED
            BY <2>1, <2>2, <3>1, Failed
    <2>3. CASE pc' = [pc EXCEPT ![i] = "watching"]
        <3>1. ctx' = [ctx EXCEPT ![i] = "live"]
            BY <1>9, <2>3 DEF Register, TypeOK
        <3>2. \A j \in Calls \ {i} : pc'[j] = pc[j] /\ ctx'[j] = ctx[j]
            BY <2>3, <3>1 DEF TypeOK
        <3>3. ~InProgress(i)' /\ Live(i)'
            BY <2>3, <3>1 DEF TypeOK, InProgress, Live
        <3>4. At(pc[i]) = "starting"
            BY <1>9 DEF At, Register
        <3>5. Life!Enter(target[i], {"starting"}, "up")
            BY <2>1, <3>2, <3>3, <3>4, Moved, Entered
        <3>. QED
            BY <2>1, <3>5 DEF Life!ComeUp
    <2>. QED
        BY <1>9, <2>2, <2>3 DEF Register
<1>10. ASSUME NEW i \in Calls, HandleCRDEvent(i) \/ ResyncCRDs(i)
       PROVE  UNCHANGED Life!vars
    <2>1. /\ Live(i) /\ ctx' = ctx /\ target' = target /\ clusters' = clusters
          /\ \A j \in Calls \ {i} : pc'[j] = pc[j]
        BY <1>10 DEF HandleCRDEvent, ResyncCRDs, Refresh, TypeOK
    <2>2. ~InProgress(i) /\ ~InProgress(i)'
        BY <1>10, <2>1 DEF HandleCRDEvent, ResyncCRDs, Refresh, InProgress, Live, TypeOK
    <2>. QED
        BY <2>1, <2>2, Stutter DEF InProgress, Live
<1>11. CASE UNCHANGED <<clusters, pc, ctx, target>>
    BY <1>11, Stutter DEF InProgress, Live
<1>12. CASE Crash
    <2>1. ASSUME NEW d \in Clusters PROVE Phase(d)' = "down"
        BY <1>12 DEF Crash, PhaseShape, Up, InProgress, Live, TypeOK
    <2>2. clusters' = clusters
        BY <1>12 DEF Crash
    <2>. QED
        BY <2>1, <2>2 DEF Life!Crash, Life!Next
<1>13. ASSUME NEW i \in Calls, Step(i) PROVE target[i] \in Clusters
    BY <1>13 DEF Step, Discover, MarkActive, MarkStale, Fetch, Clear, Populate,
                 Discovered, Register, TypeOK
<1>14. ASSUME NEW i \in Calls, Step(i) \/ Watch(i)
       PROVE  [Life!Next]_(Life!vars)
    <2>1. CASE Step(i)
        <3>1. \/ Life!Activate(target[i]) \/ Life!Retire(target[i])
              \/ Life!ComeUp(target[i]) \/ Life!Fail(target[i])
              \/ UNCHANGED Life!vars
            BY <2>1, <1>3, <1>4, <1>5, <1>6, <1>7, <1>8, <1>9 DEF Step, Discover
        <3>. QED
            BY <2>1, <3>1, <1>13
            DEF Life!Next, Life!Activate, Life!Retire, Life!ComeUp, Life!Fail,
                Life!Enter, Life!Record
    <2>2. CASE Watch(i)
        BY <2>2, <1>10, <1>11 DEF Watch, WindowExpires
    <2>. QED
        BY <1>14, <2>1, <2>2
<1>15. CASE Tick \/ (\E c \in Clusters, t \in CRDTypes : ChangeCRD(c, t)) \/ UNCHANGED vars
    BY <1>15, <1>11 DEF Tick, ChangeCRD, vars
<1>16. ASSUME NEW i \in Calls, NEW c \in Clusters, BeginEngage(i, c) \/ BeginDisengage(i, c)
       PROVE  Life!Next
    BY <1>16, <1>1, <1>2 DEF Life!Next
<1>. QED
    BY <1>12, <1>14, <1>15, <1>16 DEF Next

\* Engage, Disengage, discovery and the CRD watcher together implement the
\* life of a cluster, when calls for one cluster are serialised: a cluster
\* comes up only after its row was marked active, stays up until the next
\* call or the end of the process, and is called stale only by Disengage.
THEOREM LifecycleImplemented == Serialized => (Spec => ImplementsLifecycle)
<1>. SUFFICES ASSUME Serialized PROVE Spec => Life!Spec
    BY DEF ImplementsLifecycle
<1>1. Init => Life!Init
    BY LifeInit
<1>2. IInv => PhaseShape
    BY PhaseShaped
<1>3. IInv /\ IInv' /\ PhaseShape /\ PhaseShape' /\ [Next]_vars => [Life!Next]_(Life!vars)
    BY LifeStep
<1>. QED
    BY <1>1, <1>2, <1>3, InvCorrect, PTL DEF Spec, Life!Spec
=============================================================================
