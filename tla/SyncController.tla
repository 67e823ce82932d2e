--------------------------- MODULE SyncController ---------------------------
(***************************************************************************)
(* The sync controller of internal/sync/controller.go and the discovery it *)
(* runs (internal/sync/discovery.go).                                      *)
(*                                                                         *)
(* An element of Calls is one call of Engage or Disengage.  A successful   *)
(* Engage leaves goroutines behind (runInformers, watchCRDs) that live as  *)
(* long as the context it created; they go on under the identity of the    *)
(* call, so a call that engaged is also called a run.  RunDiscovery is     *)
(* executed both by Engage and, later, by the run's CRD watcher; it is the *)
(* same steps, told apart by whether the run's context exists yet.         *)
(*                                                                         *)
(* sc.mu is held only around the map updates, never across a store call,   *)
(* so every critical section and every store call is a step of its own.    *)
(***************************************************************************)
EXTENDS Store, FiniteSets

CONSTANTS
    Clusters,     \* cluster names
    Calls,        \* calls of Engage and Disengage (bounds their number)
    None,         \* no cluster, no run
    Types,        \* group-version-resources an API server may serve
    CRDTypes,     \* those that exist through a CustomResourceDefinition
    Watchable,    \* those with the verbs list and watch
    Blacklisted,  \* group-resources the blacklist excludes
    Serialized,   \* calls for one cluster never overlap
    MaxFaults,    \* bound on failing store and discovery requests
    MaxChanges,   \* bound on CRD creations and deletions
    MaxTime       \* bound on the clock

ASSUME ControllerAssumption ==
    /\ None \notin Clusters \cup Calls
    /\ CRDTypes \subseteq Types
    /\ IsFiniteSet(Types)
    /\ Serialized \in BOOLEAN
    /\ MaxFaults \in Nat /\ MaxChanges \in Nat /\ MaxTime \in Nat

VARIABLES
    clusters,     \* table clusters
    types,        \* table resource_types
    registered,   \* sc.clusters: the run the map holds for a cluster
    pc,           \* where a call, or the CRD watcher it left behind, is
    target,       \* the clusterName argument of a call
    ctx,          \* the context Engage creates for its goroutines
    todo,         \* RunDiscovery: fetched resources not yet handled
    found,        \* RunDiscovery: the types it upserted
    watched,      \* runInformers: the resources the run has informers for
    events,       \* watchCRDs: CRD notifications waiting for the handler
    window,       \* watchCRDs: the runs less than 30 s after their lastRefresh
    served,       \* the resources each API server serves
    faults,       \* failed requests so far
    changes,      \* CRD changes so far
    now           \* the wall clock

tables  == <<clusters, types>>
disc    == <<todo, found>>
watcher == <<events, window>>
env     == <<served, changes, now>>
vars    == <<clusters, types, registered, pc, target, ctx, todo, found,
             watched, events, window, served, faults, changes, now>>

\* Locations: markActive .. register are Engage's, markStale is Disengage's,
\* fetch, clear, populate are RunDiscovery's; "watching" is a run whose CRD
\* handler is idle, "returned" a call that left no goroutine behind.
Location == {"idle", "markActive", "fetch", "clear", "populate", "register",
             "watching", "markStale", "returned"}

TypeOK ==
    /\ clusters \in [Clusters -> ClusterRow]
    /\ types \in [Clusters -> SUBSET Types]
    /\ registered \in [Clusters -> Calls \cup {None}]
    /\ pc \in [Calls -> Location]
    /\ target \in [Calls -> Clusters \cup {None}]
    /\ \A i \in Calls : pc[i] # "idle" => target[i] \in Clusters
    /\ ctx \in [Calls -> {"none", "live", "cancelled"}]
    /\ todo \in [Calls -> SUBSET Types]
    /\ found \in [Calls -> SUBSET Types]
    /\ watched \in [Calls -> SUBSET Types]
    /\ events \in [Calls -> Nat]
    /\ window \in SUBSET Calls
    /\ served \in [Clusters -> SUBSET Types]
    /\ faults \in 0..MaxFaults
    /\ changes \in 0..MaxChanges
    /\ now \in 0..MaxTime

Init ==
    /\ clusters = [c \in Clusters |-> NoRow]
    /\ types = [c \in Clusters |-> {}]
    /\ registered = [c \in Clusters |-> None]
    /\ pc = [i \in Calls |-> "idle"]
    /\ target = [i \in Calls |-> None]
    /\ ctx = [i \in Calls |-> "none"]
    /\ todo = [i \in Calls |-> {}]
    /\ found = [i \in Calls |-> {}]
    /\ watched = [i \in Calls |-> {}]
    /\ events = [i \in Calls |-> 0]
    /\ window = {}
    /\ served \in [Clusters -> {S \in SUBSET Types : Types \ CRDTypes \subseteq S}]
    /\ faults = 0
    /\ changes = 0
    /\ now = 0

----------------------------------------------------------------------------
\* Engage or Disengage i has been called and has not returned to its caller.
InProgress(i) ==
    \/ pc[i] \in {"markActive", "markStale", "register"}
    \/ pc[i] \in {"fetch", "clear", "populate"} /\ ctx[i] = "none"

\* No call for cluster c is on its way.
Quiet(c) == \A i \in Calls : target[i] = c => ~InProgress(i)

\* Run i is alive: its informers and its CRD watcher are running.
Live(i) == ctx[i] = "live"

\* A request fails, which it may do MaxFaults times.
Fault == faults < MaxFaults /\ faults' = faults + 1

\* Mutant: the map entry is deleted but existing.cancel() is forgotten.
ForgetWithoutCancel(c) ==
    /\ registered' = [registered EXCEPT ![c] = None]
    /\ UNCHANGED <<ctx, watcher>>

\* The critical section that opens Engage and Disengage: cancel and forget
\* the run the map holds for the cluster.  The run's CRD informer stops and
\* drops its notifications; a refresh already begun goes on.
CancelExisting(c) ==
    LET old == registered[c]
    IN  /\ registered' = [registered EXCEPT ![c] = None]
        /\ IF old = None
           THEN UNCHANGED <<ctx, watcher>>
           ELSE /\ ctx' = [ctx EXCEPT ![old] = "cancelled"]
                /\ events' = [events EXCEPT ![old] = 0]
                /\ window' = window \ {old}

BeginEngage(i, c) ==
    /\ pc[i] = "idle"
    /\ Serialized => Quiet(c)
    /\ CancelExisting(c)
    /\ pc' = [pc EXCEPT ![i] = "markActive"]
    /\ target' = [target EXCEPT ![i] = c]
    /\ UNCHANGED <<tables, disc, watched, env, faults>>

\* Mutant: Disengage only marks the row and leaves the run at work.
DisengageKeepsRun(i, c) ==
    /\ pc[i] = "idle"
    /\ Serialized => Quiet(c)
    /\ pc' = [pc EXCEPT ![i] = "markStale"]
    /\ target' = [target EXCEPT ![i] = c]
    /\ UNCHANGED <<tables, registered, ctx, disc, watched, watcher, env, faults>>

BeginDisengage(i, c) ==
    /\ pc[i] = "idle"
    /\ Serialized => Quiet(c)
    /\ CancelExisting(c)
    /\ pc' = [pc EXCEPT ![i] = "markStale"]
    /\ target' = [target EXCEPT ![i] = c]
    /\ UNCHANGED <<tables, disc, watched, env, faults>>

\* Mutant: the error is only logged, as in Disengage.
MarkActiveLogsError(i) ==
    /\ pc[i] = "markActive"
    /\ pc' = [pc EXCEPT ![i] = "fetch"]
    /\ \/ /\ clusters' = UpsertCluster(clusters, target[i], "active", now)
          /\ UNCHANGED faults
       \/ Fault /\ UNCHANGED clusters
    /\ UNCHANGED <<types, registered, target, ctx, disc, watched, watcher, env>>

\* Engage's UpsertCluster; an error is returned to the caller.
MarkActive(i) ==
    /\ pc[i] = "markActive"
    /\ \/ /\ clusters' = UpsertCluster(clusters, target[i], "active", now)
          /\ pc' = [pc EXCEPT ![i] = "fetch"]
          /\ UNCHANGED faults
       \/ /\ Fault
          /\ pc' = [pc EXCEPT ![i] = "returned"]
          /\ UNCHANGED clusters
    /\ UNCHANGED <<types, registered, target, ctx, disc, watched, watcher, env>>

\* Mutant: a status no reader of the table knows.
MarkDeleted(i) ==
    /\ pc[i] = "markStale"
    /\ pc' = [pc EXCEPT ![i] = "returned"]
    /\ clusters' = UpsertCluster(clusters, target[i], "deleted", now)
    /\ UNCHANGED <<types, registered, target, ctx, disc, watched, watcher, env, faults>>

\* Disengage's UpsertCluster; either way the call returns.
MarkStale(i) ==
    /\ pc[i] = "markStale"
    /\ pc' = [pc EXCEPT ![i] = "returned"]
    /\ \/ /\ clusters' = UpsertCluster(clusters, target[i], "stale", now)
          /\ UNCHANGED faults
       \/ Fault /\ UNCHANGED clusters
    /\ UNCHANGED <<types, registered, target, ctx, disc, watched, watcher, env>>

----------------------------------------------------------------------------
\* RunDiscovery returns an error: Engage returns it, the CRD handler logs it.
DiscoveryFailed(i) == IF Live(i) THEN "watching" ELSE "returned"

\* What the blacklist leaves of an answer; it does not look at versions.
Listed(S) == {t \in S : GroupResource[t] \notin Blacklisted}

\* ServerGroupsAndResources: everything served, a part of it with an error
\* that is only logged, or (or no client at all) nothing and an error.
Fetch(i) ==
    /\ pc[i] = "fetch"
    /\ \/ /\ todo' = [todo EXCEPT ![i] = Listed(served[target[i]])]
          /\ pc' = [pc EXCEPT ![i] = "clear"]
          /\ UNCHANGED faults
       \/ \E part \in (SUBSET served[target[i]]) \ {{}} :
             /\ Fault
             /\ todo' = [todo EXCEPT ![i] = Listed(part)]
             /\ pc' = [pc EXCEPT ![i] = "clear"]
       \/ /\ Fault
          /\ pc' = [pc EXCEPT ![i] = DiscoveryFailed(i)]
          /\ UNCHANGED todo
    /\ UNCHANGED <<tables, registered, target, ctx, found, watched, watcher, env>>

\* Mutant: the statement runs under context.Background().
ClearWithoutCtx(i) ==
    /\ pc[i] = "clear"
    /\ types' = DeleteResourceTypesForCluster(types, target[i])
    /\ found' = [found EXCEPT ![i] = {}]
    /\ pc' = [pc EXCEPT ![i] = "populate"]
    /\ UNCHANGED <<clusters, registered, target, ctx, todo, watched, watcher, env, faults>>

\* DeleteResourceTypesForCluster.  Store calls of a CRD watcher carry the
\* run's context and fail once it is cancelled.
Clear(i) ==
    /\ pc[i] = "clear"
    /\ \/ /\ ctx[i] # "cancelled"
          /\ types' = DeleteResourceTypesForCluster(types, target[i])
          /\ found' = [found EXCEPT ![i] = {}]
          /\ pc' = [pc EXCEPT ![i] = "populate"]
          /\ UNCHANGED faults
       \/ /\ IF ctx[i] = "cancelled" THEN UNCHANGED faults ELSE Fault
          /\ pc' = [pc EXCEPT ![i] = DiscoveryFailed(i)]
          /\ UNCHANGED <<types, found>>
    /\ UNCHANGED <<clusters, registered, target, ctx, todo, watched, watcher, env>>

\* One turn of the loop: UpsertResourceType, whose failure skips the resource.
Populate(i) ==
    /\ pc[i] = "populate"
    /\ \E t \in todo[i] :
          /\ todo' = [todo EXCEPT ![i] = @ \ {t}]
          /\ \/ /\ ctx[i] # "cancelled"
                /\ types' = UpsertResourceType(types, target[i], t)
                /\ found' = [found EXCEPT ![i] = @ \cup {t}]
                /\ UNCHANGED faults
             \/ /\ IF ctx[i] = "cancelled" THEN UNCHANGED faults ELSE Fault
                /\ UNCHANGED <<types, found>>
    /\ UNCHANGED <<clusters, registered, pc, target, ctx, watched, watcher, env>>

\* RunDiscovery returns.  Engage keeps the watchable resources for the
\* informers it is about to start; the CRD watcher drops them.
Discovered(i) ==
    /\ pc[i] = "populate"
    /\ todo[i] = {}
    /\ IF ctx[i] = "none"
       THEN /\ watched' = [watched EXCEPT ![i] = found[i] \cap Watchable]
            /\ pc' = [pc EXCEPT ![i] = "register"]
       ELSE /\ pc' = [pc EXCEPT ![i] = IF Live(i) THEN "watching" ELSE "returned"]
            /\ UNCHANGED watched
    /\ UNCHANGED <<tables, registered, target, ctx, disc, watcher, env, faults>>

\* CRDs on the API server of cluster c: what the CRD informer caches.
CRDs(c) == Resources(served[c] \cap CRDTypes)

\* The critical section that closes Engage, then the two go statements.  The
\* CRD informer's first list notifies once for each CRD.  Without a dynamic
\* client Engage returns an error instead.
Register(i) ==
    /\ pc[i] = "register"
    /\ \/ /\ registered' = [registered EXCEPT ![target[i]] = i]
          /\ ctx' = [ctx EXCEPT ![i] = "live"]
          /\ events' = [events EXCEPT ![i] = Cardinality(CRDs(target[i]))]
          /\ pc' = [pc EXCEPT ![i] = "watching"]
          /\ UNCHANGED faults
       \/ /\ Fault
          /\ pc' = [pc EXCEPT ![i] = "returned"]
          /\ UNCHANGED <<registered, ctx, events>>
    /\ UNCHANGED <<tables, target, disc, watched, window, env>>

----------------------------------------------------------------------------
\* The refresh closure of watchCRDs: nothing within 30 s of lastRefresh, else
\* lastRefresh := now and RunDiscovery.
Refresh(i) ==
    /\ window' = window \cup {i}
    /\ pc' = IF i \in window THEN pc ELSE [pc EXCEPT ![i] = "fetch"]

\* OnAdd, OnUpdate, OnDelete of crdRefreshHandler for a CRD notification.
HandleCRDEvent(i) ==
    /\ pc[i] = "watching" /\ Live(i)
    /\ events[i] > 0
    /\ events' = [events EXCEPT ![i] = @ - 1]
    /\ Refresh(i)
    /\ UNCHANGED <<tables, registered, target, ctx, disc, watched, env, faults>>

\* Mutant: the CRD informer is created with a resync period of 0.
NoCRDResync(i) == FALSE /\ UNCHANGED vars

\* The 5-minute resync of the CRD informer calls OnUpdate for each cached
\* CRD; it reaches the handler only while there is one.  A call inside the
\* window changes nothing.  That watchCRDs may return before it has an informer
\* is left out: the dynamic client was made from the same configuration by
\* Engage a moment before, and a handler is refused by a stopped informer only.
ResyncCRDs(i) ==
    /\ pc[i] = "watching" /\ Live(i)
    /\ CRDs(target[i]) # {}
    /\ i \notin window
    /\ Refresh(i)
    /\ UNCHANGED <<tables, registered, target, ctx, disc, watched, events, env, faults>>

WindowExpires(i) ==
    /\ i \in window
    /\ window' = window \ {i}
    /\ UNCHANGED <<tables, registered, pc, target, ctx, disc, watched, events, env, faults>>

----------------------------------------------------------------------------
\* A CRD, or one version of it, is created or deleted on cluster c; live
\* watchers are notified.
ChangeCRD(c, t) ==
    /\ changes < MaxChanges
    /\ changes' = changes + 1
    /\ served' = [served EXCEPT ![c] = IF t \in @ THEN @ \ {t} ELSE @ \cup {t}]
    /\ events' = [i \in Calls |-> IF target[i] = c /\ Live(i)
                                  THEN events[i] + 1 ELSE events[i]]
    /\ UNCHANGED <<tables, registered, pc, target, ctx, disc, watched, window, faults, now>>

Tick ==
    /\ now < MaxTime
    /\ now' = now + 1
    /\ UNCHANGED <<tables, registered, pc, target, ctx, disc, watched, watcher,
                   served, faults, changes>>

\* The process stops and is started again: memory is lost, the tables stay.
Crash ==
    /\ registered' = [c \in Clusters |-> None]
    /\ pc' = [i \in Calls |-> IF pc[i] = "idle" THEN "idle" ELSE "returned"]
    /\ ctx' = [i \in Calls |-> IF Live(i) THEN "cancelled" ELSE ctx[i]]
    /\ todo' = [i \in Calls |-> {}]
    /\ found' = [i \in Calls |-> {}]
    /\ events' = [i \in Calls |-> 0]
    /\ window' = {}
    /\ UNCHANGED <<tables, target, watched, env, faults>>

----------------------------------------------------------------------------
Discover(i) == Fetch(i) \/ Clear(i) \/ Populate(i) \/ Discovered(i)

\* What the goroutine of call i does without being asked.
Step(i) == MarkActive(i) \/ MarkStale(i) \/ Discover(i) \/ Register(i)

Watch(i) == HandleCRDEvent(i) \/ ResyncCRDs(i) \/ WindowExpires(i)

Next ==
    \/ \E i \in Calls, c \in Clusters : BeginEngage(i, c) \/ BeginDisengage(i, c)
    \/ \E i \in Calls : Step(i) \/ Watch(i)
    \/ \E c \in Clusters, t \in CRDTypes : ChangeCRD(c, t)
    \/ Tick
    \/ Crash

Spec == Init /\ [][Next]_vars

\* Goroutines keep running, requests return (they carry timeouts), queued
\* notifications are delivered, 30 s pass and the informer resyncs.  Nobody
\* is obliged to call Engage, to change a CRD or to crash.
Fairness ==
    \A i \in Calls :
        /\ WF_vars(Step(i))
        /\ WF_vars(Watch(i))

FairSpec == Spec /\ Fairness
----------------------------------------------------------------------------
\* Properties.

\* Engage replaces the run of a cluster and Disengage ends it (controller.go:
\* "If already engaged, disengage first"): when calls for a cluster do not
\* overlap, a cluster never has two sets of informers at work, whatever
\* requests fail and whenever the process crashes.
OneLiveRun ==
    \A i, j \in Calls :
        Live(i) /\ Live(j) /\ target[i] = target[j] => i = j

\* The clusters table does not call a cluster stale (and so expose it to the
\* garbage collector) while its informers run: once every call for the
\* cluster has returned, a live run means a row with status active.
LiveRunIsActive ==
    \A i \in Calls :
        Live(i) /\ Quiet(target[i]) => clusters[target[i]].status = "active"

\* A discovery that lost its run cannot damage the table: whenever the CRD
\* handler of the live run rests and no call is on its way, resource_types
\* holds a row for each resource the run's last discovery wrote, in one of the
\* versions it found, and no other, even if an older run was cancelled in the
\* middle of clearing and repopulating it.
DiscoveryIntact ==
    \A i \in Calls :
        Live(i) /\ Quiet(target[i]) /\ pc[i] = "watching"
            => /\ types[target[i]] \subseteq found[i]
               /\ Resources(types[target[i]]) = Resources(found[i])

\* Where cluster c is in its life: a call on its way decides, else a live run.
Phase(c) ==
    LET at == {pc[i] : i \in {j \in Calls : target[j] = c /\ InProgress(j)}}
    IN  IF at = {}
        THEN IF \E i \in Calls : Live(i) /\ target[i] = c THEN "up" ELSE "down"
        ELSE IF "markActive" \in at THEN "engaging"
        ELSE IF "markStale" \in at THEN "disengaging"
        ELSE "starting"

Life == INSTANCE Lifecycle WITH
            phase  <- [c \in Clusters |-> Phase(c)],
            status <- [c \in Clusters |-> clusters[c].status]

\* Engage and Disengage implement the life of a cluster that Lifecycle
\* specifies: however calls, CRD refreshes, failing requests and crashes
\* interleave, a cluster comes up only after its row was marked active, goes
\* down only through a call or a crash, and is called stale only by Disengage.
ImplementsLifecycle == Life!Spec

\* What a complete discovery of cluster c stores.
Discoverable(c) == Resources(Listed(served[c]))

\* A CRD change reaches resource_types in the end, although the refresh is
\* debounced, may fail, and its trigger may be dropped: while a run lives and
\* its cluster has a CRD for the resync to report, the table is again and
\* again what the API server serves.  (Which of several versions a row names
\* is not part of it.)
TypesConverge ==
    \A i \in Calls :
        []<>(\/ ~Live(i)
             \/ CRDs(target[i]) = {}
             \/ Resources(types[target[i]]) = Discoverable(target[i]))
=============================================================================
