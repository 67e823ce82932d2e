----------------------------- MODULE EventSync -----------------------------
(***************************************************************************)
(* Object synchronisation: the informers a run starts (runInformers) and   *)
(* the EventHandler of internal/sync/handler.go that writes what they      *)
(* report into the objects table.                                          *)
(*                                                                         *)
(* A run has one informer per watched type, so several for a resource that *)
(* is served in several versions; rows have no version in their key and    *)
(* all of them write the same ones.  An informer keeps a cache of what it  *)
(* has seen of the API server and feeds one handler goroutine through a    *)
(* queue, so the events of a type are handled one at a time and in order.  *)
(* Handlers use context.Background() with a timeout, not the run's         *)
(* context: cancelling a run stops its informers but not the events        *)
(* already on their way to the handler.                                    *)
(***************************************************************************)
EXTENDS Store, Sequences

CONSTANTS
    Clusters, Calls, None, Types,   \* as in SyncController; a run is a call
    Keys,         \* object keys (group, kind, namespace, name)
    ResourceOf,   \* the group-resource each key belongs to
    MaxVersion,   \* bound on the changes of one object
    MaxFaults     \* bound on failing store requests

ASSUME EventAssumption ==
    /\ \A k \in Keys : ResourceOf[k] \in Resources(Types)
    /\ MaxVersion \in Nat /\ MaxFaults \in Nat

VARIABLES
    objects,      \* table objects
    upstream,     \* the API servers: object state by cluster and key
    cache,        \* per run and type, the informer's cache
    queue,        \* per run and type, events waiting for the handler
    target, ctx, watched,   \* of a run: its cluster, context, informers
    faults

eventVars == <<objects, upstream, cache, queue>>
runVars   == <<target, ctx, watched>>
vars      == <<objects, upstream, cache, queue, target, ctx, watched, faults>>

\* An object's resourceVersion grows with every change, deletion included.
ObjectState == [rv : 0..MaxVersion, exists : BOOLEAN]
Unseen      == [rv |-> 0, exists |-> FALSE]
NoCache     == [i \in Calls |-> [t \in Types |-> [k \in Keys |-> Unseen]]]

\* A notification: OnAdd and OnUpdate end in upsert(obj); a deletion carries
\* the object or, when the watch missed it, a DeletedFinalStateUnknown.
Event == [kind : {"upsert", "delete", "tombstone"}, key : Keys, rv : 0..MaxVersion]

TypeOK ==
    /\ objects \in [Clusters -> [Keys -> 0..MaxVersion]]
    /\ upstream \in [Clusters -> [Keys -> ObjectState]]
    /\ cache \in [Calls -> [Types -> [Keys -> ObjectState]]]
    /\ queue \in [Calls -> [Types -> Seq(Event)]]
    /\ target \in [Calls -> Clusters \cup {None}]
    /\ ctx \in [Calls -> {"none", "live", "cancelled"}]
    /\ watched \in [Calls -> SUBSET Types]
    /\ faults \in 0..MaxFaults

Init ==
    /\ objects = [c \in Clusters |-> [k \in Keys |-> Absent]]
    /\ upstream = [c \in Clusters |-> [k \in Keys |-> Unseen]]
    /\ cache = NoCache
    /\ queue = [i \in Calls |-> [t \in Types |-> <<>>]]
    /\ target = [i \in Calls |-> None]
    /\ ctx = [i \in Calls |-> "none"]
    /\ watched = [i \in Calls |-> {}]
    /\ faults = 0

Live(i) == ctx[i] = "live"

\* Run i has an informer of type t, and key k is an object of that type.
Informs(i, t, k) == t \in watched[i] /\ GroupResource[t] = ResourceOf[k]

----------------------------------------------------------------------------
\* The API server of cluster c stores or deletes an object.
WriteUpstream(c, k) ==
    /\ upstream[c][k].rv < MaxVersion
    /\ \E e \in BOOLEAN :
          /\ e \/ upstream[c][k].exists
          /\ upstream' = [upstream EXCEPT ![c][k] = [rv |-> @.rv + 1, exists |-> e]]
    /\ UNCHANGED <<objects, cache, queue, runVars, faults>>

----------------------------------------------------------------------------
\* client-go's shared informer.

Enqueue(i, t, k, kind, rv) ==
    queue' = [queue EXCEPT ![i][t] =
                 Append(@, [kind |-> kind, key |-> k, rv |-> rv])]

\* The list or the watch of type t reports that key k differs from the cache.
\* A deletion of an object the cache never held is not reported.
Observe(i, t, k) ==
    LET old == cache[i][t][k]
        new == upstream[target[i]][k]
    IN  /\ Live(i)
        /\ Informs(i, t, k)
        /\ new # old
        /\ new.exists \/ old.exists
        /\ cache' = [cache EXCEPT ![i][t][k] = new]
        /\ IF new.exists THEN Enqueue(i, t, k, "upsert", new.rv)
           ELSE \E kind \in {"delete", "tombstone"} : Enqueue(i, t, k, kind, new.rv)
        /\ UNCHANGED <<objects, upstream, runVars, faults>>

\* Mutant: the informer factory is created with a resync period of 0.
NoResync(i, t, k) == FALSE /\ UNCHANGED vars

\* The 10-minute resync calls OnUpdate with every cached object that has no
\* event under way.
Resync(i, t, k) ==
    /\ Live(i)
    /\ cache[i][t][k].exists
    /\ \A n \in DOMAIN queue[i][t] : queue[i][t][n].key # k
    /\ Enqueue(i, t, k, "upsert", cache[i][t][k].rv)
    /\ UNCHANGED <<objects, upstream, cache, runVars, faults>>

\* The listeners of a cancelled run drop what they have not handed over.
Drop(i) ==
    /\ ctx[i] = "cancelled"
    /\ \E t \in Types : queue[i][t] # <<>>
    /\ queue' = [queue EXCEPT ![i] = [t \in Types |-> <<>>]]
    /\ UNCHANGED <<objects, upstream, cache, runVars, faults>>

----------------------------------------------------------------------------
\* Mutant: a deletion marks the row instead of removing it.
SoftDeleted(i, e) ==
    IF e.kind = "upsert" THEN UpsertObject(objects, target[i], e.key, e.rv)
                         ELSE UpsertObject(objects, target[i], e.key, MaxVersion + 1)

\* Mutant: OnDelete only understands a whole object, not a tombstone.
TombstoneIgnored(i, e) ==
    CASE e.kind = "upsert" -> UpsertObject(objects, target[i], e.key, e.rv)
      [] e.kind = "delete" -> DeleteObject(objects, target[i], e.key)
      [] e.kind = "tombstone" -> objects

\* The store call of upsert and of OnDelete; toUnstructured opens a tombstone,
\* so a missed deletion deletes the row like any other.  An event that is no
\* object or cannot be made a row is dropped; informers of unstructured objects
\* send none, and to the row it would be a failed call.
Written(i, e) ==
    IF e.kind = "upsert" THEN UpsertObject(objects, target[i], e.key, e.rv)
                         ELSE DeleteObject(objects, target[i], e.key)

\* Mutant: each event is handed to a goroutine of its own, so any may be next.
HandleInAnyOrder(i, t) ==
    \E n \in DOMAIN queue[i][t] :
        /\ queue' = [queue EXCEPT ![i][t] = SubSeq(@, 1, n - 1) \o SubSeq(@, n + 1, Len(@))]
        /\ objects' = Written(i, queue[i][t][n])
        /\ UNCHANGED <<upstream, cache, runVars, faults>>

\* OnAdd, OnUpdate, OnDelete for the next event of type t.  A failed store
\* call is logged; nothing retries it.
Handle(i, t) ==
    /\ queue[i][t] # <<>>
    /\ queue' = [queue EXCEPT ![i][t] = Tail(@)]
    /\ \/ /\ objects' = Written(i, Head(queue[i][t]))
          /\ UNCHANGED faults
       \/ /\ faults < MaxFaults
          /\ faults' = faults + 1
          /\ UNCHANGED objects
    /\ UNCHANGED <<upstream, cache, runVars>>

----------------------------------------------------------------------------
\* What the controller does to runs, as far as the informers notice: Engage
\* starts a run for a cluster that has none, Disengage or the next Engage
\* cancels it.
Start(i, c) ==
    /\ ctx[i] = "none"
    /\ \A j \in Calls : target[j] = c => ~Live(j)
    /\ ctx' = [ctx EXCEPT ![i] = "live"]
    /\ target' = [target EXCEPT ![i] = c]
    /\ watched' = [watched EXCEPT ![i] = Types]
    /\ UNCHANGED <<eventVars, faults>>

Stop(i) ==
    /\ Live(i)
    /\ ctx' = [ctx EXCEPT ![i] = "cancelled"]
    /\ UNCHANGED <<eventVars, target, watched, faults>>

\* What the informers and handlers of run i do.
Informers(i) ==
    \/ \E t \in Types, k \in Keys : Observe(i, t, k) \/ Resync(i, t, k)
    \/ \E t \in Types : Handle(i, t)
    \/ Drop(i)

Next ==
    \/ \E c \in Clusters, k \in Keys : WriteUpstream(c, k)
    \/ \E i \in Calls, c \in Clusters : Start(i, c)
    \/ \E i \in Calls : Stop(i) \/ Informers(i)

Spec == Init /\ [][Next]_vars

\* Watches deliver, informers resync, handlers return (their store calls time
\* out) and the listeners of a cancelled run come to rest.
EventFairness ==
    \A i \in Calls, t \in Types :
        /\ \A k \in Keys : WF_vars(Observe(i, t, k)) /\ WF_vars(Resync(i, t, k))
        /\ WF_vars(Handle(i, t))

FairSpec == Spec /\ EventFairness

----------------------------------------------------------------------------
\* Properties.

\* A step that puts an older state of an object over a newer one is one of a
\* handler whose run was cancelled, or whose informer is behind another's.
RegressIsOthers ==
    \A c \in Clusters, k \in Keys :
        objects'[c][k] # Absent /\ objects'[c][k] < objects[c][k]
            => \E i \in Calls, t \in Types :
                  /\ target[i] = c /\ queue'[i][t] # queue[i][t]
                  /\ \/ ctx[i] = "cancelled"
                     \/ \E u \in Types \ {t} : /\ Informs(i, u, k)
                                              /\ cache[i][u][k].rv > objects'[c][k]

\* Last write wins, yet no informer ever takes its own row back in time: a
\* row is overwritten by an older state of the object only by a handler of a
\* run that was already cancelled, whose event was still on its way, or of an
\* informer that lags behind the informer of another served version.
OnlyOthersRegress == [][RegressIsOthers]_vars

\* Lost writes, late writes of cancelled runs, informers of several versions
\* writing the same row and gaps between runs heal for
\* every object that exists: if a run stays live, the row ends up, for good,
\* at the version the API server holds.
RowsConverge ==
    \A i \in Calls, c \in Clusters, k \in Keys :
        <>[](Live(i) /\ target[i] = c /\ upstream[c][k].exists)
            => <>[](objects[c][k] = upstream[c][k].rv)

\* A deletion is applied even if the watch missed it and the informer reports
\* it late, as a tombstone: with one run and no failing request, the row of a
\* deleted object is gone for good.
OneRunDeletes ==
    \A i \in Calls, c \in Clusters, k \in Keys :
        <>[](/\ Live(i) /\ target[i] = c /\ ~upstream[c][k].exists
             /\ faults = 0 /\ \A j \in Calls \ {i} : ctx[j] = "none")
            => <>[](objects[c][k] = Absent)

\* An object deleted from an engaged cluster leaves the table ("On Delete ->
\* delete row from objects table", design.md; "deletes on Delete", README.md),
\* also when the watch missed the deletion.
DeletesPropagate ==
    \A i \in Calls, c \in Clusters, k \in Keys :
        <>[](Live(i) /\ target[i] = c /\ ~upstream[c][k].exists)
            => <>[](objects[c][k] = Absent)
=============================================================================
