------------------------------- MODULE Kuery -------------------------------
(***************************************************************************)
(* The write path of kuery: the sync controller, the event handlers and    *)
(* the garbage collector at work on the same tables, with the API servers  *)
(* they mirror, a clock, failing requests and crashes of the process.      *)
(***************************************************************************)
EXTENDS Store, FiniteSets, Sequences

CONSTANTS
    Clusters, Calls, None, Types, CRDTypes, Watchable, Blacklisted,
    Keys, ResourceOf, Serialized, MaxFaults, MaxChanges, MaxTime, MaxVersion

\* What SyncController and EventSync assume of the constants.
ASSUME KueryAssumption ==
    /\ None \notin Clusters \cup Calls
    /\ CRDTypes \subseteq Types
    /\ IsFiniteSet(Types)
    /\ \A k \in Keys : ResourceOf[k] \in Resources(Types)
    /\ Serialized \in BOOLEAN
    /\ MaxFaults \in Nat /\ MaxChanges \in Nat /\ MaxTime \in Nat /\ MaxVersion \in Nat

VARIABLES
    clusters, types, objects,
    registered, pc, target, ctx, todo, found, watched, events, window,
    served, changes, upstream, cache, queue,
    gcNow, gcList, gcCluster, gcStep,
    faults, now,
    raced   \* history: clusters for which a call was under way while a pass
            \* had them on its list; no action depends on it

Ctl == INSTANCE SyncController
Evt == INSTANCE EventSync
GC  == INSTANCE GarbageCollector

\* The variables each component leaves to the others.
ctlOnly == <<clusters, types, registered, pc, todo, found, events, window,
             served, changes, now>>
evtOnly == <<objects, upstream, cache, queue>>
gcOnly  == <<gcNow, gcList, gcCluster, gcStep>>
vars    == <<ctlOnly, target, ctx, watched, evtOnly, gcOnly, faults, raced>>

TypeOK == Ctl!TypeOK /\ Evt!TypeOK /\ GC!GCTypeOK /\ raced \subseteq Clusters

Init == Ctl!Init /\ Evt!Init /\ GC!GCInit /\ raced = {}

----------------------------------------------------------------------------
Call(i, c) ==
    /\ Ctl!BeginEngage(i, c) \/ Ctl!BeginDisengage(i, c)
    /\ raced' = raced \cup ({c} \cap gcList)
    /\ UNCHANGED <<evtOnly, gcOnly>>

Run(i) ==
    /\ Ctl!Step(i) \/ Ctl!Watch(i)
    /\ UNCHANGED <<evtOnly, gcOnly, raced>>

Sync(i) ==
    /\ Evt!Informers(i)
    /\ UNCHANGED <<ctlOnly, gcOnly, raced>>

StartPass ==
    /\ GC!Collect
    /\ raced' = raced \cup {c \in gcList' : ~Ctl!Quiet(c)}
    /\ UNCHANGED <<ctlOnly, target, ctx, watched, evtOnly, gcCluster, gcStep>>

Pass ==
    /\ GC!DeleteExpired
    /\ UNCHANGED <<registered, pc, todo, found, events, window, served, changes,
                   target, ctx, watched, upstream, cache, queue, raced>>

\* The API servers change.
Upstream ==
    \/ /\ \E c \in Clusters, k \in Keys : Evt!WriteUpstream(c, k)
       /\ UNCHANGED <<ctlOnly, gcOnly, raced>>
    \/ /\ \E c \in Clusters, t \in CRDTypes : Ctl!ChangeCRD(c, t)
       /\ UNCHANGED <<evtOnly, gcOnly, raced>>

\* The clock's unit is of the order of a TTL (3600 s).  A handler lasts at
\* most 10 s, so none that a cancelled run left behind survives a tick.
Tick ==
    /\ \A i \in Calls : ctx[i] = "cancelled" => \A t \in Types : queue[i][t] = <<>>
    /\ Ctl!Tick
    /\ UNCHANGED <<evtOnly, gcOnly, raced>>

\* The process dies: informer caches and queues and the GC pass go with it.
Crash ==
    /\ Ctl!Crash
    /\ GC!GCCrash
    /\ cache' = Evt!NoCache
    /\ queue' = [i \in Calls |-> [t \in Types |-> <<>>]]
    /\ UNCHANGED <<objects, upstream, raced>>

Next ==
    \/ \E i \in Calls, c \in Clusters : Call(i, c)
    \/ \E i \in Calls : Run(i) \/ Sync(i)
    \/ StartPass
    \/ Pass
    \/ Upstream
    \/ Tick
    \/ Crash

Spec == Init /\ [][Next]_vars

\* Goroutines run, and the ticker of the garbage collector keeps firing.
FairSpec ==
    /\ Spec
    /\ \A i \in Calls : WF_vars(Ctl!Step(i) /\ UNCHANGED <<evtOnly, gcOnly, raced>>)
    /\ WF_vars(StartPass) /\ WF_vars(Pass)

----------------------------------------------------------------------------
\* Properties.

\* The garbage collector removes a cluster without residue ("Delete objects
\* first, then resource types, then the cluster record", gc.go): no object or
\* resource type is left behind without its cluster row, through failures of
\* any of the three statements, crashes and late handlers.  A cluster engaged
\* or disengaged while a pass had it on its list is excepted; for those,
\* nothing in gc.go helps (DeletesOnlyExpired).
NoOrphanRows ==
    \A c \in Clusters \ raced :
        clusters[c] = NoRow => /\ \A k \in Keys : objects[c][k] = Absent
                               /\ types[c] = {}

\* However long ago a pass made its list, what it has yet to delete is stale
\* and past its TTL now: the test of gc.go:62 on the listed row still holds of
\* the row in the table, unless a call for the cluster raced with the pass.
\* The end of the TTL counts as past, as in gc.go; design.md:375 and :770 ask
\* for last_seen + ttl < now().
PassTargetsExpired == \A c \in gcList \ raced : GC!Expired(clusters[c], now)

\* All that the tables hold of a cluster.
Stored(c) == <<clusters[c], types[c], objects[c]>>

\* "GC job: [...] deletes objects for clusters where status='stale' AND
\* last_seen + ttl < now()" (design.md:375): whatever a pass deletes is the
\* data of a cluster that is stale and expired at that time.  It is not:
\* collect decides on the rows it listed.  (That gc.go:62 takes a cluster
\* exactly at the end of its TTL is granted here.)
DeletesOnlyExpired ==
    [][Pass => \A c \in Clusters :
                  Stored(c)' # Stored(c) => GC!Expired(clusters[c], now)]_vars

\* A cluster that stays stale past its TTL is collected although statements
\* fail and passes are cut short, if the process does not crash for ever.
ExpiredCollected ==
    <>[][~Crash]_vars =>
        \A c \in Clusters : GC!Expired(clusters[c], now) ~> ~GC!Expired(clusters[c], now)
=============================================================================
