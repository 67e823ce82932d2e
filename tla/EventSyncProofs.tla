-------------------------- MODULE EventSyncProofs --------------------------
(***************************************************************************)
(* Proofs about EventSync, for every set of clusters, runs, types and      *)
(* keys, any number of changes and of failing requests: an informer never  *)
(* takes its own row back in time, although the store compares no versions *)
(* and cancelled runs go on writing.                                       *)
(***************************************************************************)
EXTENDS EventSync, TLAPS

\* The events of an informer on their way to its handler.
Pending(i, t) == {queue[i][t][n] : n \in DOMAIN queue[i][t]}

\* A run that was not started has neither seen nor queued anything.
RunShape ==
    \A i \in Calls :
        /\ ctx[i] = "none" => \A t \in Types : /\ queue[i][t] = <<>>
                                               /\ \A k \in Keys : cache[i][t][k] = Unseen
        /\ ctx[i] # "none" => target[i] \in Clusters

\* A cluster has at most one live run.
OneLive ==
    \A i, j \in Calls : Live(i) /\ Live(j) /\ target[i] = target[j] => i = j

\* Neither a row nor a cache is ahead of the API server, and versions count
\* from 1.
Behind ==
    /\ \A c \in Clusters, k \in Keys :
          /\ upstream[c][k].exists => upstream[c][k].rv > 0
          /\ objects[c][k] <= upstream[c][k].rv
    /\ \A i \in Calls, t \in Types, k \in Keys :
          /\ cache[i][t][k].exists => cache[i][t][k].rv > 0
          /\ ctx[i] # "none" => cache[i][t][k].rv <= upstream[target[i]][k].rv

\* An informer caches and queues objects of its own type; its events are no
\* newer than its cache, and those of one object are in the order of their
\* versions.
QueueOrder ==
    \A i \in Calls, t \in Types :
        /\ \A k \in Keys : cache[i][t][k].rv > 0 => Informs(i, t, k)
        /\ \A e \in Pending(i, t) : /\ Informs(i, t, e.key)
                                    /\ e.rv <= cache[i][t][e.key].rv
        /\ \A m, n \in DOMAIN queue[i][t] :
              m <= n /\ queue[i][t][m].key = queue[i][t][n].key
                  => queue[i][t][m].rv <= queue[i][t][n].rv

\* What a cancelled run still has to write is no newer than anything the run
\* that replaced it has seen or queued.
LateIsOld ==
    \A i, j \in Calls, t, u \in Types :
        Live(i) /\ ctx[j] = "cancelled" /\ target[i] = target[j] =>
            \A e \in Pending(j, u) :
                /\ cache[i][t][e.key].rv > 0 => e.rv <= cache[i][t][e.key].rv
                /\ \A f \in Pending(i, t) : f.key = e.key => e.rv <= f.rv

\* The row of key k is not ahead of version rv, unless the informer of
\* another served version has put it there.
NotAhead(i, t, k, rv) ==
    \/ objects[target[i]][k] <= rv
    \/ \E u \in Types \ {t} : Informs(i, u, k) /\ objects[target[i]][k] <= cache[i][u][k].rv

\* No event of a live run would take back what its own informer wrote.
RowsFollow ==
    \A i \in Calls, t \in Types :
        Live(i) => /\ \A k \in Keys : cache[i][t][k].rv > 0
                                          => NotAhead(i, t, k, cache[i][t][k].rv)
                   /\ \A e \in Pending(i, t) : NotAhead(i, t, e.key, e.rv)

IInv == TypeOK /\ RunShape /\ OneLive /\ Behind /\ QueueOrder /\ LateIsOld /\ RowsFollow

----------------------------------------------------------------------------
\* The initial state is well formed.
LEMMA TypeInit == Init => TypeOK
BY EventAssumption DEF Init, TypeOK, NoCache, ObjectState, Unseen, Absent

\* An event that joins a queue joins one queue, at its end.
LEMMA Enqueued ==
    ASSUME TypeOK, NEW i \in Calls, NEW t \in Types, NEW k \in Keys,
           NEW kind \in {"upsert", "delete", "tombstone"}, NEW rv \in 0..MaxVersion,
           Enqueue(i, t, k, kind, rv),
           NEW e, e = [kind |-> kind, key |-> k, rv |-> rv]
    PROVE  /\ queue' \in [Calls -> [Types -> Seq(Event)]]
           /\ queue'[i][t] = Append(queue[i][t], e)
           /\ \A j \in Calls, u \in Types : j # i \/ u # t => queue'[j][u] = queue[j][u]
           /\ Pending(i, t)' = Pending(i, t) \cup {e}
<1>1. e \in Event /\ queue[i][t] \in Seq(Event)
    BY DEF TypeOK, Event
<1>2. queue' = [queue EXCEPT ![i][t] = Append(@, e)]
    BY DEF Enqueue
<1>3. /\ queue' \in [Calls -> [Types -> Seq(Event)]]
      /\ queue'[i][t] = Append(queue[i][t], e)
      /\ \A j \in Calls, u \in Types : j # i \/ u # t => queue'[j][u] = queue[j][u]
    BY <1>1, <1>2 DEF TypeOK
<1>4. Pending(i, t)' = Pending(i, t) \cup {e}
    <2>. DEFINE q == queue[i][t]
    <2>1. /\ Len(queue'[i][t]) = Len(q) + 1 /\ Len(q) \in Nat
          /\ queue'[i][t][Len(q) + 1] = e
          /\ \A n \in 1..Len(q) : queue'[i][t][n] = q[n]
          /\ DOMAIN q = 1..Len(q) /\ DOMAIN queue'[i][t] = 1..Len(q) + 1
        BY <1>1, <1>3
    <2>2. \A n \in DOMAIN queue'[i][t] : n \in DOMAIN q \/ n = Len(q) + 1
        BY <2>1
    <2>3. Len(q) + 1 \in DOMAIN queue'[i][t] /\ DOMAIN q \subseteq DOMAIN queue'[i][t]
        BY <2>1
    <2>4. ASSUME NEW x \in Pending(i, t)' PROVE x \in Pending(i, t) \cup {e}
        BY <2>1, <2>2 DEF Pending
    <2>5. ASSUME NEW x \in Pending(i, t) PROVE x \in Pending(i, t)'
        BY <2>1, <2>3 DEF Pending
    <2>6. e \in Pending(i, t)'
        BY <2>1, <2>3 DEF Pending
    <2>. QED
        BY <2>4, <2>5, <2>6
<1>. QED
    BY <1>3, <1>4

\* The handler takes the first event, and the rest stays in order.
LEMMA Handled ==
    ASSUME TypeOK, NEW i \in Calls, NEW t \in Types, queue[i][t] # <<>>,
           queue' = [queue EXCEPT ![i][t] = Tail(@)]
    PROVE  /\ Head(queue[i][t]) \in Pending(i, t)
           /\ Head(queue[i][t]) \in Event
           /\ Head(queue[i][t]) = queue[i][t][1] /\ 1 \in DOMAIN queue[i][t]
           /\ queue' \in [Calls -> [Types -> Seq(Event)]]
           /\ \A j \in Calls, u \in Types : j # i \/ u # t => queue'[j][u] = queue[j][u]
           /\ \A n \in DOMAIN queue'[i][t] :
                 /\ n \in Nat /\ n > 0
                 /\ n + 1 \in DOMAIN queue[i][t] /\ queue'[i][t][n] = queue[i][t][n + 1]
           /\ \A j \in Calls, u \in Types : Pending(j, u)' \subseteq Pending(j, u)
<1>. DEFINE q == queue[i][t]
<1>1. q \in Seq(Event) /\ q # <<>>
    BY DEF TypeOK
<1>2. /\ queue' \in [Calls -> [Types -> Seq(Event)]]
      /\ queue'[i][t] = Tail(q)
      /\ \A j \in Calls, u \in Types : j # i \/ u # t => queue'[j][u] = queue[j][u]
    BY <1>1 DEF TypeOK
<1>3. /\ Len(q) \in Nat /\ Len(q) > 0 /\ DOMAIN q = 1..Len(q)
      /\ Head(q) = q[1] /\ q[1] \in Event
      /\ DOMAIN Tail(q) = 1..Len(q) - 1
      /\ \A n \in 1..Len(q) - 1 : Tail(q)[n] = q[n + 1]
    BY <1>1
<1>4. \A n \in DOMAIN queue'[i][t] : /\ n \in Nat /\ n > 0
                                     /\ n + 1 \in DOMAIN q /\ queue'[i][t][n] = q[n + 1]
    BY <1>2, <1>3
<1>5. Head(q) \in Pending(i, t) /\ 1 \in DOMAIN q
    BY <1>3 DEF Pending
<1>6. ASSUME NEW j \in Calls, NEW u \in Types PROVE Pending(j, u)' \subseteq Pending(j, u)
    BY <1>2, <1>4 DEF Pending
<1>. QED
    BY <1>2, <1>3, <1>4, <1>5, <1>6

\* Every action keeps the type invariant.
LEMMA TypeStep == TypeOK /\ RunShape /\ [Next]_vars => TypeOK'
<1>. SUFFICES ASSUME TypeOK, RunShape, [Next]_vars PROVE TypeOK'
    OBVIOUS
<1>. USE DEF runVars, eventVars
<1>1. ASSUME NEW c \in Clusters, NEW k \in Keys, WriteUpstream(c, k) PROVE TypeOK'
    <2>1. \A e \in BOOLEAN : upstream[c][k].rv < MaxVersion =>
                [rv |-> upstream[c][k].rv + 1, exists |-> e] \in ObjectState
        BY EventAssumption DEF TypeOK, ObjectState
    <2>. QED
        BY <1>1, <2>1 DEF WriteUpstream, TypeOK
<1>2. ASSUME NEW i \in Calls, NEW c \in Clusters, Start(i, c) PROVE TypeOK'
    BY <1>2 DEF Start, TypeOK
<1>3. ASSUME NEW i \in Calls, Stop(i) PROVE TypeOK'
    BY <1>3 DEF Stop, TypeOK
<1>4. ASSUME NEW i \in Calls, NEW t \in Types, NEW k \in Keys, Observe(i, t, k)
      PROVE  TypeOK'
    <2>1. upstream[target[i]][k] \in ObjectState
        BY <1>4 DEF Observe, Live, RunShape, TypeOK
    <2>2. upstream[target[i]][k].rv \in 0..MaxVersion
        BY <2>1 DEF ObjectState
    <2>3. queue' \in [Calls -> [Types -> Seq(Event)]]
        BY <1>4, <2>2, Enqueued DEF Observe
    <2>. QED
        BY <1>4, <2>1, <2>3 DEF Observe, TypeOK
<1>5. ASSUME NEW i \in Calls, NEW t \in Types, NEW k \in Keys, Resync(i, t, k)
      PROVE  TypeOK'
    <2>1. cache[i][t][k].rv \in 0..MaxVersion
        BY DEF TypeOK, ObjectState
    <2>2. queue' \in [Calls -> [Types -> Seq(Event)]]
        BY <1>5, <2>1, Enqueued DEF Resync
    <2>. QED
        BY <1>5, <2>2 DEF Resync, TypeOK
<1>6. ASSUME NEW i \in Calls, NEW t \in Types, Handle(i, t) PROVE TypeOK'
    <2>. DEFINE e == Head(queue[i][t])
    <2>1. queue' \in [Calls -> [Types -> Seq(Event)]] /\ e \in Event
        BY <1>6, Handled DEF Handle
    <2>2. target[i] \in Clusters
        BY <1>6 DEF Handle, RunShape
    <2>3. Written(i, e) \in [Clusters -> [Keys -> 0..MaxVersion]]
        BY <2>1, <2>2, EventAssumption
        DEF Written, UpsertObject, DeleteObject, Absent, TypeOK, Event
    <2>4. objects' \in [Clusters -> [Keys -> 0..MaxVersion]] /\ faults' \in 0..MaxFaults
        BY <1>6, <2>3, EventAssumption DEF Handle, TypeOK
    <2>. QED
        BY <1>6, <2>1, <2>4 DEF Handle, TypeOK
<1>7. ASSUME NEW i \in Calls, Drop(i) PROVE TypeOK'
    BY <1>7 DEF Drop, TypeOK
<1>8. CASE UNCHANGED vars
    BY <1>8 DEF vars, TypeOK
<1>. QED
    BY <1>1, <1>2, <1>3, <1>4, <1>5, <1>6, <1>7, <1>8 DEF Next, Informers

\* Versions are numbers.
LEMMA Versions ==
    ASSUME TypeOK
    PROVE  /\ \A c \in Clusters, k \in Keys :
                 objects[c][k] \in Nat /\ upstream[c][k].rv \in Nat
           /\ \A i \in Calls, t \in Types, k \in Keys : cache[i][t][k].rv \in Nat
           /\ \A i \in Calls, t \in Types : \A e \in Pending(i, t) :
                 e \in Event /\ e.key \in Keys /\ e.rv \in Nat
<1>1. 0..MaxVersion \subseteq Nat
    BY EventAssumption
<1>2. ASSUME NEW i \in Calls, NEW t \in Types, NEW e \in Pending(i, t)
      PROVE  e \in Event /\ e.key \in Keys /\ e.rv \in Nat
    <2>1. PICK n \in DOMAIN queue[i][t] : e = queue[i][t][n]
        BY DEF Pending
    <2>2. queue[i][t] \in Seq(Event)
        BY DEF TypeOK
    <2>3. e \in Event
        BY <2>1, <2>2
    <2>. QED
        BY <1>1, <2>3 DEF Event
<1>. QED
    BY <1>1, <1>2 DEF TypeOK, ObjectState

\* The inductive invariant holds when nothing has been started.
LEMMA InvInit == Init => IInv
<1>. SUFFICES ASSUME Init PROVE IInv
    OBVIOUS
<1>1. TypeOK
    BY TypeInit
<1>2. \A i \in Calls, t \in Types : queue[i][t] = <<>> /\ Pending(i, t) = {}
    BY DEF Init, Pending
<1>. QED
    BY <1>1, <1>2
    DEF Init, IInv, RunShape, OneLive, Behind, QueueOrder, LateIsOld, RowsFollow, Live,
        NoCache, Unseen, Absent

\* Every action keeps the inductive invariant.
LEMMA InvStep == IInv /\ [Next]_vars => IInv'
<1>. SUFFICES ASSUME IInv, [Next]_vars PROVE IInv'
    OBVIOUS
<1>. TypeOK /\ TypeOK'
    BY TypeStep DEF IInv
<1>. USE Versions DEF IInv, runVars, eventVars, Live
<1>1. ASSUME NEW c \in Clusters, NEW k \in Keys, WriteUpstream(c, k) PROVE IInv'
    <2>1. UNCHANGED <<objects, cache, queue, target, ctx, watched>>
        BY <1>1 DEF WriteUpstream
    <2>2. \A d \in Clusters, l \in Keys :
             /\ upstream'[d][l].rv \in Nat /\ upstream[d][l].rv <= upstream'[d][l].rv
             /\ upstream'[d][l] = upstream[d][l] \/ upstream'[d][l].rv > 0
        BY <1>1 DEF WriteUpstream, TypeOK
    <2>3. Behind'
        <3>1. ASSUME NEW d \in Clusters, NEW l \in Keys
              PROVE  /\ upstream'[d][l].exists => upstream'[d][l].rv > 0
                     /\ objects[d][l] <= upstream'[d][l].rv
            BY <2>2 DEF Behind
        <3>2. ASSUME NEW j \in Calls, NEW t \in Types, NEW l \in Keys, ctx[j] # "none"
              PROVE  cache[j][t][l].rv <= upstream'[target[j]][l].rv
            <4>1. target[j] \in Clusters /\ cache[j][t][l].rv <= upstream[target[j]][l].rv
                BY <3>2 DEF Behind, RunShape
            <4>. QED
                BY <2>2, <4>1
        <3>. QED
            BY <2>1, <3>1, <3>2 DEF Behind
    <2>. QED
        BY <2>1, <2>3 DEF RunShape, OneLive, QueueOrder, LateIsOld, RowsFollow, NotAhead,
                          Pending, Informs
<1>2. ASSUME NEW i \in Calls, NEW c \in Clusters, Start(i, c) PROVE IInv'
    <2>1. /\ UNCHANGED <<objects, upstream, cache, queue>>
          /\ ctx[i] = "none" /\ ctx'[i] = "live" /\ target'[i] = c
          /\ \A j \in Calls \ {i} : /\ ctx'[j] = ctx[j] /\ target'[j] = target[j]
                                    /\ watched'[j] = watched[j]
        BY <1>2 DEF Start, TypeOK
    <2>2. \A t \in Types : Pending(i, t) = {} /\ \A k \in Keys : cache[i][t][k].rv = 0
        BY <2>1 DEF RunShape, Pending, Unseen
    <2>3. RunShape' /\ OneLive'
        BY <1>2, <2>1 DEF Start, RunShape, OneLive
    <2>4. Behind'
        BY <2>1, <2>2 DEF Behind
    <2>5. \A j \in Calls, t \in Types : Pending(j, t)' = Pending(j, t)
        BY <2>1 DEF Pending
    <2>6. QueueOrder'
        BY <2>1, <2>2, <2>5 DEF QueueOrder, Informs, RunShape
    <2>7. LateIsOld'
        BY <2>1, <2>2, <2>5 DEF LateIsOld
    <2>8. RowsFollow'
        BY <2>1, <2>2, <2>5 DEF RowsFollow, NotAhead, Informs
    <2>. QED
        BY <2>3, <2>4, <2>6, <2>7, <2>8
<1>3. ASSUME NEW i \in Calls, Stop(i) PROVE IInv'
    <2>1. /\ UNCHANGED <<objects, upstream, cache, queue, target, watched>>
          /\ ctx[i] = "live" /\ ctx'[i] = "cancelled"
          /\ \A j \in Calls \ {i} : ctx'[j] = ctx[j]
        BY <1>3 DEF Stop, TypeOK
    <2>2. \A j \in Calls, t \in Types : Pending(j, t)' = Pending(j, t)
        BY <2>1 DEF Pending
    <2>3. RunShape' /\ OneLive'
        BY <2>1 DEF RunShape, OneLive
    <2>4. Behind' /\ QueueOrder'
        BY <2>1, <2>2 DEF Behind, QueueOrder, Informs
    <2>5. LateIsOld'
        BY <2>1, <2>2 DEF LateIsOld, OneLive
    <2>6. RowsFollow'
        BY <2>1, <2>2 DEF RowsFollow, NotAhead, Informs
    <2>. QED
        BY <2>3, <2>4, <2>5, <2>6
<1>4. ASSUME NEW i \in Calls, NEW t \in Types, NEW k \in Keys, Observe(i, t, k)
      PROVE  IInv'
    <2>. DEFINE new == upstream[target[i]][k]
    <2>1. /\ UNCHANGED <<objects, upstream, target, ctx, watched>>
          /\ ctx[i] = "live" /\ target[i] \in Clusters /\ Informs(i, t, k)
          /\ new.exists \/ cache[i][t][k].exists
          /\ cache' = [cache EXCEPT ![i][t][k] = new]
        BY <1>4 DEF Observe, RunShape
    <2>2. /\ new.rv \in 0..MaxVersion /\ new.rv \in Nat /\ cache[i][t][k].rv <= new.rv
          /\ new.exists => new.rv > 0
        <3>1. new.rv \in 0..MaxVersion
            BY <2>1 DEF TypeOK, ObjectState
        <3>. QED
            BY <2>1, <3>1 DEF Behind
    <2>3. PICK kind \in {"upsert", "delete", "tombstone"} : Enqueue(i, t, k, kind, new.rv)
        BY <1>4 DEF Observe
    <2>. DEFINE e == [kind |-> kind, key |-> k, rv |-> new.rv]
    <2>4. /\ queue'[i][t] = Append(queue[i][t], e)
          /\ \A j \in Calls, u \in Types : j # i \/ u # t => queue'[j][u] = queue[j][u]
          /\ Pending(i, t)' = Pending(i, t) \cup {e}
        BY <2>2, <2>3, Enqueued
    <2>5. \A j \in Calls, u \in Types : j # i \/ u # t => Pending(j, u)' = Pending(j, u)
        BY <2>4 DEF Pending
    <2>6. /\ cache'[i][t][k] = new
          /\ \A j \in Calls, u \in Types, l \in Keys :
                j # i \/ u # t \/ l # k => cache'[j][u][l] = cache[j][u][l]
          /\ \A j \in Calls, u \in Types, l \in Keys :
                cache[j][u][l].rv <= cache'[j][u][l].rv
        BY <2>1, <2>2 DEF TypeOK
    <2>7. RunShape' /\ OneLive'
        BY <2>1, <2>4, <2>6 DEF RunShape, OneLive
    <2>8. Behind'
        BY <2>1, <2>2, <2>6 DEF Behind
    <2>9. QueueOrder'
        <3>1. ASSUME NEW j \in Calls, NEW u \in Types, NEW l \in Keys, cache'[j][u][l].rv > 0
              PROVE  Informs(j, u, l)'
            BY <2>1, <2>6, <3>1 DEF QueueOrder, Informs
        <3>2. ASSUME NEW j \in Calls, NEW u \in Types, NEW f \in Pending(j, u)'
              PROVE  Informs(j, u, f.key)' /\ f.rv <= cache'[j][u][f.key].rv
            <4>1. CASE f \in Pending(j, u)
                <5>1. Informs(j, u, f.key) /\ f.rv <= cache[j][u][f.key].rv
                    BY <4>1 DEF QueueOrder
                <5>2. cache[j][u][f.key].rv <= cache'[j][u][f.key].rv
                    BY <2>6, <4>1
                <5>. QED
                    BY <2>1, <4>1, <5>1, <5>2 DEF Informs
            <4>2. CASE j = i /\ u = t /\ f = e
                BY <2>1, <2>2, <2>6, <4>2 DEF Informs
            <4>. QED
                BY <2>4, <2>5, <4>1, <4>2
        <3>3. ASSUME NEW j \in Calls, NEW u \in Types,
                     NEW m \in DOMAIN queue'[j][u], NEW n \in DOMAIN queue'[j][u],
                     m <= n, queue'[j][u][m].key = queue'[j][u][n].key
              PROVE  queue'[j][u][m].rv <= queue'[j][u][n].rv
            <4>1. CASE j = i /\ u = t
                <5>. DEFINE q == queue[i][t]
                <5>1. /\ q \in Seq(Event) /\ Len(q) \in Nat /\ DOMAIN q = 1..Len(q)
                      /\ DOMAIN queue'[i][t] = 1..Len(q) + 1
                      /\ \A x \in 1..Len(q) : queue'[i][t][x] = q[x]
                      /\ queue'[i][t][Len(q) + 1] = e
                    BY <2>4, <4>1 DEF TypeOK
                <5>2. CASE n \in 1..Len(q)
                    <6>1. m \in 1..Len(q)
                        BY <3>3, <4>1, <5>1, <5>2
                    <6>. QED
                        BY <3>3, <4>1, <5>1, <5>2, <6>1 DEF QueueOrder
                <5>3. CASE n = Len(q) + 1 /\ m \in 1..Len(q)
                    <6>1. q[m] \in Pending(i, t) /\ q[m].key = k
                        BY <3>3, <4>1, <5>1, <5>3 DEF Pending
                    <6>2. q[m].rv <= cache[i][t][k].rv /\ q[m].rv \in Nat
                        BY <6>1 DEF QueueOrder
                    <6>3. q[m].rv <= e.rv
                        BY <2>2, <6>2
                    <6>. QED
                        BY <4>1, <5>1, <5>3, <6>3
                <5>4. CASE n = Len(q) + 1 /\ m = Len(q) + 1
                    BY <2>2, <4>1, <5>1, <5>4
                <5>. QED
                    BY <3>3, <4>1, <5>1, <5>2, <5>3, <5>4
            <4>2. CASE ~(j = i /\ u = t)
                BY <2>4, <3>3, <4>2 DEF QueueOrder
            <4>. QED
                BY <4>1, <4>2
        <3>. QED
            BY <3>1, <3>2, <3>3 DEF QueueOrder
    <2>10. LateIsOld'
        <3>. SUFFICES ASSUME NEW h \in Calls, NEW j \in Calls, NEW u \in Types, NEW v \in Types,
                             ctx[h] = "live", ctx[j] = "cancelled", target[h] = target[j],
                             NEW f \in Pending(j, v)
                      PROVE  /\ cache'[h][u][f.key].rv > 0 => f.rv <= cache'[h][u][f.key].rv
                             /\ \A g \in Pending(h, u)' : g.key = f.key => f.rv <= g.rv
            BY <2>1, <2>5 DEF LateIsOld
        <3>1. f.key \in Keys /\ f.rv \in Nat
            OBVIOUS
        <3>2. CASE h = i /\ u = t /\ f.key = k
            <4>1. f.rv <= cache[j][v][k].rv /\ cache[j][v][k].rv <= new.rv
                BY <3>2 DEF QueueOrder, Behind
            <4>2. f.rv <= new.rv
                BY <2>2, <3>1, <4>1
            <4>3. \A g \in Pending(i, t) : g.key = k => f.rv <= g.rv
                BY <3>2 DEF LateIsOld
            <4>. QED
                BY <2>4, <2>6, <3>2, <4>2, <4>3
        <3>3. CASE ~(h = i /\ u = t /\ f.key = k)
            <4>1. cache'[h][u][f.key] = cache[h][u][f.key]
                BY <2>6, <3>1, <3>3
            <4>2. \A g \in Pending(h, u)' : g.key = f.key => g \in Pending(h, u)
                BY <2>4, <2>5, <3>3
            <4>. QED
                BY <4>1, <4>2 DEF LateIsOld
        <3>. QED
            BY <3>2, <3>3
    <2>11. RowsFollow'
        <3>1. ASSUME NEW h \in Calls, NEW u \in Types, NEW l \in Keys, NEW r, NotAhead(h, u, l, r),
                     ctx[h] = "live"
              PROVE  NotAhead(h, u, l, r)'
            <4>1. target[h] \in Clusters
                BY <3>1 DEF RunShape
            <4>2. \A v \in Types : objects[target[h]][l] <= cache[h][v][l].rv
                                   => objects[target[h]][l] <= cache'[h][v][l].rv
                BY <2>6, <4>1
            <4>. QED
                BY <2>1, <3>1, <4>2 DEF NotAhead, Informs
        <3>2. ASSUME NEW r, r = new.rv PROVE NotAhead(i, t, k, r)'
            BY <2>1, <2>2, <3>2 DEF NotAhead, Behind
        <3>3. ASSUME NEW h \in Calls, NEW u \in Types, NEW l \in Keys, NEW r, ctx[h] = "live",
                     r = cache'[h][u][l].rv, r > 0
              PROVE  NotAhead(h, u, l, r)'
            <4>1. CASE h = i /\ u = t /\ l = k
                BY <2>6, <3>2, <3>3, <4>1
            <4>2. CASE ~(h = i /\ u = t /\ l = k)
                BY <2>6, <3>1, <3>3, <4>2 DEF RowsFollow
            <4>. QED
                BY <4>1, <4>2
        <3>4. ASSUME NEW h \in Calls, NEW u \in Types, NEW f \in Pending(h, u)', ctx[h] = "live"
              PROVE  NotAhead(h, u, f.key, f.rv)'
            <4>1. CASE f \in Pending(h, u)
                BY <3>1, <3>4, <4>1 DEF RowsFollow
            <4>2. CASE h = i /\ u = t /\ f = e
                BY <3>2, <4>2
            <4>. QED
                BY <2>4, <2>5, <4>1, <4>2
        <3>. QED
            BY <2>1, <3>3, <3>4 DEF RowsFollow, NotAhead
    <2>. QED
        BY <2>7, <2>8, <2>9, <2>10, <2>11
<1>5. ASSUME NEW i \in Calls, NEW t \in Types, NEW k \in Keys, Resync(i, t, k)
      PROVE  IInv'
    <2>. DEFINE r == cache[i][t][k].rv
                e == [kind |-> "upsert", key |-> k, rv |-> r]
    <2>1. /\ UNCHANGED <<objects, upstream, cache, target, ctx, watched>>
          /\ ctx[i] = "live" /\ Enqueue(i, t, k, "upsert", r)
          /\ r \in 0..MaxVersion /\ r \in Nat /\ r > 0
        BY <1>5 DEF Resync, Behind, TypeOK, ObjectState
    <2>2. Informs(i, t, k)
        BY <2>1 DEF QueueOrder
    <2>3. /\ queue'[i][t] = Append(queue[i][t], e)
          /\ \A j \in Calls, u \in Types : j # i \/ u # t => queue'[j][u] = queue[j][u]
          /\ Pending(i, t)' = Pending(i, t) \cup {e}
        BY <2>1, Enqueued
    <2>4. \A j \in Calls, u \in Types : j # i \/ u # t => Pending(j, u)' = Pending(j, u)
        BY <2>3 DEF Pending
    <2>5. RunShape' /\ OneLive' /\ Behind'
        BY <2>1, <2>3 DEF RunShape, OneLive, Behind
    <2>6. QueueOrder'
        <3>1. ASSUME NEW j \in Calls, NEW u \in Types, NEW f \in Pending(j, u)'
              PROVE  Informs(j, u, f.key)' /\ f.rv <= cache'[j][u][f.key].rv
            <4>1. CASE f \in Pending(j, u)
                BY <2>1, <4>1 DEF QueueOrder, Informs
            <4>2. CASE j = i /\ u = t /\ f = e
                BY <2>1, <2>2, <4>2 DEF Informs
            <4>. QED
                BY <2>3, <2>4, <4>1, <4>2
        <3>2. ASSUME NEW j \in Calls, NEW u \in Types,
                     NEW m \in DOMAIN queue'[j][u], NEW n \in DOMAIN queue'[j][u],
                     m <= n, queue'[j][u][m].key = queue'[j][u][n].key
              PROVE  queue'[j][u][m].rv <= queue'[j][u][n].rv
            <4>1. CASE j = i /\ u = t
                <5>. DEFINE q == queue[i][t]
                <5>1. /\ q \in Seq(Event) /\ Len(q) \in Nat /\ DOMAIN q = 1..Len(q)
                      /\ DOMAIN queue'[i][t] = 1..Len(q) + 1
                      /\ \A x \in 1..Len(q) : queue'[i][t][x] = q[x]
                      /\ queue'[i][t][Len(q) + 1] = e
                    BY <2>3, <4>1 DEF TypeOK
                <5>2. CASE n \in 1..Len(q)
                    <6>1. m \in 1..Len(q)
                        BY <3>2, <4>1, <5>1, <5>2
                    <6>. QED
                        BY <3>2, <4>1, <5>1, <5>2, <6>1 DEF QueueOrder
                <5>3. CASE n = Len(q) + 1 /\ m \in 1..Len(q)
                    <6>1. q[m] \in Pending(i, t) /\ q[m].key = k
                        BY <3>2, <4>1, <5>1, <5>3 DEF Pending
                    <6>2. q[m].rv <= e.rv
                        BY <6>1 DEF QueueOrder
                    <6>. QED
                        BY <4>1, <5>1, <5>3, <6>2
                <5>4. CASE n = Len(q) + 1 /\ m = Len(q) + 1
                    BY <2>1, <4>1, <5>1, <5>4
                <5>. QED
                    BY <3>2, <4>1, <5>1, <5>2, <5>3, <5>4
            <4>2. CASE ~(j = i /\ u = t)
                BY <2>3, <3>2, <4>2 DEF QueueOrder
            <4>. QED
                BY <4>1, <4>2
        <3>. QED
            BY <2>1, <3>1, <3>2 DEF QueueOrder, Informs
    <2>7. LateIsOld'
        <3>. SUFFICES ASSUME NEW h \in Calls, NEW j \in Calls, NEW u \in Types, NEW v \in Types,
                             ctx[h] = "live", ctx[j] = "cancelled", target[h] = target[j],
                             NEW f \in Pending(j, v)
                      PROVE  /\ cache[h][u][f.key].rv > 0 => f.rv <= cache[h][u][f.key].rv
                             /\ \A g \in Pending(h, u)' : g.key = f.key => f.rv <= g.rv
            BY <2>1, <2>4 DEF LateIsOld
        <3>1. /\ cache[h][u][f.key].rv > 0 => f.rv <= cache[h][u][f.key].rv
              /\ \A g \in Pending(h, u) : g.key = f.key => f.rv <= g.rv
            BY DEF LateIsOld
        <3>2. ASSUME h = i, u = t, f.key = k PROVE f.rv <= e.rv
            BY <2>1, <3>1, <3>2
        <3>. QED
            BY <2>3, <2>4, <3>1, <3>2
    <2>8. RowsFollow'
        <3>1. NotAhead(i, t, k, r)
            BY <2>1 DEF RowsFollow
        <3>2. ASSUME NEW h \in Calls, NEW u \in Types, NEW l \in Keys, NEW x
              PROVE  NotAhead(h, u, l, x)' <=> NotAhead(h, u, l, x)
            BY <2>1 DEF NotAhead, Informs
        <3>3. ASSUME NEW h \in Calls, NEW u \in Types, NEW f \in Pending(h, u)', ctx[h] = "live"
              PROVE  NotAhead(h, u, f.key, f.rv)'
            <4>1. CASE f \in Pending(h, u)
                BY <3>2, <3>3, <4>1 DEF RowsFollow
            <4>2. CASE h = i /\ u = t /\ f = e
                BY <3>1, <3>2, <4>2
            <4>. QED
                BY <2>3, <2>4, <4>1, <4>2
        <3>. QED
            BY <2>1, <3>2, <3>3 DEF RowsFollow
    <2>. QED
        BY <2>5, <2>6, <2>7, <2>8
<1>6. ASSUME NEW i \in Calls, NEW t \in Types, Handle(i, t) PROVE IInv'
    <2>0. queue[i][t] # <<>> /\ queue' = [queue EXCEPT ![i][t] = Tail(@)]
        BY <1>6 DEF Handle
    <2>10. PICK e : e = Head(queue[i][t])
        OBVIOUS
    <2>1. /\ UNCHANGED <<upstream, cache, target, ctx, watched>>
          /\ objects' = Written(i, e) \/ objects' = objects
        BY <1>6, <2>10 DEF Handle
    <2>2. /\ e \in Pending(i, t) /\ e \in Event
          /\ e = queue[i][t][1] /\ 1 \in DOMAIN queue[i][t]
          /\ \A j \in Calls, u \in Types : j # i \/ u # t => queue'[j][u] = queue[j][u]
          /\ \A n \in DOMAIN queue'[i][t] :
                /\ n \in Nat /\ n > 0
                /\ n + 1 \in DOMAIN queue[i][t] /\ queue'[i][t][n] = queue[i][t][n + 1]
          /\ \A j \in Calls, u \in Types : Pending(j, u)' \subseteq Pending(j, u)
        <3>1. Head(queue[i][t]) \in Pending(i, t)
            BY <2>0, Handled
        <3>2. /\ Head(queue[i][t]) \in Event
              /\ Head(queue[i][t]) = queue[i][t][1] /\ 1 \in DOMAIN queue[i][t]
            BY <2>0, Handled
        <3>3. \A j \in Calls, u \in Types : j # i \/ u # t => queue'[j][u] = queue[j][u]
            BY <2>0, Handled
        <3>4. \A n \in DOMAIN queue'[i][t] :
                /\ n \in Nat /\ n > 0
                /\ n + 1 \in DOMAIN queue[i][t] /\ queue'[i][t][n] = queue[i][t][n + 1]
            BY <2>0, Handled
        <3>5. \A j \in Calls, u \in Types : Pending(j, u)' \subseteq Pending(j, u)
            BY <2>0, Handled
        <3>. QED
            BY <2>10, <3>1, <3>2, <3>3, <3>4, <3>5
    <2>3. /\ ctx[i] # "none" /\ target[i] \in Clusters
          /\ e.key \in Keys /\ e.rv \in Nat
          /\ Informs(i, t, e.key) /\ e.rv <= cache[i][t][e.key].rv
          /\ cache[i][t][e.key].rv <= upstream[target[i]][e.key].rv
        BY <2>0, <2>2 DEF RunShape, QueueOrder, Behind
    <2>4. /\ \A d \in Clusters, l \in Keys :
                d # target[i] \/ l # e.key => objects'[d][l] = objects[d][l]
          /\ objects'[target[i]][e.key] \in {objects[target[i]][e.key], e.rv, 0}
        <3>1. \/ objects' = objects
              \/ objects' = [objects EXCEPT ![target[i]][e.key] = e.rv]
              \/ objects' = [objects EXCEPT ![target[i]][e.key] = 0]
            BY <2>1 DEF Written, UpsertObject, DeleteObject, Absent
        <3>2. CASE objects' = objects
            BY <3>2
        <3>3. ASSUME NEW x, objects' = [objects EXCEPT ![target[i]][e.key] = x]
              PROVE  /\ \A d \in Clusters, l \in Keys :
                           d # target[i] \/ l # e.key => objects'[d][l] = objects[d][l]
                     /\ objects'[target[i]][e.key] = x
            BY <2>3, <3>3 DEF TypeOK
        <3>. QED
            BY <3>1, <3>2, <3>3
    <2>5. RunShape' /\ OneLive'
        <3>1. \A j \in Calls, u \in Types : queue[j][u] = <<>> => queue'[j][u] = <<>>
            BY <2>0, <2>2
        <3>. QED
            BY <2>1, <3>1 DEF RunShape, OneLive
    <2>6. Behind'
        <3>1. objects'[target[i]][e.key] <= upstream[target[i]][e.key].rv
            <4>1. /\ objects[target[i]][e.key] <= upstream[target[i]][e.key].rv
                  /\ upstream[target[i]][e.key].rv \in Nat
                  /\ cache[i][t][e.key].rv \in Nat
                BY <2>3 DEF Behind
            <4>2. /\ e.rv <= upstream[target[i]][e.key].rv
                  /\ 0 <= upstream[target[i]][e.key].rv
                BY <2>3, <4>1
            <4>. QED
                BY <2>4, <4>1, <4>2
        <3>. QED
            BY <2>1, <2>4, <3>1 DEF Behind
    <2>7. QueueOrder'
        <3>1. ASSUME NEW j \in Calls, NEW u \in Types,
                     NEW m \in DOMAIN queue'[j][u], NEW n \in DOMAIN queue'[j][u],
                     m <= n, queue'[j][u][m].key = queue'[j][u][n].key
              PROVE  queue'[j][u][m].rv <= queue'[j][u][n].rv
            <4>1. CASE j = i /\ u = t
                <5>1. /\ m + 1 \in DOMAIN queue[i][t] /\ n + 1 \in DOMAIN queue[i][t]
                      /\ m + 1 <= n + 1
                      /\ queue'[i][t][m] = queue[i][t][m + 1]
                      /\ queue'[i][t][n] = queue[i][t][n + 1]
                    BY <2>2, <3>1, <4>1
                <5>. QED
                    BY <3>1, <4>1, <5>1 DEF QueueOrder
            <4>2. CASE ~(j = i /\ u = t)
                BY <2>2, <3>1, <4>2 DEF QueueOrder
            <4>. QED
                BY <4>1, <4>2
        <3>. QED
            BY <2>1, <2>2, <3>1 DEF QueueOrder, Informs
    <2>8. LateIsOld'
        BY <2>1, <2>2 DEF LateIsOld
    <2>9. RowsFollow'
        <3>1. ASSUME NEW f \in Pending(i, t)', f.key = e.key
              PROVE  e.rv <= f.rv
            <4>1. PICK n \in DOMAIN queue'[i][t] : f = queue'[i][t][n]
                BY DEF Pending
            <4>2. n + 1 \in DOMAIN queue[i][t] /\ f = queue[i][t][n + 1] /\ 1 <= n + 1
                BY <2>2, <4>1
            <4>. QED
                BY <2>2, <3>1, <4>2 DEF QueueOrder
        <3>2. ASSUME NEW h \in Calls, NEW u \in Types, NEW l \in Keys, NEW x \in Nat,
                     NotAhead(h, u, l, x), ctx[h] = "live",
                     h # i /\ target[h] = target[i] /\ l = e.key => e.rv <= x,
                     h = i /\ u = t /\ l = e.key => e.rv <= x
              PROVE  NotAhead(h, u, l, x)'
            <4>1. target[h] \in Clusters
                BY <3>2 DEF RunShape
            <4>2. CASE target[h] # target[i] \/ l # e.key \/ objects'[target[i]][e.key] = objects[target[i]][e.key]
                <5>1. objects'[target[h]][l] = objects[target[h]][l]
                    BY <2>4, <4>1, <4>2
                <5>. QED
                    BY <2>1, <3>2, <5>1 DEF NotAhead, Informs
            <4>3. CASE target[h] = target[i] /\ l = e.key /\ objects'[target[i]][e.key] = 0
                <5>1. objects'[target'[h]][l] <= x
                    BY <2>1, <4>3
                <5>. QED
                    BY <5>1 DEF NotAhead
            <4>4. CASE target[h] = target[i] /\ l = e.key /\ objects'[target[i]][e.key] = e.rv
                <5>1. CASE h # i \/ u = t
                    BY <2>1, <3>2, <4>4, <5>1 DEF NotAhead
                <5>2. CASE h = i /\ u # t
                    BY <2>1, <2>3, <3>2, <4>4, <5>2 DEF NotAhead, Informs
                <5>. QED
                    BY <5>1, <5>2
            <4>. QED
                BY <2>4, <4>2, <4>3, <4>4
        <3>3. ASSUME NEW h \in Calls, ctx[h] = "live", h # i, target[h] = target[i]
              PROVE  ctx[i] = "cancelled"
            BY <2>3, <3>3 DEF OneLive, TypeOK
        <3>4. ASSUME NEW h \in Calls, NEW u \in Types, NEW l \in Keys, ctx[h] = "live",
                     cache[h][u][l].rv > 0
              PROVE  NotAhead(h, u, l, cache[h][u][l].rv)'
            <4>1. NotAhead(h, u, l, cache[h][u][l].rv) /\ cache[h][u][l].rv \in Nat
                BY <3>4 DEF RowsFollow
            <4>2. h # i /\ target[h] = target[i] /\ l = e.key => e.rv <= cache[h][u][l].rv
                BY <2>2, <3>3, <3>4 DEF LateIsOld
            <4>3. PICK x \in Nat : x = cache[h][u][l].rv
                BY <4>1
            <4>4. NotAhead(h, u, l, x)'
                BY <2>3, <3>2, <3>4, <4>1, <4>2, <4>3
            <4>. QED
                BY <2>1, <4>3, <4>4 DEF NotAhead
        <3>5. ASSUME NEW h \in Calls, NEW u \in Types, NEW f \in Pending(h, u)', ctx[h] = "live"
              PROVE  NotAhead(h, u, f.key, f.rv)'
            <4>1. f \in Pending(h, u)
                BY <2>2
            <4>2. NotAhead(h, u, f.key, f.rv) /\ f.key \in Keys /\ f.rv \in Nat
                BY <3>5, <4>1 DEF RowsFollow
            <4>3. h # i /\ target[h] = target[i] /\ f.key = e.key => e.rv <= f.rv
                BY <2>2, <3>3, <3>5, <4>1 DEF LateIsOld
            <4>. QED
                BY <3>1, <3>2, <3>5, <4>2, <4>3
        <3>. QED
            BY <2>1, <3>4, <3>5 DEF RowsFollow
    <2>. QED
        BY <2>5, <2>6, <2>7, <2>8, <2>9
<1>7. ASSUME NEW i \in Calls, Drop(i) PROVE IInv'
    <2>1. /\ UNCHANGED <<objects, upstream, cache, target, ctx, watched>>
          /\ ctx[i] = "cancelled" /\ \A t \in Types : queue'[i][t] = <<>>
          /\ \A j \in Calls \ {i} : queue'[j] = queue[j]
        BY <1>7 DEF Drop, TypeOK
    <2>2. \A j \in Calls, t \in Types : Pending(j, t)' \subseteq Pending(j, t)
        BY <2>1 DEF Pending
    <2>3. RunShape' /\ OneLive' /\ Behind'
        BY <2>1 DEF RunShape, OneLive, Behind
    <2>4. QueueOrder'
        <3>1. ASSUME NEW j \in Calls, NEW t \in Types
              PROVE  queue'[j][t] = queue[j][t] \/ DOMAIN queue'[j][t] = {}
            BY <2>1
        <3>. QED
            BY <2>1, <2>2, <3>1 DEF QueueOrder, Informs
    <2>5. LateIsOld'
        BY <2>1, <2>2 DEF LateIsOld
    <2>6. RowsFollow'
        BY <2>1, <2>2 DEF RowsFollow, NotAhead, Informs
    <2>. QED
        BY <2>3, <2>4, <2>5, <2>6
<1>8. CASE UNCHANGED vars
    BY <1>8 DEF vars, RunShape, OneLive, Behind, QueueOrder, LateIsOld, RowsFollow, NotAhead,
                Pending, Informs
<1>. QED
    BY <1>1, <1>2, <1>3, <1>4, <1>5, <1>6, <1>7, <1>8 DEF Next, Informers

\* The inductive invariant holds in every reachable state.
LEMMA InvCorrect == Spec => []IInv
<1>. QED
    BY InvInit, InvStep, PTL DEF Spec

\* Informers, handlers and the API server keep every variable in its type:
\* in particular no row is given a version the API server has never used.
THEOREM TypeCorrect == Spec => []TypeOK
<1>1. IInv => TypeOK
    BY DEF IInv
<1>. QED
    BY <1>1, InvCorrect, PTL

\* No handler of a live run puts an older state of an object over the newer
\* one that its own informer had written: only a handler of a cancelled run,
\* or of an informer that lags behind one of another served version, does.
THEOREM OnlyOthersRegressCorrect == Spec => OnlyOthersRegress
<1>1. IInv /\ [Next]_vars => [RegressIsOthers]_vars
    <2>. SUFFICES ASSUME IInv, Next PROVE RegressIsOthers
        BY DEF vars
    <2>. USE Versions DEF IInv
    <2>1. ASSUME UNCHANGED objects PROVE RegressIsOthers
        BY <2>1 DEF RegressIsOthers
    <2>2. ASSUME NEW i \in Calls, NEW t \in Types, Handle(i, t) PROVE RegressIsOthers
        <3>. DEFINE e == Head(queue[i][t])
        <3>1. /\ queue[i][t] # <<>> /\ queue' = [queue EXCEPT ![i][t] = Tail(@)]
              /\ objects' = Written(i, e) \/ objects' = objects
            BY <2>2 DEF Handle
        <3>2. e \in Pending(i, t) /\ e.key \in Keys /\ e.rv \in Nat
            BY <3>1, Handled
        <3>3. ctx[i] # "none" /\ target[i] \in Clusters
            BY <3>1 DEF RunShape
        <3>4. queue'[i][t] # queue[i][t]
            <4>1. queue[i][t] \in Seq(Event) /\ queue'[i][t] = Tail(queue[i][t])
                BY <3>1 DEF TypeOK
            <4>2. Len(Tail(queue[i][t])) # Len(queue[i][t])
                BY <3>1, <4>1
            <4>. QED
                BY <4>1, <4>2
        <3>5. ASSUME NEW c \in Clusters, NEW k \in Keys,
                     objects'[c][k] # Absent, objects'[c][k] < objects[c][k]
              PROVE  c = target[i] /\ k = e.key /\ objects'[c][k] = e.rv
            BY <3>1, <3>2, <3>3, <3>5 DEF Written, UpsertObject, DeleteObject, TypeOK
        <3>6. ASSUME ctx[i] = "live", e.rv < objects[target[i]][e.key]
              PROVE  \E u \in Types \ {t} : Informs(i, u, e.key) /\ cache[i][u][e.key].rv > e.rv
            <4>1. NotAhead(i, t, e.key, e.rv)
                BY <3>2, <3>6 DEF RowsFollow, Live
            <4>2. ~(objects[target[i]][e.key] <= e.rv)
                BY <3>2, <3>3, <3>6
            <4>3. PICK u \in Types \ {t} : /\ Informs(i, u, e.key)
                                            /\ objects[target[i]][e.key] <= cache[i][u][e.key].rv
                BY <4>1, <4>2 DEF NotAhead
            <4>4. cache[i][u][e.key].rv > e.rv
                BY <3>2, <3>3, <3>6, <4>3
            <4>. QED
                BY <4>3, <4>4
        <3>7. ctx[i] \in {"live", "cancelled"}
            BY <3>3 DEF TypeOK
        <3>. QED
            BY <3>3, <3>4, <3>5, <3>6, <3>7 DEF RegressIsOthers
    <2>3. ASSUME ~(\E i \in Calls, t \in Types : Handle(i, t)) PROVE UNCHANGED objects
        BY <2>3 DEF Next, Informers, WriteUpstream, Start, Stop, Observe, Resync, Drop, eventVars
    <2>. QED
        BY <2>1, <2>2, <2>3
<1>. QED
    BY <1>1, InvCorrect, PTL DEF Spec, OnlyOthersRegress
=============================================================================
