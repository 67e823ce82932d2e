--------------------------- MODULE CommandProofs ---------------------------
(***************************************************************************)
(* Proofs about Command, for every set of clusters, kubeconfig files and   *)
(* flags and any number of starts: main.go serialises the calls for a      *)
(* cluster, although the controller it calls does not.                     *)
(***************************************************************************)
EXTENDS Command, FiniteSetTheorems, TLAPS

\* The goroutine of call k belongs to the process that is running.
Active(k) ==
    job[k] \in {"loading", "starting", "syncing", "engaging", "engaged", "failed"}

\* Goroutines of the running process, and no others, are active: a call of an
\* earlier start is over, and one that was never started has done nothing.
ProcessShape ==
    \A k \in Calls :
        /\ job[k] # "none" => k[1] <= starts
        /\ Active(k) => process = "serving" /\ k[1] = starts

\* parseKubeconfigs returns a map: a process has one goroutine per cluster.
OnePerCluster ==
    \A j, k \in Calls :
        Active(j) /\ Active(k) /\ ClusterOf(j) = ClusterOf(k) => j = k

\* Where Engage is in call k, by where its goroutine is.
JobShape ==
    \A k \in Calls :
        /\ job[k] \in {"none", "loading", "starting", "syncing"} => pc[k] = "idle"
        /\ pc[k] # "idle" => target[k] = ClusterOf(k)
        /\ Ctl!InProgress(k) => job[k] = "engaging"
        /\ Ctl!Live(k) => job[k] \in {"engaging", "engaged"}
        /\ Active(k) => ctx[k] # "cancelled"
        /\ job[k] = "engaged" => Ctl!Live(k)

\* The locations a call can be at before and after its context exists; the
\* command never calls Disengage.
CtxShape ==
    \A k \in Calls :
        /\ pc[k] # "markStale"
        /\ pc[k] \in {"idle", "markActive", "register"} => ctx[k] = "none"
        /\ pc[k] = "watching" => ctx[k] # "none"
        /\ Ctl!Live(k) => pc[k] \in {"watching", "fetch", "clear", "populate"}

\* Whatever the controller's map holds is a live run of the cluster.
MapHoldsLive ==
    \A c \in Clusters :
        registered[c] # None => Ctl!Live(registered[c]) /\ target[registered[c]] = c

\* From Engage's UpsertCluster on, the row says active.
RowActive ==
    \A k \in Calls :
        Ctl!Live(k) \/ (Ctl!InProgress(k) /\ pc[k] # "markActive")
            => clusters[ClusterOf(k)].status = "active"

IInv == /\ TypeOK /\ ProcessShape /\ OnePerCluster /\ JobShape
        /\ CtxShape /\ MapHoldsLive /\ RowActive

----------------------------------------------------------------------------
\* What the proofs use of the constants: SyncController's assumption.
LEMMA Constants ==
    /\ None \notin Clusters /\ None \notin Calls
    /\ CRDTypes \subseteq Types
    /\ IsFiniteSet(Types)
    /\ MaxFaults \in Nat /\ MaxChanges \in Nat /\ MaxTime \in Nat
BY CommandAssumption

\* The first list of a CRD informer yields a natural number of notifications.
LEMMA CRDsCounted ==
    ASSUME Ctl!TypeOK, NEW c \in Clusters
    PROVE  Ctl!Cardinality(Ctl!CRDs(c)) \in Nat
<1>. DEFINE S == served[c] \cap CRDTypes
            f == [t \in S |-> GroupResource[t]]
<1>1. IsFiniteSet(S)
    BY FS_Subset, Constants DEF Ctl!TypeOK
<1>2. f \in Surjection(S, Ctl!CRDs(c))
    BY DEF Surjection, Ctl!CRDs, Resources, Ctl!Resources
<1>3. IsFiniteSet(Ctl!CRDs(c))
    BY <1>1, <1>2, FS_Surjection
<1>4. Ctl!Cardinality(Ctl!CRDs(c)) = Cardinality(Ctl!CRDs(c))
    BY DEF Ctl!Cardinality, Cardinality
<1>. QED
    BY <1>3, <1>4, FS_CardinalityType

\* A failing request keeps the count within its bound.
LEMMA FaultType == Ctl!TypeOK /\ Ctl!Fault => faults' \in 0..MaxFaults
    BY Constants DEF Ctl!TypeOK, Ctl!Fault

\* UpsertCluster writes a well-formed row.
LEMMA UpsertClusterType ==
    ASSUME Ctl!TypeOK, NEW c \in Clusters, NEW s \in {"active", "stale"}
    PROVE  Ctl!UpsertCluster(clusters, c, s, now) \in [Clusters -> Ctl!ClusterRow]
<1>1. [status |-> s, lastSeen |-> now] \in Ctl!ClusterRow
    BY Constants DEF Ctl!TypeOK, Ctl!ClusterRow
<1>. QED
    BY <1>1 DEF Ctl!TypeOK, Ctl!UpsertCluster

\* The critical section that cancels a run keeps the types of what it writes.
LEMMA CancelTypes ==
    ASSUME Ctl!TypeOK, NEW c \in Clusters, Ctl!CancelExisting(c)
    PROVE  /\ registered' \in [Clusters -> Calls \cup {None}]
           /\ ctx' \in [Calls -> {"none", "live", "cancelled"}]
           /\ events' \in [Calls -> Nat]
           /\ window' \in SUBSET Calls
<1>1. CASE registered[c] = None
    BY <1>1 DEF Ctl!CancelExisting, Ctl!TypeOK, Ctl!watcher
<1>2. CASE registered[c] # None
    BY <1>2 DEF Ctl!CancelExisting, Ctl!TypeOK
<1>. QED
    BY <1>1, <1>2

\* Every action of the controller that the command takes keeps its types.
LEMMA ControllerTypes ==
    ASSUME Ctl!TypeOK
    PROVE  \/ \E k \in Calls : \/ Ctl!BeginEngage(k, ClusterOf(k))
                               \/ Ctl!Step(k) \/ Ctl!Watch(k)
           \/ \E c \in Clusters, t \in CRDTypes : Ctl!ChangeCRD(c, t)
           \/ Ctl!Tick \/ Ctl!Crash
           => Ctl!TypeOK'
<1>. USE Constants
     DEF Ctl!TypeOK, Ctl!Location, Ctl!disc, Ctl!watcher, Ctl!tables, Ctl!env
<1>0. ASSUME NEW k \in Calls PROVE ClusterOf(k) \in Clusters
    BY DEF Calls, Entries, ClusterOf
<1>1. ASSUME NEW k \in Calls, Ctl!BeginEngage(k, ClusterOf(k))
      PROVE  Ctl!TypeOK'
    BY <1>0, <1>1, CancelTypes DEF Ctl!BeginEngage
<1>3. ASSUME NEW k \in Calls, Ctl!MarkActive(k)
      PROVE  Ctl!TypeOK'
    <2>1. Ctl!UpsertCluster(clusters, target[k], "active", now) \in [Clusters -> Ctl!ClusterRow]
        BY <1>3, UpsertClusterType DEF Ctl!MarkActive
    <2>. QED
        BY <1>3, <2>1, FaultType DEF Ctl!MarkActive
<1>4. ASSUME NEW k \in Calls, Ctl!MarkStale(k)
      PROVE  Ctl!TypeOK'
    <2>1. Ctl!UpsertCluster(clusters, target[k], "stale", now) \in [Clusters -> Ctl!ClusterRow]
        BY <1>4, UpsertClusterType DEF Ctl!MarkStale
    <2>. QED
        BY <1>4, <2>1, FaultType DEF Ctl!MarkStale
<1>5. ASSUME NEW k \in Calls, Ctl!Fetch(k)
      PROVE  Ctl!TypeOK'
    BY <1>5, FaultType DEF Ctl!Fetch, Ctl!DiscoveryFailed, Ctl!Listed
<1>6. ASSUME NEW k \in Calls, Ctl!Clear(k)
      PROVE  Ctl!TypeOK'
    BY <1>6, FaultType DEF Ctl!Clear, Ctl!DiscoveryFailed, Ctl!DeleteResourceTypesForCluster
<1>7. ASSUME NEW k \in Calls, Ctl!Populate(k)
      PROVE  Ctl!TypeOK'
    BY <1>7, FaultType DEF Ctl!Populate, Ctl!UpsertResourceType
<1>8. ASSUME NEW k \in Calls, Ctl!Discovered(k)
      PROVE  Ctl!TypeOK'
    BY <1>8 DEF Ctl!Discovered
<1>9. ASSUME NEW k \in Calls, Ctl!Register(k)
      PROVE  Ctl!TypeOK'
    <2>1. Ctl!Cardinality(Ctl!CRDs(target[k])) \in Nat
        BY <1>9, CRDsCounted DEF Ctl!Register
    <2>. QED
        BY <1>9, <2>1, FaultType DEF Ctl!Register
<1>10. ASSUME NEW k \in Calls, Ctl!Watch(k)
       PROVE  Ctl!TypeOK'
    BY <1>10 DEF Ctl!Watch, Ctl!HandleCRDEvent, Ctl!ResyncCRDs, Ctl!Refresh, Ctl!WindowExpires
<1>11. ASSUME NEW c \in Clusters, NEW t \in CRDTypes, Ctl!ChangeCRD(c, t)
       PROVE  Ctl!TypeOK'
    BY <1>11 DEF Ctl!ChangeCRD
<1>12. CASE Ctl!Tick
    BY <1>12 DEF Ctl!Tick
<1>13. CASE Ctl!Crash
    BY <1>13 DEF Ctl!Crash
<1>. QED
    BY <1>1, <1>3, <1>4, <1>5, <1>6, <1>7, <1>8, <1>9, <1>10, <1>11, <1>12, <1>13
    DEF Ctl!Step, Ctl!Discover

\* A call is for a cluster.
LEMMA CallCluster == \A k \in Calls : ClusterOf(k) \in Clusters
BY DEF Calls, Entries, ClusterOf

\* The command's state is well formed when it has never been started.
LEMMA TypeInit == Init => TypeOK
<1>. SUFFICES ASSUME Init PROVE TypeOK
    OBVIOUS
<1>1. Ctl!TypeOK
    BY Constants
    DEF Init, Ctl!Init, Ctl!TypeOK, Ctl!ClusterRow, Ctl!NoRow, Ctl!Location
<1>2. starts \in 0..MaxStarts
    BY CommandAssumption DEF Init
<1>. QED
    BY <1>1, <1>2 DEF Init, TypeOK, Job

\* Every action keeps the type invariant.
LEMMA TypeStep == TypeOK /\ [Next]_vars => TypeOK'
<1>. SUFFICES ASSUME TypeOK, [Next]_vars PROVE TypeOK'
    OBVIOUS
<1>. USE DEF Goes, Job
<1>1. ASSUME NEW flag \in Flags, Launch(flag) PROVE TypeOK'
    <2>1. Ctl!TypeOK'
        BY <1>1 DEF Launch, ctlVars, TypeOK, Ctl!TypeOK
    <2>2. starts' \in 0..MaxStarts
        BY <1>1, CommandAssumption DEF Launch, TypeOK
    <2>3. job' \in [Calls -> Job]
        BY <1>1 DEF Launch, TypeOK
    <2>. QED
        BY <1>1, <2>1, <2>2, <2>3 DEF Launch, TypeOK
<1>2. ASSUME NEW k \in Calls, LoadKubeconfig(k) \/ StartCluster(k) \/ Report(k)
      PROVE  TypeOK'
    <2>1. Ctl!TypeOK'
        BY <1>2 DEF LoadKubeconfig, StartCluster, Report, ctlVars, TypeOK, Ctl!TypeOK
    <2>. QED
        BY <1>2, <2>1 DEF LoadKubeconfig, StartCluster, Report, TypeOK
<1>3. ASSUME NEW k \in Calls, CallEngage(k) PROVE TypeOK'
    <2>1. Ctl!TypeOK'
        BY <1>3, ControllerTypes DEF CallEngage, TypeOK
    <2>. QED
        BY <1>3, <2>1 DEF CallEngage, TypeOK
<1>4. ASSUME NEW k \in Calls, Run(k) PROVE TypeOK'
    <2>1. Ctl!TypeOK'
        BY <1>4, ControllerTypes DEF Run, TypeOK
    <2>. QED
        BY <1>4, <2>1 DEF Run, TypeOK, cmdVars
<1>5. CASE Exit
    <2>1. Ctl!TypeOK'
        BY <1>5, ControllerTypes DEF Exit, TypeOK
    <2>. QED
        BY <1>5, <2>1 DEF Exit, TypeOK
<1>6. CASE Environment
    <2>1. Ctl!TypeOK'
        BY <1>6, ControllerTypes DEF Environment, TypeOK
    <2>. QED
        BY <1>6, <2>1 DEF Environment, TypeOK, cmdVars
<1>7. CASE UNCHANGED vars
    BY <1>7 DEF vars, ctlVars, cmdVars, TypeOK, Ctl!TypeOK
<1>. QED
    BY <1>1, <1>2, <1>3, <1>4, <1>5, <1>6, <1>7 DEF Next, Goroutine

\* The state of the command, and of the controller in it, is well formed.
THEOREM TypeCorrect == Spec => []TypeOK
    BY TypeInit, TypeStep, PTL DEF Spec

----------------------------------------------------------------------------
\* What a step of Engage, or of the goroutines it left behind, does to what
\* the invariant speaks of: it moves call k only and never writes a status
\* but active; it registers the run, or leaves contexts and the map alone.
Moves(k) ==
    /\ target' = target
    /\ \A j \in Calls \ {k} : pc'[j] = pc[j] /\ ctx'[j] = ctx[j]
    /\ \A c \in Clusters : clusters'[c].status \in {clusters[c].status, "active"}
    /\ \/ /\ registered' = registered /\ ctx' = ctx
          /\ pc'[k] = "idle" <=> pc[k] = "idle"
          /\ pc'[k] \notin {"markActive", "markStale"} \/ pc'[k] = pc[k]
          /\ pc'[k] = "register" => ctx[k] = "none"
          /\ pc'[k] = "watching" => ctx[k] # "none"
          /\ Ctl!Live(k) => pc'[k] \in {"watching", "fetch", "clear", "populate"}
          /\ Ctl!InProgress(k)' => Ctl!InProgress(k)
          /\ Ctl!InProgress(k)' /\ pc'[k] # "markActive" /\ pc[k] = "markActive"
                => clusters'[target[k]].status = "active"
       \/ /\ pc[k] = "register" /\ pc'[k] = "watching" /\ ctx'[k] = "live"
          /\ registered' = [registered EXCEPT ![target[k]] = k]

\* Every step of a call is of this form.
LEMMA StepMoves ==
    ASSUME TypeOK, CtxShape, NEW k \in Calls
    PROVE  Ctl!Step(k) \/ Ctl!Watch(k) => Moves(k)
<1>. Ctl!TypeOK
    BY DEF TypeOK
<1>. USE DEF Moves, CtxShape, Ctl!TypeOK, Ctl!Location, Ctl!InProgress, Ctl!Live,
             Ctl!disc, Ctl!watcher, Ctl!tables, Ctl!env
<1>1. CASE Ctl!MarkActive(k)
    BY <1>1 DEF Ctl!MarkActive, Ctl!UpsertCluster
<1>2. CASE Ctl!MarkStale(k)
    BY <1>2 DEF Ctl!MarkStale
<1>3. CASE Ctl!Fetch(k)
    BY <1>3 DEF Ctl!Fetch, Ctl!DiscoveryFailed
<1>4. CASE Ctl!Clear(k)
    BY <1>4 DEF Ctl!Clear, Ctl!DiscoveryFailed
<1>5. CASE Ctl!Populate(k)
    BY <1>5 DEF Ctl!Populate
<1>6. CASE Ctl!Discovered(k)
    BY <1>6 DEF Ctl!Discovered
<1>7. CASE Ctl!Register(k)
    BY <1>7 DEF Ctl!Register
<1>8. CASE Ctl!HandleCRDEvent(k)
    BY <1>8 DEF Ctl!HandleCRDEvent, Ctl!Refresh
<1>9. CASE Ctl!ResyncCRDs(k)
    BY <1>9 DEF Ctl!ResyncCRDs, Ctl!Refresh
<1>10. CASE Ctl!WindowExpires(k)
    BY <1>10 DEF Ctl!WindowExpires
<1>. QED
    BY <1>1, <1>2, <1>3, <1>4, <1>5, <1>6, <1>7, <1>8, <1>9, <1>10
    DEF Ctl!Step, Ctl!Watch, Ctl!Discover

\* Names are unique in what parseKubeconfigs returns.
LEMMA ParsedIsMap ==
    ASSUME NEW flag \in Flags, NEW d \in parseKubeconfigs(flag),
           NEW e \in parseKubeconfigs(flag), d[1] = e[1]
    PROVE  d = e
<1>1. flag \in Seq(Entries \cup {Blank, Malformed})
    BY CommandAssumption
<1>2. PICK m \in DOMAIN flag :
        /\ d = flag[m] /\ flag[m] # Blank
        /\ \A l \in m+1..Len(flag) : flag[l] # Blank => flag[l][1] # flag[m][1]
    BY DEF parseKubeconfigs
<1>3. PICK n \in DOMAIN flag :
        /\ e = flag[n] /\ flag[n] # Blank
        /\ \A l \in n+1..Len(flag) : flag[l] # Blank => flag[l][1] # flag[n][1]
    BY DEF parseKubeconfigs
<1>4. m \in 1..Len(flag) /\ n \in 1..Len(flag) /\ Len(flag) \in Nat
    BY <1>1
<1>5. ~(m < n)
    BY <1>2, <1>3, <1>4
<1>6. ~(n < m)
    BY <1>2, <1>3, <1>4
<1>7. m = n
    BY <1>4, <1>5, <1>6
<1>. QED
    BY <1>2, <1>3, <1>7

\* A cluster that is about to be engaged has no run: nothing in the process,
\* and nothing left of an earlier one.
LEMMA NothingToCancel ==
    ASSUME IInv, NEW k \in Calls, job[k] = "syncing"
    PROVE  registered[ClusterOf(k)] = None /\ Ctl!Quiet(ClusterOf(k))
<1>. Ctl!TypeOK /\ ClusterOf(k) \in Clusters
    BY CallCluster DEF IInv, TypeOK
<1>1. Active(k) /\ pc[k] = "idle"
    BY DEF IInv, JobShape, Active
<1>2. ASSUME NEW j \in Calls, target[j] = ClusterOf(k), Ctl!Live(j) \/ Ctl!InProgress(j)
      PROVE  FALSE
    <2>1. pc[j] # "idle" /\ Active(j)
        BY <1>2 DEF IInv, JobShape, CtxShape, Active, Ctl!InProgress, Ctl!Live
    <2>2. ClusterOf(j) = ClusterOf(k)
        BY <1>2, <2>1 DEF IInv, JobShape
    <2>. QED
        BY <1>1, <2>1, <2>2 DEF IInv, OnePerCluster
<1>3. registered[ClusterOf(k)] \in Calls \cup {None}
    BY DEF Ctl!TypeOK
<1>. QED
    BY <1>2, <1>3 DEF IInv, MapHoldsLive, Ctl!Quiet

\* The inductive invariant holds before the first start.
LEMMA InvInit == Init => IInv
<1>. SUFFICES ASSUME Init PROVE IInv
    OBVIOUS
<1>1. TypeOK
    BY TypeInit
<1>. QED
    BY <1>1
    DEF Init, Ctl!Init, IInv, ProcessShape, OnePerCluster, JobShape, CtxShape,
        MapHoldsLive, RowActive, Active, Ctl!InProgress, Ctl!Live

\* A step of the environment or of no one keeps the invariant.
LEMMA InvFrame ==
    ASSUME IInv, TypeOK', UNCHANGED <<clusters, registered, pc, target, ctx>>,
           UNCHANGED <<process, starts, job>>
    PROVE  IInv'
BY DEF IInv, ProcessShape, OnePerCluster, JobShape, CtxShape, MapHoldsLive, RowActive,
       Active, Ctl!InProgress, Ctl!Live

\* Every action keeps the inductive invariant.
LEMMA InvStep == IInv /\ [Next]_vars => IInv'
<1>. SUFFICES ASSUME IInv, [Next]_vars PROVE IInv'
    OBVIOUS
<1>. TypeOK /\ TypeOK'
    BY TypeStep DEF IInv
<1>1. ASSUME NEW flag \in Flags, Launch(flag) PROVE IInv'
    <2>1. /\ UNCHANGED <<clusters, registered, pc, target, ctx>>
          /\ process = "stopped" /\ starts' = starts + 1 /\ starts \in Nat
          /\ \A k \in Calls : k[1] \in Nat
        BY <1>1, CommandAssumption DEF Launch, ctlVars, TypeOK, Calls
    <2>2. \A k \in Calls : ~Active(k)
        BY <2>1 DEF IInv, ProcessShape
    <2>3. CASE UNCHANGED <<process, job>>
        BY <2>1, <2>2, <2>3
        DEF IInv, ProcessShape, OnePerCluster, JobShape, CtxShape, MapHoldsLive, RowActive,
            Active, Ctl!InProgress, Ctl!Live
    <2>4. CASE /\ process' = "serving"
               /\ job' = [k \in Calls |->
                             IF k[1] = starts' /\ k[2] \in parseKubeconfigs(flag)
                             THEN "loading" ELSE job[k]]
        <3>1. ASSUME NEW k \in Calls
              PROVE  \/ job'[k] = job[k] /\ ~Active(k)'
                     \/ /\ k[1] = starts' /\ k[2] \in parseKubeconfigs(flag)
                        /\ job'[k] = "loading" /\ job[k] = "none"
            <4>1. job[k] # "none" => k[1] # starts'
                BY <2>1 DEF IInv, ProcessShape
            <4>. QED
                BY <2>2, <2>4, <4>1 DEF Active
        <3>2. ProcessShape'
            BY <2>1, <2>4, <3>1 DEF IInv, ProcessShape, Active
        <3>3. OnePerCluster'
            <4>. SUFFICES ASSUME NEW j \in Calls, NEW k \in Calls, Active(j)', Active(k)',
                                 ClusterOf(j) = ClusterOf(k)
                          PROVE  j = k
                BY DEF OnePerCluster
            <4>1. j[1] = k[1] /\ j[2] = k[2]
                BY <3>1, ParsedIsMap DEF ClusterOf
            <4>. QED
                BY <4>1 DEF Calls
        <3>4. JobShape'
            BY <2>1, <2>4, <3>1 DEF IInv, JobShape, CtxShape, Active, Ctl!InProgress, Ctl!Live
        <3>5. CtxShape' /\ MapHoldsLive' /\ RowActive'
            BY <2>1 DEF IInv, CtxShape, MapHoldsLive, RowActive, Ctl!InProgress, Ctl!Live
        <3>. QED
            BY <3>2, <3>3, <3>4, <3>5 DEF IInv
    <2>. QED
        BY <1>1, <2>3, <2>4 DEF Launch
<1>2. ASSUME NEW k \in Calls, LoadKubeconfig(k) \/ StartCluster(k) \/ Report(k)
      PROVE  IInv'
    <2>1. UNCHANGED <<clusters, registered, pc, target, ctx, process, starts>>
        BY <1>2 DEF LoadKubeconfig, StartCluster, Report, ctlVars
    <2>2. \A j \in Calls : Active(j) <=> Active(j)'
        BY <1>2 DEF LoadKubeconfig, StartCluster, Report, Goes, TypeOK, Active
    <2>3. ProcessShape' /\ OnePerCluster'
        BY <1>2, <2>1, <2>2
        DEF IInv, ProcessShape, OnePerCluster, LoadKubeconfig, StartCluster, Report, Goes,
            TypeOK
    <2>4. JobShape'
        <3>1. CASE LoadKubeconfig(k) \/ StartCluster(k)
            BY <3>1, <2>1, <2>2
            DEF IInv, JobShape, CtxShape, TypeOK, Ctl!InProgress, Ctl!Live,
                LoadKubeconfig, StartCluster, Goes
        <3>2. CASE Report(k)
            BY <3>2, <2>1, <2>2
            DEF IInv, JobShape, TypeOK, Ctl!TypeOK, Ctl!InProgress, Ctl!Live, Report, Goes, Active
        <3>. QED
            BY <1>2, <3>1, <3>2
    <2>5. CtxShape' /\ MapHoldsLive' /\ RowActive'
        BY <2>1 DEF IInv, CtxShape, MapHoldsLive, RowActive, Ctl!InProgress, Ctl!Live
    <2>. QED
        BY <2>3, <2>4, <2>5 DEF IInv
<1>3. ASSUME NEW k \in Calls, CallEngage(k) PROVE IInv'
    <2>1. /\ registered' = registered /\ ctx' = ctx /\ clusters' = clusters
          /\ pc' = [pc EXCEPT ![k] = "markActive"]
          /\ target' = [target EXCEPT ![k] = ClusterOf(k)]
          /\ job' = [job EXCEPT ![k] = "engaging"] /\ job[k] = "syncing"
          /\ UNCHANGED <<process, starts>>
        <3>1. job[k] = "syncing" /\ Ctl!BeginEngage(k, ClusterOf(k))
            BY <1>3 DEF CallEngage, Goes
        <3>2. registered[ClusterOf(k)] = None
            BY <3>1, NothingToCancel
        <3>3. registered' = registered /\ ctx' = ctx
            BY <3>1, <3>2 DEF Ctl!BeginEngage, Ctl!CancelExisting, TypeOK, Ctl!TypeOK
        <3>. QED
            BY <1>3, <3>1, <3>3 DEF CallEngage, Goes, Ctl!BeginEngage, Ctl!tables
    <2>2. \A j \in Calls : Active(j) <=> Active(j)'
        BY <2>1 DEF TypeOK, Active
    <2>3. ProcessShape' /\ OnePerCluster'
        BY <2>1, <2>2 DEF IInv, ProcessShape, OnePerCluster, TypeOK, Active
    <2>4. pc[k] = "idle" /\ ctx[k] = "none"
        BY <2>1 DEF IInv, JobShape, CtxShape
    <2>5. JobShape' /\ CtxShape'
        BY <2>1, <2>2, <2>4
        DEF IInv, JobShape, CtxShape, TypeOK, Ctl!TypeOK, Ctl!InProgress, Ctl!Live
    <2>6. MapHoldsLive'
        BY <2>1, <2>4, Constants DEF IInv, MapHoldsLive, TypeOK, Ctl!TypeOK, Ctl!Live
    <2>7. RowActive'
        BY <2>1, <2>4 DEF IInv, RowActive, TypeOK, Ctl!TypeOK, Ctl!InProgress, Ctl!Live
    <2>. QED
        BY <2>3, <2>5, <2>6, <2>7 DEF IInv
<1>4. ASSUME NEW k \in Calls, Run(k) PROVE IInv'
    <2>1. Moves(k) /\ UNCHANGED <<process, starts, job>>
        BY <1>4, StepMoves DEF Run, cmdVars, IInv
    <2>2. ProcessShape' /\ OnePerCluster'
        BY <2>1 DEF IInv, ProcessShape, OnePerCluster, Active
    <2>3. JobShape'
        BY <2>1
        DEF IInv, JobShape, CtxShape, Moves, TypeOK, Ctl!TypeOK, Ctl!InProgress, Ctl!Live, Active
    <2>4. CtxShape'
        BY <2>1 DEF IInv, CtxShape, Moves, TypeOK, Ctl!TypeOK, Ctl!InProgress, Ctl!Live
    <2>5. MapHoldsLive'
        BY <2>1, Constants
        DEF IInv, CtxShape, MapHoldsLive, Moves, TypeOK, Ctl!TypeOK, Ctl!Live
    <2>6. RowActive'
        <3>. SUFFICES ASSUME NEW j \in Calls,
                             (Ctl!Live(j) \/ (Ctl!InProgress(j) /\ pc[j] # "markActive"))'
                      PROVE  clusters'[ClusterOf(j)].status = "active"
            BY DEF RowActive
        <3>1. CASE clusters[ClusterOf(j)].status = "active"
            BY <2>1, <3>1, CallCluster DEF Moves
        <3>2. CASE j = k /\ clusters[ClusterOf(k)].status # "active"
            <4>1. ~Ctl!Live(k) /\ ~(Ctl!InProgress(k) /\ pc[k] # "markActive")
                BY <3>2 DEF IInv, RowActive
            <4>2. Ctl!InProgress(k)' /\ pc'[k] # "markActive" /\ pc[k] = "markActive"
                BY <2>1, <3>2, <4>1 DEF Moves, Ctl!Live, Ctl!InProgress
            <4>3. target[k] = ClusterOf(k) /\ registered' = registered
                BY <2>1, <4>2 DEF IInv, JobShape, Moves
            <4>. QED
                BY <2>1, <3>2, <4>2, <4>3 DEF Moves
        <3>3. CASE j # k
            <4>1. Ctl!Live(j) \/ (Ctl!InProgress(j) /\ pc[j] # "markActive")
                BY <2>1, <3>3 DEF Moves, Ctl!Live, Ctl!InProgress
            <4>. QED
                BY <3>1, <4>1 DEF IInv, RowActive
        <3>. QED
            BY <3>1, <3>2, <3>3
    <2>. QED
        BY <2>2, <2>3, <2>4, <2>5, <2>6 DEF IInv
<1>5. CASE Exit
    <2>1. \A k \in Calls : ~Active(k)' /\ (job'[k] = "none" <=> job[k] = "none")
        BY <1>5 DEF Exit, Active
    <2>2. ProcessShape' /\ OnePerCluster'
        BY <1>5, <2>1 DEF Exit, IInv, ProcessShape, OnePerCluster
    <2>3. \A k \in Calls : ~Ctl!Live(k)' /\ ~Ctl!InProgress(k)'
        BY <1>5 DEF Exit, Ctl!Crash, Ctl!Live, Ctl!InProgress, TypeOK, Ctl!TypeOK
    <2>4. JobShape'
        BY <1>5, <2>1, <2>3 DEF Exit, Ctl!Crash, IInv, JobShape, Active
    <2>5. CtxShape' /\ MapHoldsLive' /\ RowActive'
        BY <1>5, <2>3 DEF Exit, Ctl!Crash, IInv, CtxShape, MapHoldsLive, RowActive, Ctl!Live
    <2>. QED
        BY <2>2, <2>4, <2>5 DEF IInv
<1>6. CASE Environment
    BY <1>6, InvFrame DEF Environment, cmdVars, Ctl!Tick, Ctl!ChangeCRD, Ctl!tables
<1>7. CASE UNCHANGED vars
    BY <1>7, InvFrame DEF vars, ctlVars, cmdVars
<1>. QED
    BY <1>1, <1>2, <1>3, <1>4, <1>5, <1>6, <1>7 DEF Next, Goroutine

\* The inductive invariant holds in every reachable state.
LEMMA InvCorrect == Spec => []IInv
    BY InvInit, InvStep, PTL DEF Spec

\* "cluster engaged" in the log is true as long as the process lives, for
\* every flag and whatever failed before.
THEOREM EngagedIsSyncedCorrect == Spec => []EngagedIsSynced
<1>1. IInv => EngagedIsSynced
    BY DEF IInv, JobShape, RowActive, EngagedIsSynced
<1>. QED
    BY <1>1, InvCorrect, PTL
----------------------------------------------------------------------------
\* What a call does by itself is the same with and without serialised calls.
LEMMA SameStep ==
    ASSUME NEW k \in Calls
    PROVE  Ctl!Step(k) \/ Ctl!Watch(k) => Serial!Step(k) \/ Serial!Watch(k)
<1>. USE DEF Ctl!tables, Ctl!disc, Ctl!watcher, Ctl!env,
             Serial!tables, Serial!disc, Serial!watcher, Serial!env,
             Ctl!Fault, Serial!Fault, Ctl!Live, Serial!Live
<1>1. Ctl!MarkActive(k) => Serial!MarkActive(k)
    BY DEF Ctl!MarkActive, Serial!MarkActive, Ctl!UpsertCluster, Serial!UpsertCluster
<1>2. Ctl!MarkStale(k) => Serial!MarkStale(k)
    BY DEF Ctl!MarkStale, Serial!MarkStale, Ctl!UpsertCluster, Serial!UpsertCluster
<1>3. Ctl!Fetch(k) => Serial!Fetch(k)
    BY DEF Ctl!Fetch, Serial!Fetch, Ctl!Listed, Serial!Listed,
           Ctl!DiscoveryFailed, Serial!DiscoveryFailed
<1>4. Ctl!Clear(k) => Serial!Clear(k)
    BY DEF Ctl!Clear, Serial!Clear, Ctl!DiscoveryFailed, Serial!DiscoveryFailed,
           Ctl!DeleteResourceTypesForCluster, Serial!DeleteResourceTypesForCluster
<1>5. Ctl!Populate(k) => Serial!Populate(k)
    BY DEF Ctl!Populate, Serial!Populate, Ctl!UpsertResourceType, Serial!UpsertResourceType
<1>6. Ctl!Discovered(k) => Serial!Discovered(k)
    BY DEF Ctl!Discovered, Serial!Discovered
<1>7. Ctl!Register(k) => Serial!Register(k)
    <2>1. Ctl!Cardinality(Ctl!CRDs(target[k])) = Serial!Cardinality(Serial!CRDs(target[k]))
        BY DEF Ctl!CRDs, Serial!CRDs, Ctl!Resources, Serial!Resources,
               Ctl!Cardinality, Serial!Cardinality
    <2>. QED
        BY <2>1 DEF Ctl!Register, Serial!Register
<1>8. Ctl!Watch(k) => Serial!Watch(k)
    BY DEF Ctl!Watch, Serial!Watch, Ctl!HandleCRDEvent, Serial!HandleCRDEvent,
           Ctl!ResyncCRDs, Serial!ResyncCRDs, Ctl!WindowExpires, Serial!WindowExpires,
           Ctl!Refresh, Serial!Refresh, Ctl!CRDs, Serial!CRDs, Ctl!Resources, Serial!Resources
<1>. QED
    BY <1>1, <1>2, <1>3, <1>4, <1>5, <1>6, <1>7, <1>8
    DEF Ctl!Step, Serial!Step, Ctl!Discover, Serial!Discover

\* Every step of the command is a step of a controller whose calls for one
\* cluster do not overlap, or a step the controller does not notice.
LEMMA SerialStep == IInv /\ [Next]_vars => [Serial!Next]_(Serial!vars)
<1>. SUFFICES ASSUME IInv, [Next]_vars PROVE [Serial!Next]_(Serial!vars)
    OBVIOUS
<1>1. ASSUME NEW flag \in Flags, Launch(flag) PROVE UNCHANGED Serial!vars
    BY <1>1 DEF Launch, ctlVars, Serial!vars
<1>2. ASSUME NEW k \in Calls, LoadKubeconfig(k) \/ StartCluster(k) \/ Report(k)
      PROVE  UNCHANGED Serial!vars
    BY <1>2 DEF LoadKubeconfig, StartCluster, Report, ctlVars, Serial!vars
<1>3. ASSUME NEW k \in Calls, CallEngage(k) PROVE Serial!Next
    <2>1. job[k] = "syncing" /\ Ctl!BeginEngage(k, ClusterOf(k))
        BY <1>3 DEF CallEngage, Goes
    <2>2. Serial!Quiet(ClusterOf(k))
        BY <2>1, NothingToCancel
        DEF Ctl!Quiet, Serial!Quiet, Ctl!InProgress, Serial!InProgress
    <2>3. Serial!CancelExisting(ClusterOf(k))
        BY <2>1
        DEF Ctl!BeginEngage, Ctl!CancelExisting, Serial!CancelExisting,
            Ctl!watcher, Serial!watcher
    <2>4. Serial!BeginEngage(k, ClusterOf(k))
        BY <2>1, <2>2, <2>3
        DEF Ctl!BeginEngage, Serial!BeginEngage, Ctl!tables, Ctl!disc, Ctl!env,
            Serial!tables, Serial!disc, Serial!env
    <2>. QED
        BY <2>4, CallCluster DEF Serial!Next
<1>4. ASSUME NEW k \in Calls, Run(k) PROVE Serial!Next
    BY <1>4, SameStep DEF Run, Serial!Next
<1>5. CASE Exit
    <2>1. Serial!Crash
        BY <1>5
        DEF Exit, Ctl!Crash, Serial!Crash, Ctl!Live, Serial!Live, Ctl!tables, Ctl!env,
            Serial!tables, Serial!env
    <2>. QED
        BY <2>1 DEF Serial!Next
<1>6. CASE Environment
    <2>1. Ctl!Tick => Serial!Tick
        BY DEF Ctl!Tick, Serial!Tick, Ctl!tables, Ctl!disc, Ctl!watcher,
               Serial!tables, Serial!disc, Serial!watcher
    <2>2. ASSUME NEW c \in Clusters, NEW t \in CRDTypes, Ctl!ChangeCRD(c, t)
          PROVE  Serial!ChangeCRD(c, t)
        BY <2>2
        DEF Ctl!ChangeCRD, Serial!ChangeCRD, Ctl!Live, Serial!Live, Ctl!tables, Ctl!disc,
            Serial!tables, Serial!disc
    <2>. QED
        BY <1>6, <2>1, <2>2 DEF Environment, Serial!Next
<1>7. CASE UNCHANGED vars
    BY <1>7 DEF vars, ctlVars, Serial!vars
<1>. QED
    BY <1>1, <1>2, <1>3, <1>4, <1>5, <1>6, <1>7 DEF Next, Goroutine

\* main.go grants what SyncControllerProofs assumes of the callers: over any
\* number of starts, with flags that may name a cluster twice, the command
\* implements the controller with serialised calls.  OneLiveRun, LiveRunIsActive,
\* DiscoveryIntact and ImplementsLifecycle, proved of that controller, hold of
\* the program.
THEOREM CallsSerializedCorrect == Spec => CallsSerialized
<1>1. Init => Serial!Init
    BY DEF Init, Ctl!Init, Serial!Init, Ctl!NoRow, Serial!NoRow
<1>2. IInv /\ [Next]_vars => [Serial!Next]_(Serial!vars)
    BY SerialStep
<1>. QED
    BY <1>1, <1>2, InvCorrect, PTL DEF Spec, CallsSerialized, Serial!Spec
=============================================================================
