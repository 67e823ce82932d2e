------------------------------ MODULE Command ------------------------------
(***************************************************************************)
(* The command of cmd/kuery/main.go: a process reads --kubeconfigs, starts *)
(* a goroutine per cluster that loads its kubeconfig, starts the cluster's *)
(* runtime, waits for its cache and calls Engage once, and serves until it *)
(* is told to stop.  It may be started again with another flag.  The sync  *)
(* controller is the module SyncController, without the assumption that    *)
(* calls for one cluster are serialised.                                   *)
(***************************************************************************)
EXTENDS Store, FiniteSets, Sequences

CONSTANTS
    Clusters, None, Types, CRDTypes, Watchable, Blacklisted,
    MaxFaults, MaxChanges, MaxTime,   \* as in SyncController
    Paths,              \* kubeconfig files
    Blank, Malformed,   \* entries of the flag that are empty, or not name=path
    Flags,              \* the values of --kubeconfigs the process is started with
    MaxStarts           \* bound on starts of the process

Entries == Clusters \X Paths

\* An entry of the flag, and the call of Engage its goroutine makes: one per
\* start of the process and kubeconfig.
Calls      == (1..MaxStarts) \X Entries
ClusterOf(k) == k[2][1]

ASSUME CommandAssumption ==
    /\ Flags \subseteq Seq(Entries \cup {Blank, Malformed})
    /\ MaxStarts \in Nat
    /\ None \notin Clusters \cup Calls
    /\ CRDTypes \subseteq Types
    /\ IsFiniteSet(Types)
    /\ MaxFaults \in Nat /\ MaxChanges \in Nat /\ MaxTime \in Nat

VARIABLES
    clusters, types, registered, pc, target, ctx, todo, found, watched,
    events, window, served, faults, changes, now,   \* of the controller
    process,   \* "serving" or "stopped"
    starts,    \* starts so far; the current process is the last
    job,       \* where the goroutine of a call is
    runtimes   \* calls whose cluster runtime (cl.Start) has been started

Ctl == INSTANCE SyncController WITH Serialized <- FALSE

ctlVars == <<clusters, types, registered, pc, target, ctx, todo, found, watched,
             events, window, served, faults, changes, now>>
cmdVars == <<process, starts, job, runtimes>>
vars    == <<ctlVars, cmdVars>>

Job == {"none", "loading", "starting", "syncing", "engaging", "engaged", "failed", "gone"}

TypeOK ==
    /\ Ctl!TypeOK
    /\ process \in {"serving", "stopped"}
    /\ starts \in 0..MaxStarts
    /\ job \in [Calls -> Job]
    /\ runtimes \in SUBSET Calls

Init ==
    /\ Ctl!Init
    /\ process = "stopped"
    /\ starts = 0
    /\ job = [k \in Calls |-> "none"]
    /\ runtimes = {}

----------------------------------------------------------------------------
\* Mutant: the entries are kept in a list instead of a map.
ParseIntoList(flag) == {flag[n] : n \in DOMAIN flag} \ {Blank}

\* The map name -> path of the flag, as its set of pairs: blank entries are
\* skipped and a later entry replaces an earlier one of the same name.
parseKubeconfigs(flag) ==
    {flag[n] : n \in {n \in DOMAIN flag :
        /\ flag[n] # Blank
        /\ \A m \in n+1..Len(flag) : flag[m] # Blank => flag[m][1] # flag[n][1]}}

\* Run: the options are validated, the store is opened and migrated, the
\* flag is parsed, and a goroutine is started for each cluster.  A malformed
\* entry or a failing request ends the process instead.
Launch(flag) ==
    /\ process = "stopped" /\ starts < MaxStarts
    /\ starts' = starts + 1
    /\ \/ /\ \A n \in DOMAIN flag : flag[n] # Malformed
          /\ process' = "serving"
          /\ job' = [k \in Calls |->
                        IF k[1] = starts' /\ k[2] \in parseKubeconfigs(flag)
                        THEN "loading" ELSE job[k]]
       \/ UNCHANGED <<process, job>>
    /\ UNCHANGED <<ctlVars, runtimes>>

\* The goroutine of call k goes from one place to another.
Goes(k, from, to) == job[k] = from /\ job' = [job EXCEPT ![k] = to]

\* engageClusterFromKubeconfig: BuildConfigFromFlags and cluster.New.
LoadKubeconfig(k) ==
    /\ Goes(k, "loading", "starting") \/ Goes(k, "loading", "failed")
    /\ UNCHANGED <<ctlVars, process, starts, runtimes>>

\* Mutant: the go statement is forgotten.
StartNothing(k) ==
    /\ Goes(k, "starting", "syncing")
    /\ UNCHANGED <<ctlVars, process, starts, runtimes>>

\* go cl.Start(ctx)
StartCluster(k) ==
    /\ Goes(k, "starting", "syncing")
    /\ runtimes' = runtimes \cup {k}
    /\ UNCHANGED <<ctlVars, process, starts>>

\* WaitForCacheSync returns once the runtime is started (it is false only
\* when the process is told to stop), and Engage is called.
CallEngage(k) ==
    /\ k \in runtimes
    /\ Goes(k, "syncing", "engaging")
    /\ Ctl!BeginEngage(k, ClusterOf(k))
    /\ UNCHANGED <<process, starts, runtimes>>

Run(k) ==
    /\ Ctl!Step(k) \/ Ctl!Watch(k)
    /\ UNCHANGED cmdVars

\* Mutant: the error of Engage is not looked at.
ReportEngaged(k) ==
    /\ ~Ctl!InProgress(k)
    /\ Goes(k, "engaging", "engaged")
    /\ UNCHANGED <<ctlVars, process, starts, runtimes>>

\* Engage has returned; its error, if any, is logged and nobody retries.
Report(k) ==
    /\ ~Ctl!InProgress(k)
    /\ Goes(k, "engaging", IF ctx[k] = "none" THEN "failed" ELSE "engaged")
    /\ UNCHANGED <<ctlVars, process, starts, runtimes>>

\* SIGINT, SIGTERM, an error of the server or a crash.  A signal cancels the
\* context every goroutine uses, so that no store call succeeds any more;
\* what is left of the process changes nothing and dies with it.
Exit ==
    /\ process = "serving"
    /\ process' = "stopped"
    /\ Ctl!Crash
    /\ job' = [k \in Calls |-> IF job[k] = "none" THEN "none" ELSE "gone"]
    /\ runtimes' = {}
    /\ UNCHANGED starts

Environment ==
    /\ Ctl!Tick \/ \E c \in Clusters, t \in CRDTypes : Ctl!ChangeCRD(c, t)
    /\ UNCHANGED cmdVars

Goroutine(k) == LoadKubeconfig(k) \/ StartCluster(k) \/ CallEngage(k) \/ Report(k)

Next ==
    \/ \E flag \in Flags : Launch(flag)
    \/ \E k \in Calls : Goroutine(k) \/ Run(k)
    \/ Exit
    \/ Environment

Spec == Init /\ [][Next]_vars

\* Goroutines run and their requests return; nobody has to start or stop the
\* process.
FairSpec ==
    /\ Spec
    /\ \A k \in Calls : /\ WF_vars(Goroutine(k))
                        /\ WF_vars(Ctl!Step(k) /\ UNCHANGED cmdVars)

----------------------------------------------------------------------------
\* Properties.

Serial == INSTANCE SyncController WITH Serialized <- TRUE

\* What the controller's correctness assumes of its callers, main.go grants:
\* over several starts with flags that name a cluster twice, calls for one
\* cluster never overlap.  The command implements the controller with
\* serialised calls, and so inherits everything proved about it.
CallsSerialized == Serial!Spec

\* "cluster engaged" in the log is true as long as the process lives: the
\* informers of that cluster are running and its row says active, whatever
\* failed before, in this process or an earlier one.  (An active row proves
\* less: it may be left over from an Engage that failed after writing it.)
EngagedIsSynced ==
    \A k \in Calls :
        job[k] = "engaged" => Ctl!Live(k) /\ clusters[ClusterOf(k)].status = "active"

\* No cluster is forgotten: each one the flag names is engaged or reported
\* as failed, unless the process ends first.
EveryClusterReported ==
    \A k \in Calls : job[k] = "loading" ~> job[k] \in {"engaged", "failed", "gone"}
=============================================================================
