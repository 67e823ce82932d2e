----------------------------- MODULE Lifecycle -----------------------------
(***************************************************************************)
(* What the sync controller promises about a cluster, without saying how:  *)
(* between any two returns of Engage or Disengage the cluster is up or     *)
(* down; it comes up only after its row was marked active, it leaves that  *)
(* state only through the next call or the end of the process, and its row *)
(* says stale only through Disengage.  Discovery, the map of cancel        *)
(* functions, contexts, CRD refreshes and failing requests are not here.   *)
(***************************************************************************)
CONSTANT Clusters

VARIABLES
    phase,    \* per cluster, where it is in its life
    status    \* per cluster, the status column of its row

vars == <<phase, status>>

\* "engaging" and "disengaging" are before the call's write of the row,
\* "starting" is between Engage's write and its return.
Phase  == {"down", "engaging", "starting", "up", "disengaging"}
Status == {"none", "active", "stale"}

Init ==
    /\ phase = [c \in Clusters |-> "down"]
    /\ status = [c \in Clusters |-> "none"]

Enter(c, from, to) ==
    /\ phase[c] \in from
    /\ phase' = [phase EXCEPT ![c] = to]

Record(c, s) == status' = [status EXCEPT ![c] = s]

BeginEngage(c) ==
    /\ Enter(c, {"down", "up"}, "engaging")
    /\ UNCHANGED status

Activate(c) ==
    /\ Enter(c, {"engaging"}, "starting")
    /\ Record(c, "active")

ComeUp(c) ==
    /\ Enter(c, {"starting"}, "up")
    /\ UNCHANGED status

BeginDisengage(c) ==
    /\ Enter(c, {"down", "up"}, "disengaging")
    /\ UNCHANGED status

Retire(c) ==
    /\ Enter(c, {"disengaging"}, "down")
    /\ Record(c, "stale")

\* A call returns an error: nothing is left running.
Fail(c) ==
    /\ Enter(c, {"engaging", "starting", "disengaging"}, "down")
    /\ UNCHANGED status

Crash ==
    /\ phase' = [c \in Clusters |-> "down"]
    /\ UNCHANGED status

Next ==
    \/ \E c \in Clusters :
          \/ BeginEngage(c) \/ Activate(c) \/ ComeUp(c)
          \/ BeginDisengage(c) \/ Retire(c) \/ Fail(c)
    \/ Crash

Spec == Init /\ [][Next]_vars
=============================================================================
