------------------------------ MODULE MCKuery ------------------------------
(* Kuery for TLC.  Calls are interchangeable, so they are used in order. *)
EXTENDS Kuery

CONSTANTS c1, e1, e2, e3, pods, k1

MCGroupResource == [t \in Types |-> t]
MCResourceOf    == [k \in Keys |-> pods]
CallsInOrder    == /\ pc[e2] # "idle" => pc[e1] # "idle"
                   /\ e3 \in Calls /\ pc[e3] # "idle" => pc[e2] # "idle"

\* A CRD changes at most while the first run watches and before the clock
\* ticks; before that, the change is a choice of the initial state.
EarlyCRDs == changes' # changes => now = 0 /\ pc[e1] = "watching" /\ pc[e2] = "idle"
=============================================================================
