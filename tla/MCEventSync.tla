---------------------------- MODULE MCEventSync ----------------------------
(* EventSync for TLC: objects of one resource, served in all of Types. *)
EXTENDS EventSync

CONSTANTS c1, r1, r2, pods, podsV2, k1

MCGroupResource == [t \in Types |-> pods]
MCResourceOf    == [k \in Keys |-> pods]
=============================================================================
