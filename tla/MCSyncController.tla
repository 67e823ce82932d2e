-------------------------- MODULE MCSyncController --------------------------
(* SyncController for TLC: a CRD with two versions that come and go, and a   *)
(* resource on the blacklist.                                                *)
EXTENDS SyncController

CONSTANTS c1, e1, e2, widgets, widgetsV2, secrets

MCGroupResource == [t \in Types |-> IF t = widgetsV2 THEN widgets ELSE t]
=============================================================================
