----------------------------- MODULE MCIncidents -----------------------------
(* A small instance of Incidents: two zones, all events but one in the first. *)
EXTENDS Incidents, TLC

CONSTANTS e1, e2, e3, e4, z1, z2

MCZoneOf == (e1 :> z1) @@ (e2 :> z1) @@ (e3 :> z1) @@ (e4 :> z2)
=============================================================================
