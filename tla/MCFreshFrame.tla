---------------------------- MODULE MCFreshFrame ----------------------------
(* FreshFrame on small instances; liveness is checked, so no symmetry.       *)
EXTENDS FreshFrame

CONSTANTS w1, w2
=============================================================================
