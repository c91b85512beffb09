---------------------------- MODULE MCServiceLife ----------------------------
(* ServiceLife with two workers; liveness is checked, so no symmetry.        *)
EXTENDS ServiceLife

CONSTANTS w1, w2, d1
=============================================================================
