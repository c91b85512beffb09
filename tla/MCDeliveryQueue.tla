-------------------------- MODULE MCDeliveryQueue --------------------------
(* DeliveryQueue on small instances: deliveries d1 and d2 carry the same   *)
(* key, as a webhook sent twice does; d3 is another occurrence.            *)
EXTENDS DeliveryQueue, TLC

CONSTANTS d1, d2, d3, k1, k2, w1, w2

MCKeyOf == [d \in Deliveries |-> IF d = d3 THEN k2 ELSE k1]

WorkerSymmetry == Permutations(Workers)
=============================================================================
