------------------------- MODULE MCDeliveryReconcile -------------------------
(* DeliveryReconcile on two cameras. *)
EXTENDS DeliveryReconcile

CONSTANTS door, yard

MCOrder == <<door, yard>>
=============================================================================
