--------------------------- MODULE MCEventDelivery ---------------------------
(* A page on a room with two rows, one of them below the summary's floor, and two to come. *)
EXTENDS EventDelivery

MCCostly == {2, 4}
=============================================================================
