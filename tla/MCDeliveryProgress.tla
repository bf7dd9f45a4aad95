------------------------ MODULE MCDeliveryProgress ------------------------
(* Instances of DeliveryProgress for TLC; liveness is checked without symmetry. *)
EXTENDS DeliveryProgress, TLC
=============================================================================
