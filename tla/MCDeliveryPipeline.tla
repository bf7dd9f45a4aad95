------------------------- MODULE MCDeliveryPipeline -------------------------
(* Instances of DeliveryPipeline for TLC. *)
EXTENDS DeliveryPipeline, TLC

Symmetry == Permutations(Deliveries) \cup Permutations(Workers) \cup Permutations(Handlers) \cup Permutations(Sweepers)
=============================================================================
