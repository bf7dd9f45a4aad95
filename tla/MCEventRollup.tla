--------------------------- MODULE MCEventRollup ---------------------------
(* An instance of EventRollup for TLC. *)
EXTENDS EventRollup, TLC

Symmetry == Permutations(Deliveries) \cup Permutations(Transactions)
=============================================================================
