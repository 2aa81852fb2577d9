--------------------------- MODULE MCMessageQueue ---------------------------
(* Model values and symmetry for the instances of MessageQueue. *)
EXTENDS MessageQueueRefinement

ConnectionSymmetry == Permutations(Connections)
=============================================================================
