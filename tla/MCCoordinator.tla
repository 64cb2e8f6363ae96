--------------------------- MODULE MCCoordinator ---------------------------
(* Small instances of Coordinator. *)
EXTENDS Coordinator, TLC

Symmetry == Permutations(Nodes)
=============================================================================
