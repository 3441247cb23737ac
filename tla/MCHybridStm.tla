--------------------------- MODULE MCHybridStm ---------------------------
(* Small instances of HybridStm for TLC. *)
EXTENDS HybridStm, TLC

(* Handles and nodes are interchangeable. *)
Symmetry == Permutations(Handles) \cup Permutations(Nodes)
=============================================================================
