--------------------------- MODULE MCCommitPipeline ---------------------------
(* Small instances of CommitPipeline for TLC. *)
EXTENDS CommitPipeline, TLC

(* Handles are interchangeable, and so are admins. *)
Symmetry == Permutations(Handles) \cup Permutations(Admins)
=============================================================================
