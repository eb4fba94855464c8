--------------------------- MODULE MCControlPlane ---------------------------
(* Small instances of ControlPlane for TLC. *)
EXTENDS ControlPlane, TLC

Symmetry ==
    Permutations(WorkflowID) \cup Permutations(Name) \cup Permutations(DatasetID)
        \cup Permutations(Poster) \cup Permutations(Starter)
        \cup Permutations(Remover)
=============================================================================
