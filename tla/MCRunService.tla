---------------------------- MODULE MCRunService ----------------------------
(* A small instance of RunService for TLC. *)
EXTENDS RunService, TLC

Symmetry ==
    Permutations(RunID) \cup Permutations(Creator)
        \cup Permutations(Stopper) \cup Permutations(Subscriber)
=============================================================================
