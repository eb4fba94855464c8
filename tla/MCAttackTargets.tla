--------------------------- MODULE MCAttackTargets ---------------------------
(* A small instance of AttackTargets for TLC. *)
EXTENDS AttackTargets, TLC

Symmetry == Permutations(Worker)
=============================================================================
