--------------------------- MODULE MCAttackReaders ---------------------------
(* A small instance of AttackReaders for TLC. *)
EXTENDS AttackReaders, TLC

Symmetry == Permutations(ID)
=============================================================================
