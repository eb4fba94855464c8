--------------------------- MODULE MCAttackManager ---------------------------
(* Small instances of AttackManager for TLC. *)
EXTENDS AttackManager, TLC

\* Requests of a kind are interchangeable, and so are ids.
Symmetry ==
    Permutations(Attack) \cup Permutations(ID) \cup Permutations(Stopper)

\* Bound of the larger instance: of the two attacks, at most one loses its
\* context to a client that leaves or to its timeout.
OneContextLost ==
    Cardinality({a \in Attack : ctx[a] \in {"gone", "timeout"}}) <= 1
=============================================================================
