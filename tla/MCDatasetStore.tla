--------------------------- MODULE MCDatasetStore ---------------------------
(* Small instances of DatasetStore for TLC, and the pure functions over rows. *)
EXTENDS DatasetStore, DatasetTools, TLC

CONSTANTS users, products

\* Two rows are asked of one pool and none of the other.
SmallMinSize == [p \in {users, products} |-> IF p = users THEN 2 ELSE 0]

Symmetry == Permutations(Uploader)

\* Samples of pools of up to five rows.
ASSUME SamplesUniform ==
    \A n \in 1..5 : \A limit \in 1..(n - 1) : SampleUniform(n, limit)

\* The limit of a sample is between 1 and 100, and the one asked for if it is.
ASSUME LimitsHold ==
    \A asked \in 0..200 :
        Limit(asked) \in 1..100 /\ (asked \in 1..100 => Limit(asked) = asked)

\* A card depends on the seed modulo ten only.
ASSUME CardsValid ==
    \A seed \in 0..29 : LuhnValid(LuhnCard(seed)) /\ Len(LuhnCard(seed)) = 16
ASSUME ChunksCover == \A n \in 1..13, size \in 1..5 : BatchesCover(n, size)
=============================================================================
