---------------------------- MODULE DatasetTools ----------------------------
(***************************************************************************)
(* Pure functions about rows: the sample of a pool (dataset.Store.Sample    *)
(* and its handler) and the generator of synthetic users (cmd/gen-dataset). *)
(* Random numbers are arguments.  Sequences count from 1, the code from 0.  *)
(***************************************************************************)
EXTENDS Naturals, SequencesExt

-----------------------------------------------------------------------------
(* Sampling *)

\* The limit of handleSampleDataset; 0 stands for a query without one or with
\* one that is no positive integer.
Limit(asked) == LET n == IF asked = 0 THEN 10 ELSE asked IN IF n > 100 THEN 100 ELSE n

Swap(s, i, j) == [s EXCEPT ![i] = s[j], ![j] = s[i]]

\* The places of the rows returned from a pool of n.  draws[i] is below n - i + 1.
Sample(n, limit, draws) ==
    LET all == [i \in 1..n |-> i] IN
    IF limit >= n THEN all
    ELSE LET step(s, i) == Swap(s, i, i + draws[i])
         IN  SubSeq(FoldLeft(step, all, [i \in 1..limit |-> i]), 1, limit)

Draws(n, limit) == {d \in [1..limit -> 0..(n - 1)] : \A i \in 1..limit : d[i] <= n - i}

\* A sample has no row twice, and every selection in every order is the result
\* of exactly one sequence of draws: all are equally likely.
SampleUniform(n, limit) ==
    LET samples == {Sample(n, limit, d) : d \in Draws(n, limit)}
        selections == {s \in [1..limit -> 1..n] :
                          \A i, j \in 1..limit : s[i] = s[j] => i = j}
    IN  samples = selections /\ Cardinality(samples) = Cardinality(Draws(n, limit))

-----------------------------------------------------------------------------
(* Synthetic users *)

\* The lines of writeNDJSON for n users in chunks of at most size.
Batches(n, size) ==
    [b \in 1..((n + size - 1) \div size) |->
        LET from == (b - 1) * size
            to == IF from + size < n THEN from + size ELSE n
        IN  [i \in 1..(to - from) |-> from + i]]

\* Every user is on one line, in order.
BatchesCover(n, size) ==
    /\ FlattenSeq(Batches(n, size)) = [i \in 1..n |-> i]
    /\ \A b \in DOMAIN Batches(n, size) : Len(Batches(n, size)[b]) \in 1..size

Doubled(d) == IF 2 * d > 9 THEN 2 * d - 9 ELSE 2 * d

\* The 15 digits before the check digit: the prefix 4532, then the seed's.
Body(seed) ==
    [i \in 1..15 |-> IF i <= 4 THEN <<4, 5, 3, 2>>[i] ELSE (seed * 7 + (i - 1) * 3) % 10]

\* luhnCard: the digits at odd distance from the check digit count double.
LuhnCard(seed) ==
    LET body == Body(seed)
        value(i) == IF (16 - i) % 2 = 1 THEN Doubled(body[i]) ELSE body[i]
        weighted == MapThenSumSet(value, 1..15)
    IN  Append(body, (10 - (weighted % 10)) % 10)

\* Luhn's test: from the right, every second digit doubled, a multiple of ten.
LuhnValid(card) ==
    LET back == Reverse(card)
        value(i) == IF i % 2 = 0 THEN Doubled(back[i]) ELSE back[i]
    IN  MapThenSumSet(value, DOMAIN card) % 10 = 0
=============================================================================
