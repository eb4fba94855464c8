\* One attack, a DELETE request, shutdown, and a request that reads.
CONSTANTS
    Attack = {a1}
    ID = {i1, i2}
    Stopper = {s1}
    Reader = {r1}
    Main = main
    None = None
    Seconds = {1, 9}
    Second = 2
    MaxDuration = 15
SPECIFICATION ReadersSpec
SYMMETRY Symmetry
INVARIANTS
    CompletedHasResult
    FinalFilterExact
    ActiveCountBetween
