\* Two creates and three stops of one or two runs, and two event streams.
\* Clients call and hang up as they like.
CONSTANTS
    RunID = {i1, i2}
    Creator = {c1, c2}
    Stopper = {d1, d2, d3}
    Subscriber = {s1, s2}
    None = None
SPECIFICATION Spec
SYMMETRY Symmetry
INVARIANTS
    GaugeExact
    OneStopWins
PROPERTIES
    StopCutsStreams
    StoreSpec
