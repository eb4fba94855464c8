\* Two attacks with the same or different ids, one DELETE request, shutdown.
CONSTANTS
    Attack = {a1, a2}
    ID = {i1, i2}
    Stopper = {s1}
    Main = main
    None = None
    Seconds = {1}
    Second = 2
    MaxDuration = 15
SPECIFICATION Spec
CONSTRAINT OneContextLost
SYMMETRY Symmetry
INVARIANTS
    IInv
    GaugeExact
    ShutdownStopsRegistered
