\* One run, one attack, two workers of vegeta and three requests.
CONSTANTS
    Run = {"r1"}
    Worker = {w1, w2}
    Name = {"shop", "shop, v2"}
    Given = {"browse", "a=b"}
    Unsafe = {"shop, v2", "a=b"}
    Fresh = "5eed"
    MaxSent = 3
    None = None
SPECIFICATION Spec
SYMMETRY Symmetry
CHECK_DEADLOCK FALSE
INVARIANTS
    BaggageExact
    KeysFresh
    RunCorrelated
    ReceiverReads
