\* Two publishers and two readers of one run; a channel of one event fills up.
\* All readers and publishers done is a legitimate end, but CloseRun can always
\* be called again.  No symmetry: two properties are about liveness.
CONSTANTS
    Run = {r1}
    Subscriber = {s1, s2}
    Publisher = {p1, p2}
    Capacity = 1
    p1 = p1
    p2 = p2
    MaxEvents <- TwoAndOne
    None = None
SPECIFICATION FairSpec
INVARIANTS
    BrokerInv
    PublisherOrder
PROPERTIES
    PublishNeverBlocks
    CloseEndsStreams
