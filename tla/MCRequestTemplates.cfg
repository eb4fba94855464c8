\* Two virtual users send three requests of a node with three variants, or of
\* one whose weights are all zero.
CONSTANTS
    VU = {v1, v2}
    Collection = {"users", "products"}
    Column = {"id", "name"}
    Row = {1, 2}
    Trace = {t1, t2}
    Texts = {"shop", "vendor=a", "vendor=b", "/home", "eve", "bob", "7"}
    Nodes <- TwoNodes
    MaxSent = 3
    None = None
SPECIFICATION Spec
SYMMETRY Symmetry
CHECK_DEADLOCK FALSE
INVARIANTS
    OneRowPerRequest
    RequestsIndependent
    OneTracePerRun
