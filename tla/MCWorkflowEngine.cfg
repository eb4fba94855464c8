\* Two iterations of one virtual user through every flow of a family.
CONSTANTS
    Flow <- Registered
    Vertex <- AllNodes
    Path <- Paths
    None = None
    MaxIterations = 2
    MaxRequests = 14
    MaxCount = 2
    MaxNodes = 16
    MaxVariants = 2
SPECIFICATION FairSpec
CHECK_DEADLOCK FALSE
INVARIANTS
    EngineInv
    Isolation
    EarlierVisible
PROPERTIES
    NoRequestAfterFailure
    ParallelWaits
    IterationEnds
