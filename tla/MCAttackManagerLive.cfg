\* One attack, two DELETE requests, under the fairness of the scheduler.
CONSTANTS
    Attack = {a1}
    ID = {i1}
    Stopper = {s1, s2}
    Main = main
    None = None
    Seconds = {1, 5, 9}
    Second = 2
    MaxDuration = 15
SPECIFICATION FairSpec
PROPERTIES
    LifecycleSpec
    LaunchedFinishes
    StopConverges
    ShutdownEnds
