\* Expected to fail: see the finding on NaturalCompletion.
CONSTANTS
    Attack = {a1, a2}
    ID = {i1}
    Stopper = {s1}
    Main = main
    None = None
    Seconds = {1}
    Second = 2
    MaxDuration = 15
SPECIFICATION Spec
INVARIANT NaturalCompletion
