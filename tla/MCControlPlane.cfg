\* Three POSTs of workflows under two ids and two names, a run, a dataset and a
\* DELETE.  Every request answered is a legitimate end.
CONSTANTS
    WorkflowID = {i1, i2}
    Name = {n1, n2}
    DatasetID = {x1}
    Poster = {p1, p2, p3}
    Starter = {c1}
    Remover = {d1}
    None = None
SPECIFICATION Spec
SYMMETRY Symmetry
CHECK_DEADLOCK FALSE
INVARIANTS
    PlaneInv
    NameSurvives
PROPERTIES
    GuardSparesSeen
