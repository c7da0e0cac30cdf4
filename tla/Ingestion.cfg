SPECIFICATION Spec

CONSTANTS
    Postings = {p1, p2}
    Contents = {c1, c2}
    None = None
    MaxPasses = 3
    MaxFaults = 1

INVARIANTS
    BatchIsOneAtATime
    NothingOnPageIsLost

PROPERTY
    ImplementsStore

SYMMETRY Symmetry

CHECK_DEADLOCK FALSE
