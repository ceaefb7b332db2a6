SPECIFICATION Spec
CONSTANTS
    Notifications = {n1, n2, n3}
    Notes = {k1, k2}
    Actors = {a1, a2}
    Outcomes = {"assignment"}
    MaxFaults = 2
    MaxRestarts = 1
    None = None
SYMMETRY MCSymmetry
CHECK_DEADLOCK FALSE
INVARIANTS
    ReadStays
    OrphansCostFaults
PROPERTIES
    KeptOnFile
