SPECIFICATION ViewsSpec
CONSTANTS
    Jobs = {j1, j2}
    Candidates = {c1, c2}
    Submissions = {s1, s2}
    Interviews = {i1}
    Offers = {o1}
    Requests = {r1}
    PatchStatuses = {"Placed"}
    JobPatches = {"Draft"}
    Rounds = {}
    MaxCalls = 5
    MaxAborts = 0
    MaxReports = 1
    None = None
SYMMETRY Symmetry
CHECK_DEADLOCK FALSE
INVARIANTS
    CountsExactAtRest
    ReportSound
    ReadersShowCause
PROPERTY
    DeletedJobFrozen
