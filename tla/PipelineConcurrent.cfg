SPECIFICATION Spec
CONSTANTS
    Jobs = {j1}
    Candidates = {c1, c2}
    Submissions = {s1, s2}
    Interviews = {i1, i2}
    Offers = {o1}
    Requests = {r1, r2}
    PatchStatuses = {"Client Reviewing"}
    JobPatches = {"Draft"}
    Rounds = {}
    MaxCalls = 5
    MaxAborts = 1
    None = None
SYMMETRY Symmetry
CHECK_DEADLOCK FALSE
INVARIANTS
    CountsSound
    ReferencesAgree
    StatusHasCause
    ActivityTrail
