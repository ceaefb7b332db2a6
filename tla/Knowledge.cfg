SPECIFICATION MeasuredSpec
CONSTANTS
    Candidates = {c1}
    Fields = {"summary", "skills"}
    Values = {v1, v2}
    Claims = {65}
    Sources = {"resume", "client"}
    Slots = {s1, s2}
    MaxRequests = 3
    MaxFailures = 1
    MaxBeacons = 2
    Missing = {v2}
    Confidence <- MCConfidence
    Names = {"an", "binh"}
    Emails = {"a@x", "b@x"}
    Phones = {"1"}
    Null = Null
    None = None
SYMMETRY Symmetry
CHECK_DEADLOCK FALSE
INVARIANTS
    KnowledgeSound
    Agreement
    MeasuredOnce
    ShownTruly
PROPERTY
    HistoryKept
