SPECIFICATION ReadersSpec
CONSTANTS
    Relationships = {x1}
    Pairs = {p1}
    Stages = {"Sourced", "Applied"}
    Assignees = {"beta"}
    KnownActors = {}
    Drafts = {}
    Requests = {r1, r2}
    MaxCalls = 3
    MaxAborts = 0
    MaxReads = 0
    Words = {"word"}
    Skills = {"go"}
    Years = {2}
    Salaries = {2}
    Null = Null
    Invalid = Invalid
    None = None
SYMMETRY Symmetry
CHECK_DEADLOCK FALSE
PROPERTY
    HistoryAppendOnly
