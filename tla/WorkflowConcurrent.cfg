SPECIFICATION ReadersSpec
CONSTANTS
    Relationships = {x1}
    Pairs = {p1}
    Stages = {"Sourced", "Applied"}
    Assignees = {"beta"}
    KnownActors = {"beta"}
    Drafts = {"draft"}
    Requests = {r1, r2}
    MaxCalls = 4
    MaxAborts = 1
    MaxReads = 0
    Words = {"word"}
    Skills = {"go"}
    Years = {2}
    Salaries = {2}
    Null = Null
    Invalid = Invalid
    None = None
SYMMETRY Symmetry
CHECK_DEADLOCK FALSE
INVARIANTS
    FunnelAddsUp
    HistoryChained
    ToldAfterDone
    AuditedOnce
