SPECIFICATION ReadersSpec
CONSTANTS
    Relationships = {x1}
    Pairs = {p1}
    Stages = {"Sourced", "Applied"}
    Assignees = {"beta"}
    KnownActors = {"beta"}
    Drafts = {d1}
    Requests = {r1}
    MaxCalls = 4
    MaxAborts = 1
    Invalid = Invalid
    Null = Null
    Skills = {"go", "sql"}
    Years = {2, 5}
    Salaries = {2, 3}
    MaxReads = 1
    Words = {"word"}
    None = None
CONSTRAINT ReadsEarlier
SYMMETRY Symmetry
CHECK_DEADLOCK FALSE
INVARIANTS
    ReadersSound
    OutreachOnce
PROPERTY
    ImplementsLog
