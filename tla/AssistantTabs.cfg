SPECIFICATION Spec
CONSTANTS
    Conversations = {c1, c2, c3}
    Calls = {k1, k2}
    Tabs = {t1, t2}
    MaxKept = 1
    MaxInterrupts = 2
    MaxJobs = 3
    None = None
SYMMETRY MCSymmetry
CHECK_DEADLOCK FALSE
INVARIANTS
    ShownIsKept
    JobsCostInterrupts
PROPERTIES
    AnswersKept
