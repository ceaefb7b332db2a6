SPECIFICATION Spec
CONSTANTS
    Jobs = {j1, j2}
    Contents = {"a", "b"}
    Names = {"n1", "n2"}
    Packages <- MCPackages
    MaxFailures = 1
    MaxFaults = 1
    MaxRestarts = 1
    None = None
CHECK_DEADLOCK FALSE
INVARIANTS
    ReportAddsUp
    ImportedOnce
    KnownIsComplete
PROPERTIES
    StagedUntilEnded
    ConfirmedEnds
