SPECIFICATION Spec
CONSTANTS
    Integrations = {g1}
    Imports = {i1, i2}
    Exports = {e1}
    Payloads <- MCPayloads
    MaxFaults = 2
    MaxEdits = 1
    MaxRestarts = 1
    None = None
SYMMETRY MCSymmetry
CHECK_DEADLOCK FALSE
INVARIANTS
    ImportWhole
    LeftoversCostFaults
    AuditLossBounded
PROPERTIES
    DisabledStaysOff
