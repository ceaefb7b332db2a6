SPECIFICATION Spec
CONSTANTS
    Slots = {s1, s2}
    Clients = {c1, c2}
    recruiter = recruiter
    viewer = viewer
    stranger = stranger
    Asked <- MCAsked
    Actors = {recruiter, viewer, stranger}
    RoleOf <- MCRoleOf
    DefaultActor = recruiter
    Window = 2
    Limit = 1
    MaxBuckets = 1
    MaxTime = 3
    MaxRequests = 2
    None = None
CHECK_DEADLOCK FALSE
INVARIANTS
    WindowBound
    ViewerReadOnly
    DrainedBeforeDisconnect
PROPERTIES
    ShutdownEnds
