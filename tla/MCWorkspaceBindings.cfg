CONSTANTS
    Workspaces = {w1, w2}
    Profiles = {p}
    NoProfile = NoProfile
    MaxId = 2
    MaxRestarts = 1
    MaxEnded = 1
    MaxAgents = 1
    MaxBindings = 2
    MaxSyncs = 1
SPECIFICATION Spec
SYMMETRY Symmetry
INVARIANTS
    TypeOK
    ConnectedSessionHasOneWorkspace
PROPERTIES SyncKeepsProfiles
CHECK_DEADLOCK FALSE
