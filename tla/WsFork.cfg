SPECIFICATION Spec
CONSTANTS
    None = None
    NoDir = NoDir
    Workspaces = {w1, w2, v1}
    InitLive = {w1}
    Idling = {v1}
    Execs = {e1}
    Calls = {c1, c2}
    Ops = {"snapshot", "fork", "restore", "create", "delete", "drop"}
    SnapIds = {s1, s2}
    Permits = 1
    MaxUpdates = 1
    MaxForks = 2
    MaxCrashes = 1
    FreezeTimeouts = TRUE
SYMMETRY Symmetric
INVARIANTS DefaultKeepsWork 
PROPERTY PauseSaves
CHECK_DEADLOCK FALSE
