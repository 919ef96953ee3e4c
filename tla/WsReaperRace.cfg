SPECIFICATION Spec
CONSTANTS
    None = None
    NoDir = NoDir
    Workspaces = {v1}
    InitLive = {v1}
    Idling = {v1}
    Execs = {e1}
    Calls = {c1}
    Ops = {"snapshot"}
    SnapIds = {s1, s2}
    Permits = 1
    MaxUpdates = 1
    MaxForks = 1
    MaxCrashes = 0
    FreezeTimeouts = FALSE
PROPERTY ReaperSparesRunning
CHECK_DEADLOCK FALSE
