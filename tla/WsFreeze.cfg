SPECIFICATION FairSpec
CONSTANTS
    None = None
    NoDir = NoDir
    Workspaces = {w1}
    InitLive = {w1}
    Idling = {}
    Execs = {e1, e2}
    Calls = {c1}
    Ops = {"snapshot", "delete"}
    SnapIds = {s1}
    Permits = 1
    MaxUpdates = 2
    MaxForks = 1
    MaxCrashes = 1
    FreezeTimeouts = FALSE
INVARIANTS TypeOK FrozenCopyConsistent
 
