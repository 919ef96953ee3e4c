SPECIFICATION Spec
CONSTANTS
    None = None
    NoDir = NoDir
    Workspaces = {w1}
    InitLive = {w1}
    Idling = {}
    Execs = {e1, e2, e3}
    Calls = {c1, c2}
    Ops = {"snapshot", "delete"}
    SnapIds = {s1, s2}
    Permits = 2
    MaxUpdates = 0
    MaxForks = 1
    MaxCrashes = 1
    FreezeTimeouts = FALSE
SYMMETRY Symmetric
INVARIANTS ExclusiveExec RegistrationExact  QuiescentClean
