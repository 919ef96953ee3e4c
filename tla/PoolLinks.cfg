SPECIFICATION Spec
CONSTANTS
    None = None
    d1 = d1
    d2 = d2
    Dirs = {d1, d2}
    Home = d1
    Paths = {p1, p2}
    Contents = {a, b}
    MaxSnaps = 3
    MaxInodes = 7
    MaxCount = 1
    ListCap = 2
    MaxFaults = 1
    Workloads <- MCWorkloads

PROPERTY SnapshotsKeepContent
CHECK_DEADLOCK FALSE
