\* Small workloads over either ledger, a ring of two rows, hang-ups, restarts.
SPECIFICATION FairSpec
CONSTANTS
    Workloads <- MCWorkloads
    Backends = {"memory", "postgres"}
    MaxExecs = 2
    Capacity = 2
    MaxRows = 3
    MaxLines = 1
    MaxFiles = 2
INVARIANTS
    TypeOK
    RunningRowsOwned
    EndedMeansDead
    FinalFiguresKept
    CompletedHasNoTasks
    FrozenClonesConsistent
PROPERTIES
    EndedStays
    
CHECK_DEADLOCK FALSE
