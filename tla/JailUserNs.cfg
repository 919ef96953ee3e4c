SPECIFICATION FairSpec
CONSTANTS
    UserNs = {TRUE}
    EarlyDeaths = FALSE
PROPERTY SpawnReturns
CHECK_DEADLOCK FALSE
