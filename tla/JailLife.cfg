SPECIFICATION FairSpec
CONSTANTS
    UserNs = {FALSE}
    EarlyDeaths = FALSE
INVARIANTS LimitsFirst NetworkFirst DoneLeavesNothing KillsOwnChild
PROPERTIES  TimeoutEnds
CHECK_DEADLOCK FALSE
