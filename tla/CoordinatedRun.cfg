SPECIFICATION FairSpec
CHECK_DEADLOCK FALSE
CONSTANTS
    Runs = {r1, r2}
    Deliverers = {d1, d2}
    MaxAttempts = 2
    StaleAfter = 0
INVARIANTS
    OneHolder
    HolderSeesWholeState
PROPERTIES
    AlertsSettle
    CrashedLockIsRecovered
