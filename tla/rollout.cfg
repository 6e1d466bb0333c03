SPECIFICATION FairSpec
CONSTANTS
    Orders = 1
    Workers = {0, 1}
    MaxEdits = 2
    MaxFaults = 1
INVARIANTS
    TypeOK
    PodsNotStale
    ReadyAfterPod
PROPERTIES
    RollsForward
    Converges
ACTION_CONSTRAINTS
    Scenario
