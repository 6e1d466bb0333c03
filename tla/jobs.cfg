SPECIFICATION Spec
CONSTANTS
    Kinds <- BothKinds
    Targets <- TwoTargets
    None = None
    MaxEdits = 1
    MaxFaults = 2
    MaxLag = 3
INVARIANTS
    TypeOK
    ReadyAfterWork
    SeededOnce
PROPERTIES
    DeletesOnlyUnwanted
    Settles
ACTION_CONSTRAINTS
    Scenario
