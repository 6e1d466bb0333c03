SPECIFICATION Spec
CONSTANTS
    Specs <- EveryShape
    Edits <- SomeEdits
    MaxGeneration = 2
    MaxFaults = 1
INVARIANTS
    TypeOK
    ReadyConsistent
    WarehouseTruth
    OPABeforeTrino
PROPERTIES
    LakekeeperComplete
    OutageReported
    Converges
CHECK_DEADLOCK FALSE
