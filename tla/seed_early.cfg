SPECIFICATION Spec
CONSTANTS
    Specs <- SeedingShapes
    Edits <- SeedingEdits
    MaxGeneration = 2
    MaxFaults = 0
INVARIANTS
    SeedAfterWarehouse
CHECK_DEADLOCK FALSE
