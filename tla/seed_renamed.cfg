SPECIFICATION Spec
CONSTANTS
    Kinds <- SeedOnly
    Targets <- TwoTargets
    None = None
    MaxEdits = 1
    MaxFaults = 0
    MaxLag = 3
INVARIANTS
    ReadyMeansMade
