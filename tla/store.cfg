SPECIFICATION Spec
CONSTANTS
    Policies <- SomePolicies
    Names = {"rowfilters", "renamed"}
    PageSize = 1
    MaxEdits = 2
    MaxFaults = 2
    MaxLate = 1
INVARIANTS
    TypeOK
    OneStore
    GivenUsable
    NoChurn
PROPERTIES
    StoreKept
    Settles
