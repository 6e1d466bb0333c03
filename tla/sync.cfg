SPECIFICATION DefaultSpec
CONSTANTS
    Warehouses <- TwoWarehouses
    None = None
    Principals <- AdminAndTrino
    AccessGroups <- TwoGroups
    OnWarehouse <- WarehouseRelations
    Users <- ThreeUsers
    ServiceAccounts <- Service
    Imported <- AdminImported
    PageSize = 2
    MemberLimit = 2
    MaxEdits = 1
    MaxMoves = 2
    MaxFaults = 2
    MaxLosses = 2
    MaxRoles = 1
    Foreign = TRUE
INVARIANTS
    TypeOK
    OnlyMembersGranted
    RolesNotMixed
    ReadyComplete
PROPERTIES
    Converges
ACTION_CONSTRAINTS
    Scenario
