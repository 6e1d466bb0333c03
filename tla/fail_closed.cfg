SPECIFICATION Spec
CONSTANTS
    Specs <- SecuredOnly
    Edits <- NoEdits
    MaxGeneration = 1
    MaxFaults = 1
PROPERTIES
    TrinoStaysGuarded
CHECK_DEADLOCK FALSE
