SPECIFICATION Spec
CONSTANTS
    Specs <- SecuredOnly
    Edits <- NoEdits
    MaxGeneration = 1
    MaxFaults = 0
PROPERTIES
    OPAOutageReported
CHECK_DEADLOCK FALSE
