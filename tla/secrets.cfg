SPECIFICATION FairSpec
CONSTANTS
    Platforms <- OnePlatform
    None = None
    Namespaces <- TwoNamespaces
    KcNs <- OneKc
    FgaNs <- OneFga
    MaxDeletes = 1
    MaxFaults = 2
PROPERTIES
    KeycloakConverges
    OPAConverges
ACTION_CONSTRAINTS
    Scenario
