SPECIFICATION Spec
CONSTANTS
    Platforms <- TwoPlatforms
    None = None
    Namespaces <- ThreeNamespaces
    KcNs <- TwoKc
    FgaNs <- TwoFga
    MaxDeletes = 0
    MaxFaults = 2
INVARIANTS
    TypeOK
    OneOwner
PROPERTIES
    OwnerWrites
    KeyIsWriteOnce
