SPECIFICATION FairSpec
CONSTANTS
    Orders = 2
    Workers = {0}
    MaxEdits = 0
    MaxFaults = 0
PROPERTIES
    Converges
