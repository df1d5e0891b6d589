SPECIFICATION FairSpec
CONSTANTS
    Tenants = {1, 2, 3}
    BatchSize = 1
    MaxEvents = 3
    MaxFaults = 2
CHECK_DEADLOCK FALSE
PROPERTIES
    PassServesReachable
    Drains
