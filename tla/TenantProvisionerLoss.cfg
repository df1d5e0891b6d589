SPECIFICATION Spec
CONSTANTS
    Tenants = {1}
    Operators = {p1}
    MaxActors = 2
    MaxHead = 1
    MaxFaults = 1
    MaxLosses = 1
PROPERTY
    MigratedNeverRecreated
