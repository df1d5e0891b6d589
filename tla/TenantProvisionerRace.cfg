SPECIFICATION Spec
CONSTANTS
    Tenants = {1}
    Operators = {p1, p2}
    MaxActors = 3
    MaxHead = 1
    MaxFaults = 0
    MaxLosses = 1
PROPERTY
    RecordedNeverRecreated
