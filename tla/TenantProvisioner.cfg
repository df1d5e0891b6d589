SPECIFICATION FairSpec
CONSTANTS
    Tenants = {1, 2}
    Operators = {p1, p2}
    MaxActors = 3
    MaxHead = 2
    MaxFaults = 1
    MaxLosses = 1
INVARIANTS
    ReadyIsUsable
PROPERTIES
    OnlyTheCaughtAreRecreated
    UpgradeLeavesNone
    RerunSettles
