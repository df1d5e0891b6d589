SPECIFICATION MCSpec
CONSTANTS
    Tenants = {t1, t2}
    NoTenant = NoTenant
    Requests = {q1, q2}
    Routes = {"core", "module", "contexts"}
    MaxChanges = 2
    PairChanges = 1
    Flaws = {"none", "algorithm", "forged", "claims"}
    MaxKeys = 2
    Leeway = 1
    MaxNow = 2
    MaxRealmChanges = 3
SYMMETRY Symmetry
CHECK_DEADLOCK FALSE
INVARIANTS
    ServedWasEntitled
    NoSilentChoice
    ServedModuleWasOn
    RefusedForCause
    TokenRefusedForCause
