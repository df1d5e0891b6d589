SPECIFICATION Spec
CONSTANTS
    Keys <- MCKeys
    Core <- MCCore
    DependsOn <- MCDependsOn
    Tenants = {t1}
    Sessions = {s1, s2, s3}
SYMMETRY Symmetry
INVARIANTS
    TypeOK
    DependencyClosed
PROPERTY
    AtomicSpec
