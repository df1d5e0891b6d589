SPECIFICATION Spec
CONSTANTS
    a1 = a1
    a2 = a2
    r1 = r1
    Tenants = {t1, t2}
    Identities = {i1, i2}
    NoTenant = NoTenant
    NoIdentity = NoIdentity
    Tables = {"Memberships", "TenantModules", "Companies", "OutboxEvents"}
    Connections = {a1, a2, r1}
    Role <- MCRole
    Threads = {s1, s2}
SYMMETRY Symmetry
INVARIANTS
    TypeOK
    ReadsStayInContext
    WritesStayInContext
    RowsBelongToOwner
