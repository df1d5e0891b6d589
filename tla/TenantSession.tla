--------------------------- MODULE TenantSession ---------------------------
(***************************************************************************)
(* Transactions of one PostgreSQL database over a connection pool, and the *)
(* row-level security that filters them (core/db.py, core/rls.py and the   *)
(* policies, grants and foreign keys of both migration trees).             *)
(*                                                                         *)
(* The tenant or identity a session works for is a database setting of the *)
(* connection.  Connections outlive sessions, so whether one session's     *)
(* context reaches the next depends on set_config(..., is_local).          *)
(* With owner = NoTenant the database is the registry, else the database   *)
(* of tenant owner.  Tenants and Identities rows carry no policy and are   *)
(* left out.  No operation changes the "tenantId" of a row.                *)
(***************************************************************************)
CONSTANTS
    Tenants, Identities,
    NoTenant, NoIdentity,  \* the setting is absent or '' (nullif)
    Tables,                \* the tables looked at
    Connections,           \* pooled server connections
    Role,                  \* database role each connection logged in with
    Threads                \* threads that open sessions

MembershipTables == {"Memberships"}
ModuleTables == {"TenantModules"}
CompanyTables == {"Companies", "Branches"}
AuditTables == {"AuditEvents"}
OutboxTables == {"OutboxEvents", "ProcessedEvents"}

RegistryTables == MembershipTables \cup ModuleTables
TenantTables == CompanyTables \cup AuditTables \cup OutboxTables

ASSUME NoTenantAssumption == NoTenant \notin Tenants
ASSUME NoIdentityAssumption == NoIdentity \notin Identities
ASSUME RoleAssumption == Role \in [Connections -> {"erp_app", "erp_relay"}]
ASSUME TablesAssumption == Tables \subseteq RegistryTables \cup TenantTables

Contexts == [tenant : Tenants \cup {NoTenant},
             identity : Identities \cup {NoIdentity}]
NoContext == [tenant |-> NoTenant, identity |-> NoIdentity]

\* Only a membership names an identity; the row's uuid is abstracted, one
\* row of each kind is enough to tell the policies apart.
Rows ==
    {row \in [table : Tables, tenant : Tenants,
              identity : Identities \cup {NoIdentity}] :
        (row.identity # NoIdentity) <=> (row.table \in MembershipTables)}

VARIABLES
    owner,     \* the tenant in "DatabaseOwners", NoTenant in the registry
    rows,      \* committed rows
    baseline,  \* settings of each connection that survive a transaction
    current,   \* settings current_setting() returns on each connection
    phase,     \* "idle", "begun" (context not set yet) or "open"
    conn,      \* connection of each thread that is not idle
    want,      \* the context the thread asked for
    pending,   \* rows inserted by the running transaction
    changed,   \* rows updated by it
    seen       \* rows the running transaction has read

vars == <<owner, rows, baseline, current, phase, conn, want, pending, changed,
          seen>>

TypeOK ==
    /\ owner \in Tenants \cup {NoTenant}
    /\ rows \subseteq Rows
    /\ baseline \in [Connections -> Contexts]
    /\ current \in [Connections -> Contexts]
    /\ phase \in [Threads -> {"idle", "begun", "open"}]
    /\ conn \in [Threads -> Connections]
    /\ want \in [Threads -> Contexts]
    /\ pending \in [Threads -> SUBSET Rows]
    /\ changed \in [Threads -> SUBSET Rows]
    /\ seen \in [Threads -> SUBSET Rows]

Init ==
    /\ owner \in Tenants \cup {NoTenant}
    /\ rows = {}
    /\ baseline = [c \in Connections |-> NoContext]
    /\ current = [c \in Connections |-> NoContext]
    /\ phase = [s \in Threads |-> "idle"]
    /\ conn \in [Threads -> Connections]
    /\ want = [s \in Threads |-> NoContext]
    /\ pending = [s \in Threads |-> {}]
    /\ changed = [s \in Threads |-> {}]
    /\ seen = [s \in Threads |-> {}]

----------------------------------------------------------------------------
(* Tables, policies, grants and foreign keys.                              *)

TablesHere ==
    Tables \cap IF owner = NoTenant THEN RegistryTables ELSE TenantTables

TenantPolicy(context, row) ==
    /\ context.tenant # NoTenant
    /\ row.tenant = context.tenant

IdentitySelfRead(context, row) ==
    /\ context.identity # NoIdentity
    /\ row.table \in MembershipTables
    /\ row.identity = context.identity

RelayDispatch(role, row) ==
    /\ role = "erp_relay"
    /\ row.table = "OutboxEvents"

MaySelect(role, table) == role = "erp_app" \/ table = "OutboxEvents"
MayInsert(role) == role = "erp_app"
MayUpdate(role, table) ==
    \/ role = "erp_app" /\ table \notin AuditTables
    \/ role = "erp_relay" /\ table = "OutboxEvents"

\* Fault: "tenantId" without its foreign key.
OwnerKeyMissing(row) == TRUE

\* "tenantId" references "DatabaseOwners", which has one row for ever.
OwnerKey(row) == owner = NoTenant \/ row.tenant = owner

\* Permissive policies are OR-ed.
Visible(role, context, row) ==
    \/ TenantPolicy(context, row)
    \/ IdentitySelfRead(context, row)
    \/ RelayDispatch(role, row)

\* Fault: identitySelfRead without FOR SELECT.
WritableBySelf(role, context, row) ==
    \/ TenantPolicy(context, row)
    \/ IdentitySelfRead(context, row)
    \/ RelayDispatch(role, row)

\* WITH CHECK, and USING for an UPDATE: identitySelfRead is FOR SELECT only.
Writable(role, context, row) ==
    \/ TenantPolicy(context, row)
    \/ RelayDispatch(role, row)

----------------------------------------------------------------------------
(* Sessions.                                                               *)

Idle(c) == \A s \in Threads : conn[s] = c => phase[s] = "idle"

\* A connection is checked out (reopened if the ping fails) and BEGIN runs.
Begin(s, c, context) ==
    /\ phase[s] = "idle"
    /\ Idle(c)
    /\ phase' = [phase EXCEPT ![s] = "begun"]
    /\ conn' = [conn EXCEPT ![s] = c]
    /\ want' = [want EXCEPT ![s] = context]
    /\ UNCHANGED <<rows, baseline, current, pending, changed, seen>>

\* Fault: set_config(name, value, false).
SetForSession(s, name, value) ==
    /\ current' = [current EXCEPT ![conn[s]][name] = value]
    /\ baseline' = [baseline EXCEPT ![conn[s]][name] = value]

\* Fault: the two setting names are swapped.
SetOther(s, name, value) ==
    /\ current' = [current EXCEPT
                     ![conn[s]][IF name = "tenant" THEN "identity"
                                                   ELSE "tenant"] = value]
    /\ UNCHANGED baseline

\* set_config(name, value, true): lost at the end of the transaction.
SetLocal(s, name, value) ==
    /\ current' = [current EXCEPT ![conn[s]][name] = value]
    /\ UNCHANGED baseline

Enter(s) ==
    /\ phase[s] = "begun"
    /\ phase' = [phase EXCEPT ![s] = "open"]
    /\ UNCHANGED <<rows, conn, want, pending, changed, seen>>

TenantSession(s) ==
    /\ Enter(s)
    /\ want[s].tenant # NoTenant
    /\ SetLocal(s, "tenant", want[s].tenant)

PlatformSession(s) ==
    /\ Enter(s)
    /\ want[s].tenant = NoTenant
    /\ IF want[s].identity # NoIdentity
       THEN SetLocal(s, "identity", want[s].identity)
       ELSE UNCHANGED <<current, baseline>>

Select(s, table) ==
    LET c == conn[s]
    IN  /\ phase[s] = "open"
        /\ table \in TablesHere
        /\ MaySelect(Role[c], table)
        /\ seen' = [seen EXCEPT ![s] =
                      {row \in rows \cup pending[s] :
                          /\ row.table = table
                          /\ Visible(Role[c], current[c], row)}]
        /\ UNCHANGED <<rows, baseline, current, phase, conn, want, pending,
                       changed>>

Insert(s, row) ==
    LET c == conn[s]
    IN  /\ phase[s] = "open"
        /\ row \notin rows
        /\ row.table \in TablesHere
        /\ MayInsert(Role[c])
        /\ Writable(Role[c], current[c], row)
        /\ OwnerKey(row)
        /\ pending' = [pending EXCEPT ![s] = @ \cup {row}]
        /\ UNCHANGED <<rows, baseline, current, phase, conn, want, changed,
                       seen>>

\* The relay marks an outbox row, or an upsert finds its row: a row another
\* transaction has changed is locked, and one the policies hide is not found.
Update(s, row) ==
    LET c == conn[s]
    IN  /\ phase[s] = "open"
        /\ row \in rows \cup pending[s]
        /\ \A q \in Threads \ {s} : row \notin changed[q]
        /\ MayUpdate(Role[c], row.table)
        /\ Writable(Role[c], current[c], row)
        /\ changed' = [changed EXCEPT ![s] = @ \cup {row}]
        /\ UNCHANGED <<rows, baseline, current, phase, conn, want, pending,
                       seen>>

\* The transaction is over: its local settings fall back, the connection
\* goes back to the pool.
Release(s) ==
    /\ phase' = [phase EXCEPT ![s] = "idle"]
    /\ current' = [current EXCEPT ![conn[s]] = baseline[conn[s]]]
    /\ want' = [want EXCEPT ![s] = NoContext]
    /\ pending' = [pending EXCEPT ![s] = {}]
    /\ changed' = [changed EXCEPT ![s] = {}]
    /\ seen' = [seen EXCEPT ![s] = {}]
    /\ UNCHANGED <<baseline, conn>>

Commit(s) ==
    /\ phase[s] = "open"
    /\ rows' = rows \cup pending[s]
    /\ Release(s)

\* An exception, a rejected statement or a lost connection.
Rollback(s) ==
    /\ phase[s] # "idle"
    /\ UNCHANGED rows
    /\ Release(s)

\* tenant_session sets one setting, platform_session at most the other.
Requests == {context \in Contexts : \/ context.tenant = NoTenant
                                    \/ context.identity = NoIdentity}

Step(s) ==
    \/ \E c \in Connections, context \in Requests : Begin(s, c, context)
    \/ TenantSession(s)
    \/ PlatformSession(s)
    \/ \E table \in Tables : Select(s, table)
    \/ \E row \in Rows : Insert(s, row) \/ Update(s, row)
    \/ Commit(s)
    \/ Rollback(s)

\* No role may change "DatabaseOwners".
Next == UNCHANGED owner /\ \E s \in Threads : Step(s)

Spec == Init /\ [][Next]_vars

----------------------------------------------------------------------------
(* Properties.                                                             *)

\* What a session may read: the rows of its tenant, the memberships of its
\* identity; the relay role, the outbox.
InContext(s, row) ==
    \/ row.tenant = want[s].tenant
    \/ row.table \in MembershipTables /\ row.identity = want[s].identity
    \/ Role[conn[s]] = "erp_relay" /\ row.table = "OutboxEvents"

\* No session reads a row outside the context it asked for, whatever
\* sessions used its connection before (db.py: "a pooled connection never
\* carries one request's context into the next").  In particular a platform
\* session of erp_app reads no tenant-owned row.
ReadsStayInContext == \A s \in Threads : \A row \in seen[s] : InContext(s, row)

\* A session inserts and changes only rows of the tenant it asked for.  A
\* platform session therefore inserts nothing and changes nothing, that of an
\* identity not even the memberships it reads; only the relay's marks rows of
\* the outbox.
WritesStayInContext ==
    \A s \in Threads :
        /\ \A row \in pending[s] : row.tenant = want[s].tenant
        /\ \A row \in changed[s] :
              \/ row.tenant = want[s].tenant
              \/ Role[conn[s]] = "erp_relay" /\ row.table = "OutboxEvents"

\* A tenant database never holds a row of another tenant, even when a
\* session for the wrong tenant reaches it.
RowsBelongToOwner ==
    owner # NoTenant => \A row \in rows : row.tenant = owner
=============================================================================
