--------------------------- MODULE TenantRequest ---------------------------
(***************************************************************************)
(* An API request, from its token to the tenant's data, while an           *)
(* administrator changes the registry, sessions fail to open and other     *)
(* requests run (platform/context.py, dependencies.py, tenant_db.py,    *)
(* service.py, app.py, core/errors.py).                                    *)
(*                                                                         *)
(* Every step below is a transaction of its own: identity lookup, then     *)
(* memberships, then the module guard, then the placement, then the page.  *)
(* FastAPI evaluates the context dependency once per request and hands the *)
(* same RequestContext to the guard, the router and the service.           *)
(* All requests are of one identity: TenantSession shows that the rows of  *)
(* others do not reach it.                                                 *)
(***************************************************************************)
EXTENDS TokenVerifier, FiniteSets

CONSTANTS
    Tenants,
    NoTenant,     \* no X-Tenant-Id header; no tenant chosen yet
    Routes,       \* kinds of controllers called
    MaxChanges    \* bound on the changes of the registry and its servers

ASSUME NoTenantAssumption == NoTenant \notin Tenants
\* Without a module guard, with one, and GET /me/contexts.
ASSUME RoutesAssumption == Routes \subseteq {"core", "module", "contexts"}
ASSUME MaxChangesAssumption == MaxChanges \in Nat
ASSUME TenantsAssumption == IsFiniteSet(Tenants)

VARIABLES
    provisioned,  \* the identity has its "Identities" row
    membership,   \* status of its memberships, by kind and tenant
    active,       \* tenants whose "tenantStatus" is 'active'
    enabled,      \* tenants that enabled the guarded module
    ready,        \* tenants whose "databaseStatus" is 'ready'
    placed,       \* tenants whose "databaseServer" the settings name
    registryFails, \* no session of the registry can be opened
    failing,      \* tenants on whose database no session can be opened
    cached,       \* tenants whose pool the router holds
    changes,      \* number of changes still to come
    route,        \* the controller called
    malformed,    \* what FastAPI cannot validate: the header, or the query
    header,       \* X-Tenant-Id
    found,        \* memberships read
    tenant,       \* tenant_id of the RequestContext
    snaps,        \* history: entitlements at the instants of the request
    witnessed     \* history: what else was so at some instant of it

verifier == <<realmVars, clientVars, token, hindrances>>
registry == <<provisioned, membership, active, enabled, ready, placed,
              registryFails, failing>>
request == <<route, malformed, header, found, tenant>>
vars == <<verifier, registry, cached, changes, pc, request, snaps, witnessed>>

\* The answers and their HTTP status: each DomainError has its own, a
\* validation error is 422, and any other exception 500.
Status ==
    [listed |-> 200, served |-> 200, selectTenant |-> 400,
     unauthenticated |-> 401, identityUnknown |-> 403, denied |-> 403,
     moduleDisabled |-> 403, invalid |-> 422, internalError |-> 500,
     unavailable |-> 503]

Answers == DOMAIN Status
Running == {"verified", "memberships", "choose", "guard", "database", "page"}

Kinds == {"staff", "buyer"}  \* 'service' is one more like 'buyer'
Statuses == {"none", "active", "suspended"}

Facts ==
    {"on", "off", "unready", "misplaced", "failing", "unknown", "registry"}

TypeOK ==
    /\ VerifierTypeOK
    /\ provisioned \in BOOLEAN
    /\ membership \in [Kinds -> [Tenants -> Statuses]]
    /\ active \subseteq Tenants
    /\ enabled \subseteq Tenants
    /\ ready \subseteq Tenants
    /\ placed \subseteq Tenants
    /\ registryFails \in BOOLEAN
    /\ failing \subseteq Tenants
    /\ cached \subseteq Tenants
    /\ changes \in 0..MaxChanges
    /\ pc \in [Requests -> VerifierLabels \cup Running \cup Answers]
    /\ route \in [Requests -> Routes]
    /\ malformed \in [Requests -> {"nothing", "header", "query"}]
    /\ header \in [Requests -> Tenants \cup {NoTenant}]
    /\ found \in [Requests -> SUBSET Tenants]
    /\ tenant \in [Requests -> Tenants \cup {NoTenant}]
    /\ snaps \in [Requests -> SUBSET SUBSET Tenants]
    /\ witnessed \in
          [Requests -> SUBSET (Facts \X (Tenants \cup {NoTenant}))]

\* What the registry entitles the identity to, and what else a running
\* request could witness.
Entitled == {t \in active : membership["staff"][t] = "active"}

Witnessed ==
    ({"on"} \X enabled) \cup ({"off"} \X (Tenants \ enabled))
        \cup ({"unready"} \X (Tenants \ ready))
        \cup ({"misplaced"} \X (Tenants \ placed))
        \cup ({"failing"} \X failing)
        \cup (({f \in {"registry"} : registryFails}
                  \cup {f \in {"unknown"} : ~provisioned}) \X {NoTenant})

\* What the controllers are asked: GET /me/contexts takes no header and no
\* query.
RequestForms ==
    /\ route \in [Requests -> Routes]
    /\ malformed \in [Requests -> {"nothing", "header", "query"}]
    /\ header \in [Requests -> Tenants \cup {NoTenant}]
    /\ \A r \in Requests :
          /\ malformed[r] = "header" => header[r] = NoTenant
          /\ route[r] = "contexts"
               => malformed[r] = "nothing" /\ header[r] = NoTenant

\* Requests of any kind with any tokens; an API process just started.
Init ==
    /\ oldest = 1
    /\ newest = 1
    /\ endpoint = "answers"
    /\ now \in 0..MaxNow
    /\ realmChanges \in 0..MaxRealmChanges
    /\ keySet = {}
    /\ resolved = {}
    /\ token \in [Requests -> Presentable]
    /\ hindrances = [r \in Requests |-> {}]
    /\ provisioned \in BOOLEAN
    /\ membership \in [Kinds -> [Tenants -> Statuses]]
    /\ \A t \in Tenants : membership["buyer"][t] # "suspended"
    /\ ~provisioned
         => membership = [k \in Kinds |-> [t \in Tenants |-> "none"]]
    /\ active = Tenants
    /\ enabled \in {{}, Tenants}
    /\ ready = Tenants
    /\ placed = Tenants
    /\ registryFails = FALSE
    /\ failing = {}
    /\ cached = {}
    /\ changes \in 0..MaxChanges
    /\ pc = [r \in Requests |-> "new"]
    /\ RequestForms
    /\ found = [r \in Requests |-> {}]
    /\ tenant = [r \in Requests |-> NoTenant]
    /\ snaps = [r \in Requests |-> {}]
    /\ witnessed = [r \in Requests |-> {}]

----------------------------------------------------------------------------
(* The instants at which a running request could have seen the registry.   *)

Observe ==
    LET live(r) == pc'[r] \in Running
    IN  /\ snaps' = [r \in Requests |->
                        IF live(r) THEN snaps[r] \cup {Entitled'} ELSE snaps[r]]
        /\ witnessed' = [r \in Requests |->
                        IF live(r) THEN witnessed[r] \cup Witnessed'
                                   ELSE witnessed[r]]

----------------------------------------------------------------------------
(* The administrator (CLI, later slices); pools of moved or restored       *)
(* databases are evicted.  A session cannot be opened while its server     *)
(* fails, or while every connection of the process's pool (pool_size and   *)
(* max_overflow) stays in use for longer than the pool waits.              *)

Toggled(S, e) == IF e \in S THEN S \ {e} ELSE S \cup {e}

ProvisionIdentity ==
    /\ ~provisioned
    /\ provisioned' = TRUE
    /\ UNCHANGED <<membership, active, enabled, ready, placed, registryFails,
                   failing, cached>>

SetMembership(t, status) ==
    /\ provisioned
    /\ membership' = [membership EXCEPT !["staff"][t] = status]
    /\ UNCHANGED <<provisioned, active, enabled, ready, placed, registryFails,
                   failing, cached>>

SetTenantStatus(t) ==
    /\ active' = Toggled(active, t)
    /\ UNCHANGED <<provisioned, membership, enabled, ready, placed,
                   registryFails, failing, cached>>

SetModule(t) ==
    /\ enabled' = Toggled(enabled, t)
    /\ UNCHANGED <<provisioned, membership, active, ready, placed,
                   registryFails, failing, cached>>

SetDatabaseStatus(t) ==
    /\ ready' = Toggled(ready, t)
    /\ UNCHANGED <<provisioned, membership, active, enabled, placed,
                   registryFails, failing, cached>>

\* The row names a server of the process's settings, or none of them.
SetServer(t) ==
    /\ placed' = Toggled(placed, t)
    /\ UNCHANGED <<provisioned, membership, active, enabled, ready,
                   registryFails, failing, cached>>

FailOrRecover ==
    /\ \/ registryFails' = ~registryFails /\ UNCHANGED failing
       \/ /\ \E t \in Tenants : failing' = Toggled(failing, t)
          /\ UNCHANGED registryFails
    /\ UNCHANGED <<provisioned, membership, active, enabled, ready, placed,
                   cached>>

Evict(t) ==
    /\ t \in cached
    /\ cached' = cached \ {t}
    /\ UNCHANGED registry

Administer ==
    /\ changes > 0
    /\ changes' = changes - 1
    /\ \/ ProvisionIdentity
       \/ FailOrRecover
       \/ \E t \in Tenants :
            \/ SetTenantStatus(t) \/ SetModule(t)
            \/ SetDatabaseStatus(t) \/ SetServer(t)
            \/ Evict(t)
            \/ \E status \in {"active", "suspended"} : SetMembership(t, status)
    /\ UNCHANGED <<verifier, pc, request>>
    /\ Observe

----------------------------------------------------------------------------
(* The request.                                                            *)

Goto(r, label) == pc' = [pc EXCEPT ![r] = label]

AsksRegistry(r, label) == pc[r] = label /\ ~registryFails

\* A session that cannot be opened: an operational error or a timeout of the
\* pool is nobody's DomainError, the handler of last resort answers.
Crash(r) ==
    /\ \/ /\ registryFails
          /\ \/ pc[r] = "verified" /\ malformed[r] # "header"
             \/ pc[r] \in {"memberships", "guard"}
             \/ pc[r] = "database" /\ tenant[r] \notin cached
       \/ pc[r] = "page" /\ malformed[r] # "query" /\ tenant[r] \in failing
    /\ Goto(r, "internalError")
    /\ UNCHANGED <<found, tenant, cached>>

\* A header or query that is no UUID, or a limit out of range: FastAPI
\* validates the parameters of a dependency after its own dependencies ran,
\* those of the endpoint last.
Reject(r) ==
    /\ \/ pc[r] = "verified" /\ malformed[r] = "header"
       \/ pc[r] = "page" /\ malformed[r] = "query"
    /\ Goto(r, "invalid")
    /\ UNCHANGED <<found, tenant, cached>>

FindIdentity(r) ==
    /\ AsksRegistry(r, "verified")
    /\ malformed[r] # "header"
    /\ Goto(r, IF provisioned THEN "memberships" ELSE "identityUnknown")
    /\ UNCHANGED <<found, tenant, cached>>

\* Fault: "membershipKind" is not looked at.
ActiveTenants ==
    {t \in active : \E k \in Kinds : membership[k][t] = "active"}

\* The join of "Memberships" and "Tenants" is one statement.
ActiveStaffTenants ==
    {t \in Tenants : membership["staff"][t] = "active" /\ t \in active}

ActiveMemberships(r) ==
    /\ AsksRegistry(r, "memberships")
    /\ found' = [found EXCEPT ![r] = ActiveStaffTenants]
    /\ Goto(r, IF route[r] = "contexts" THEN "listed" ELSE "choose")
    /\ UNCHANGED <<tenant, cached>>

\* Fault: the first of several memberships is taken.
EligibleFirst(r) ==
    IF header[r] = NoTenant THEN found[r] ELSE found[r] \cap {header[r]}

\* The tenants _choose may return.
Eligible(r) ==
    IF header[r] = NoTenant
    THEN {t \in found[r] : found[r] = {t}}
    ELSE found[r] \cap {header[r]}

Choose(r) ==
    /\ pc[r] = "choose"
    /\ \/ \E t \in Eligible(r) :
            /\ tenant' = [tenant EXCEPT ![r] = t]
            /\ Goto(r, IF route[r] = "module" THEN "guard" ELSE "database")
       \/ /\ Eligible(r) = {}
          /\ Goto(r, IF header[r] = NoTenant /\ found[r] # {}
                     THEN "selectTenant"
                     ELSE "denied")
          /\ UNCHANGED tenant
    /\ UNCHANGED <<found, cached>>

\* Fault: the module may be enabled for any tenant.
GuardAnyTenant(r) ==
    /\ AsksRegistry(r, "guard")
    /\ Goto(r, IF enabled # {} THEN "database" ELSE "moduleDisabled")
    /\ UNCHANGED <<found, tenant, cached>>

\* Router-level dependencies run before those of the endpoint; the core
\* modules have no guard.
Guard(r) ==
    /\ AsksRegistry(r, "guard")
    /\ Goto(r, IF tenant[r] \in enabled THEN "database" ELSE "moduleDisabled")
    /\ UNCHANGED <<found, tenant, cached>>

\* _placement and the URL of the pool: a server the locator does not know is
\* a ValueError, nobody's DomainError either.
OpenPool(r) ==
    LET t == tenant[r]
    IN  /\ ~registryFails
        /\ \/ t \notin ready /\ Goto(r, "unavailable") /\ UNCHANGED cached
           \/ t \in ready \ placed /\ Goto(r, "internalError") /\ UNCHANGED cached
           \/ /\ t \in ready \cap placed
              /\ Goto(r, "page")
              /\ cached' = cached \cup {t}

\* A pool in the cache is used without looking at the registry.
ForTenant(r) ==
    /\ pc[r] = "database"
    /\ \/ tenant[r] \in cached /\ Goto(r, "page") /\ UNCHANGED cached
       \/ tenant[r] \notin cached /\ OpenPool(r)
    /\ UNCHANGED <<found, tenant>>

ListPage(r) ==
    /\ pc[r] = "page"
    /\ tenant[r] \notin failing
    /\ malformed[r] # "query"
    /\ Goto(r, "served")
    /\ UNCHANGED <<found, tenant, cached>>

Handle(r) ==
    /\ \/ Crash(r) \/ Reject(r)
       \/ FindIdentity(r) \/ ActiveMemberships(r) \/ Choose(r)
       \/ Guard(r) \/ ForTenant(r) \/ ListPage(r)
    /\ UNCHANGED <<verifier, registry, changes, route, malformed, header>>
    /\ Observe

Authenticate(r) ==
    /\ Verify(r)
    /\ UNCHANGED <<registry, cached, changes, request>>
    /\ Observe

RealmMoves ==
    /\ Realm
    /\ UNCHANGED <<registry, cached, changes, request, snaps, witnessed>>

Next ==
    \/ Administer
    \/ RealmMoves
    \/ \E r \in Requests : Authenticate(r) \/ Handle(r)

Spec == Init /\ [][Next]_vars

----------------------------------------------------------------------------
(* Properties: every answer is right for some instant of the request, so a *)
(* change made before a request starts is never ignored by it.             *)

\* Only a request with a good token gets past its verification.  Data of a
\* tenant is served, and a query about it judged, only if during the request
\* the identity had an active staff membership of that active tenant; a
\* buyer or service membership does not open it.
ServedWasEntitled ==
    \A r \in Requests :
        /\ pc[r] \in Running \cup (Answers \ {"unauthenticated", "internalError"})
             => Authentic(r)
        /\ pc[r] = "served" \/ (pc[r] = "invalid" /\ malformed[r] = "query")
             => \E S \in snaps[r] : tenant[r] \in S

\* Without X-Tenant-Id no tenant is picked for an identity with several:
\* at some instant the served tenant was its only one.
NoSilentChoice ==
    \A r \in Requests :
        pc[r] = "served" => header[r] = tenant[r] \/ {tenant[r]} \in snaps[r]

\* A guarded controller answers only for a tenant whose module was enabled
\* during the request.
ServedModuleWasOn ==
    \A r \in Requests :
        pc[r] = "served" /\ route[r] = "module"
            => <<"on", tenant[r]>> \in witnessed[r]

\* A refusal has its reason, at some instant of the request: the tenant
\* asked for (or any tenant) was not open to the identity, or several were
\* and none was named; the identity or the module was off.  A 503 means that
\* this tenant was not ready; a 500 that the signing keys could not be read,
\* that no session could be opened on the registry or on the database of this
\* tenant, or that its row named a server the process does not know: never
\* the trouble of another tenant or request.
RefusedForCause ==
    \A r \in Requests :
        /\ pc[r] = "denied"
             => \E S \in snaps[r] : IF header[r] = NoTenant
                                    THEN S = {}
                                    ELSE header[r] \notin S
        /\ pc[r] = "selectTenant"
             => /\ header[r] = NoTenant
                /\ \E S \in snaps[r] : Cardinality(S) > 1
        /\ pc[r] = "identityUnknown" => <<"unknown", NoTenant>> \in witnessed[r]
        /\ pc[r] = "moduleDisabled" => <<"off", tenant[r]>> \in witnessed[r]
        /\ pc[r] = "unavailable" => <<"unready", tenant[r]>> \in witnessed[r]
        /\ pc[r] = "internalError"
             => \/ "broken" \in hindrances[r]
                \/ <<"registry", NoTenant>> \in witnessed[r]
                \/ \E fact \in {"misplaced", "failing"} :
                      <<fact, tenant[r]>> \in witnessed[r]
=============================================================================
