--------------------------- MODULE TenantModules ---------------------------
(***************************************************************************)
(* Enabling and disabling modules per tenant (platform/module_state.py):   *)
(* concurrent sessions lock the tenant's registry row, read the enabled    *)
(* modules, decide, and upsert rows of "TenantModules" in one transaction. *)
(***************************************************************************)
EXTENDS ModuleCatalog

CONSTANTS
    Tenants,
    Sessions    \* operator sessions that change modules concurrently

VARIABLES
    rows,       \* committed rows of "TenantModules" of each tenant
    lock,       \* sessions that hold the lock on a tenant's registry row
    pc,         \* where each session is
    change,     \* the call each session is executing
    current     \* the enabled modules the session has read

vars == <<rows, lock, pc, change, current>>

Changes == [kind : {"enable", "disable"}, tenant : Tenants, key : Keys,
            withDependencies : BOOLEAN]
NoChange == [kind |-> "none"]

TypeOK ==
    /\ rows \in [Tenants -> [Keys -> {"absent", "on", "off"}]]
    /\ lock \in [Tenants -> SUBSET Sessions]
    /\ pc \in [Sessions -> {"idle", "waiting", "locked", "decide"}]
    /\ change \in [Sessions -> Changes \cup {NoChange}]
    /\ current \in [Sessions -> SUBSET Keys]

Init ==
    /\ rows = [t \in Tenants |-> [k \in Keys |-> "absent"]]
    /\ lock = [t \in Tenants |-> {}]
    /\ pc = [s \in Sessions |-> "idle"]
    /\ change = [s \in Sessions |-> NoChange]
    /\ current = [s \in Sessions |-> {}]

\* TenantModules._enabled: core modules need no row.
Enabled(t) == Core \cup {k \in Keys : rows[t][k] = "on"}

----------------------------------------------------------------------------
\* A call arrives.  Disabling a core module is refused before any
\* transaction starts.
Call(s, ch) ==
    /\ pc[s] = "idle"
    /\ ~(ch.kind = "disable" /\ ch.key \in Core)
    /\ change' = [change EXCEPT ![s] = ch]
    /\ pc' = [pc EXCEPT ![s] = "waiting"]
    /\ UNCHANGED <<rows, lock, current>>

\* Fault: the row is read without FOR UPDATE.
LockShared(s) ==
    LET t == change[s].tenant
    IN  /\ pc[s] = "waiting"
        /\ lock' = [lock EXCEPT ![t] = @ \cup {s}]
        /\ pc' = [pc EXCEPT ![s] = "locked"]
        /\ UNCHANGED <<rows, change, current>>

\* SELECT ... FOR UPDATE on the tenant's row.
Lock(s) ==
    LET t == change[s].tenant
    IN  /\ pc[s] = "waiting"
        /\ lock[t] = {}
        /\ lock' = [lock EXCEPT ![t] = @ \cup {s}]
        /\ pc' = [pc EXCEPT ![s] = "locked"]
        /\ UNCHANGED <<rows, change, current>>

ReadEnabled(s) ==
    /\ pc[s] = "locked"
    /\ current' = [current EXCEPT ![s] = Enabled(change[s].tenant)]
    /\ pc' = [pc EXCEPT ![s] = "decide"]
    /\ UNCHANGED <<rows, lock, change>>

\* The transaction ends: the row lock goes, nothing of the session stays.
EndSession(s) ==
    /\ pc' = [pc EXCEPT ![s] = "idle"]
    /\ lock' = [t \in Tenants |-> lock[t] \ {s}]
    /\ current' = [current EXCEPT ![s] = {}]
    /\ change' = [change EXCEPT ![s] = NoChange]

\* Fault: only the direct dependencies.
MissingDirect(s) == DependsOn[change[s].key] \ current[s]

Missing(s) == Dependencies(change[s].key) \ current[s]
Blocking(s) == Dependents(change[s].key) \cap current[s]

\* Fault: the other rows of the tenant are lost.
UpsertReplaces(t, S, value) ==
    rows' = [rows EXCEPT ![t] = [k \in S |-> value]]

Upsert(t, S, value) ==
    rows' = [rows EXCEPT ![t] = [k \in Keys |-> IF k \in S THEN value
                                                           ELSE rows[t][k]]]

CommitEnable(s) ==
    LET ch == change[s]
    IN  /\ pc[s] = "decide"
        /\ ch.kind = "enable"
        /\ Missing(s) = {} \/ ch.withDependencies
        /\ Upsert(ch.tenant, Missing(s) \cup ({ch.key} \ current[s]), "on")
        /\ EndSession(s)

CommitDisable(s) ==
    LET ch == change[s]
    IN  /\ pc[s] = "decide"
        /\ ch.kind = "disable"
        /\ Blocking(s) = {}
        /\ Upsert(ch.tenant, {ch.key} \cap current[s], "off")
        /\ EndSession(s)

\* ModuleChangeRejectedError: missing dependencies or blocking dependents.
Reject(s) ==
    /\ pc[s] = "decide"
    /\ \/ /\ change[s].kind = "enable"
          /\ Missing(s) # {}
          /\ ~change[s].withDependencies
       \/ /\ change[s].kind = "disable"
          /\ Blocking(s) # {}
    /\ EndSession(s)
    /\ UNCHANGED rows

\* The connection is lost or the commit fails: everything rolls back.
Abort(s) ==
    /\ pc[s] # "idle"
    /\ EndSession(s)
    /\ UNCHANGED rows

Next ==
    \E s \in Sessions :
        \/ \E ch \in Changes : Call(s, ch)
        \/ Lock(s)
        \/ ReadEnabled(s)
        \/ CommitEnable(s)
        \/ CommitDisable(s)
        \/ Reject(s)
        \/ Abort(s)

Spec == Init /\ [][Next]_vars

----------------------------------------------------------------------------
(* Properties.                                                             *)

\* Whatever sessions interleave, no tenant ever has a module enabled with a
\* dependency off.
DependencyClosed == \A t \in Tenants : Closed(Enabled(t))

\* Core modules are on without a row, so no row can turn one off.
CoreHasNoRow == \A t \in Tenants, k \in Core : rows[t][k] = "absent"

\* The sessions behave as if each change were decided and made in one step.
Atomic == INSTANCE ModuleEnablement
              WITH enabled <- [t \in Tenants |-> Enabled(t)]
AtomicSpec == Atomic!Spec
=============================================================================
