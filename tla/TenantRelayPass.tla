-------------------------- MODULE TenantRelayPass --------------------------
(***************************************************************************)
(* The relay's passes over all tenant databases (TenantOutboxRelay in      *)
(* modules/integration/outbox.py).  OutboxRelay models what run_once does  *)
(* inside one database; here a visit either dispatches the oldest batch of *)
(* a tenant or raises.  That the relay process repeats its passes is the   *)
(* decision of ADR-0005; its loop is not part of the code yet.             *)
(***************************************************************************)
EXTENDS Naturals, FiniteSets

CONSTANTS
    Tenants,      \* numbered in the order of "tenantId"
    BatchSize,
    MaxEvents,    \* bound on the events produced
    MaxFaults     \* bound on the changes of reachability and status, and
                  \* on the passes that get no list

ASSUME TenantsAssumption == Tenants \subseteq Nat
ASSUME BatchSizeAssumption == BatchSize \in Nat \ {0}
ASSUME BoundsAssumption == MaxEvents \in Nat /\ MaxFaults \in Nat

VARIABLES
    backlog,    \* committed, undispatched events of each tenant
    listed,     \* tenants that are 'active' with a 'ready' database
    reachable,  \* tenants for_tenant has a pool for (cached, or the
                \* database is 'ready') and whose database answers
    running,    \* a pass is running
    left,       \* tenants the loop of the pass has still to visit
    total,      \* what the pass will return
    produced,   \* number of events so far
    faults,     \* number of these so far
    expected,   \* history: listed at the start, reachable ever since
    visited     \* history: tenants whose visit in this pass succeeded

vars == <<backlog, listed, reachable, running, left, total, produced, faults,
          expected, visited>>
passVars == <<running, left, total, expected, visited>>

TypeOK ==
    /\ backlog \in [Tenants -> 0..MaxEvents]
    /\ listed \subseteq Tenants
    /\ reachable \subseteq Tenants
    /\ running \in BOOLEAN
    /\ left \subseteq Tenants
    /\ total \in Nat
    /\ produced \in 0..MaxEvents
    /\ faults \in 0..MaxFaults
    /\ expected \subseteq Tenants
    /\ visited \subseteq Tenants

Init ==
    /\ backlog = [t \in Tenants |-> 0]
    /\ listed \in SUBSET Tenants
    /\ reachable \in SUBSET Tenants
    /\ running = FALSE
    /\ left = {}
    /\ total = 0
    /\ produced = 0
    /\ faults = 0
    /\ expected = {}
    /\ visited = {}

----------------------------------------------------------------------------
Produce(t) ==
    /\ produced < MaxEvents
    /\ produced' = produced + 1
    /\ backlog' = [backlog EXCEPT ![t] = @ + 1]
    /\ UNCHANGED <<listed, reachable, passVars, faults>>

Fault ==
    /\ faults < MaxFaults
    /\ faults' = faults + 1

\* The operator suspends or activates the tenant, or its database state.
ChangeStatus(t) ==
    /\ Fault
    /\ \E S \in {listed \cup {t}, listed \ {t}} : listed' = S
    /\ UNCHANGED <<backlog, reachable, passVars, produced>>

ChangeReach(t) ==
    /\ Fault
    /\ \E S \in {reachable \cup {t}, reachable \ {t}} : reachable' = S
    /\ expected' = expected \cap reachable'
    /\ UNCHANGED <<backlog, listed, running, left, total, visited, produced>>

\* The list of tenants is read once, before the loop.
RunPass ==
    /\ ~running
    /\ running' = TRUE
    /\ left' = listed
    /\ total' = 0
    /\ expected' = listed \cap reachable
    /\ visited' = {}
    /\ UNCHANGED <<backlog, listed, reachable, produced, faults>>

\* The registry does not give the list: active_tenant_ids raises outside the
\* try block, and this pass visits nobody.
ListFails ==
    /\ ~running
    /\ Fault
    /\ UNCHANGED <<backlog, listed, reachable, passVars, produced>>

IsNext(t) ==
    /\ running
    /\ t \in left
    /\ \A u \in left : t <= u

RunOnce(t) ==
    LET n == IF backlog[t] < BatchSize THEN backlog[t] ELSE BatchSize
    IN  /\ IsNext(t)
        /\ t \in reachable
        /\ backlog' = [backlog EXCEPT ![t] = @ - n]
        /\ total' = total + n
        /\ visited' = visited \cup {t}
        /\ left' = left \ {t}
        /\ UNCHANGED <<listed, reachable, running, expected, produced, faults>>

\* Fault: the try block is around the loop.
IsolateAborts(t) ==
    /\ IsNext(t)
    /\ t \notin reachable
    /\ left' = {}
    /\ UNCHANGED <<backlog, listed, reachable, running, total, expected,
                   visited, produced, faults>>

\* for_tenant or run_once raises: logged, and the loop goes on.
Isolate(t) ==
    /\ IsNext(t)
    /\ t \notin reachable
    /\ left' = left \ {t}
    /\ UNCHANGED <<backlog, listed, reachable, running, total, expected,
                   visited, produced, faults>>

EndPass ==
    /\ running
    /\ left = {}
    /\ running' = FALSE
    /\ UNCHANGED <<backlog, listed, reachable, left, total, expected, visited,
                   produced, faults>>

Relay == RunPass \/ EndPass \/ \E t \in Tenants : RunOnce(t) \/ Isolate(t)

Next ==
    \/ Relay \/ ListFails
    \/ \E t \in Tenants : Produce(t) \/ ChangeStatus(t) \/ ChangeReach(t)

Spec == Init /\ [][Next]_vars

\* ADR-0005: the relay process keeps running passes, also after one that got
\* no list.
FairSpec == Spec /\ WF_vars(Relay)

----------------------------------------------------------------------------
(* Properties.                                                             *)

\* An unreachable tenant never blocks the others: when a pass ends, every
\* tenant listed at its start and reachable since was visited.
PassServesReachable ==
    [][EndPass => expected \subseteq visited]_vars

\* The backlog of a tenant that stays active and reachable is worked off
\* (up to what is produced meanwhile), whatever the others do.
Drains ==
    \A t \in Tenants :
        <>[](t \in listed /\ t \in reachable) => []<>(backlog[t] = 0)
=============================================================================
