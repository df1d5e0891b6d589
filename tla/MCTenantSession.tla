-------------------------- MODULE MCTenantSession --------------------------
(* TLC instance of TenantSession: the registry and the tenants' databases, *)
(* with two connections of erp_app and one of erp_relay.                   *)
EXTENDS TenantSession, TLC

CONSTANTS a1, a2, r1

MCRole == [c \in Connections |-> IF c = r1 THEN "erp_relay" ELSE "erp_app"]

Symmetry ==
    Permutations(Threads) \cup Permutations(Tenants)
        \cup Permutations(Identities) \cup Permutations({a1, a2})
=============================================================================
