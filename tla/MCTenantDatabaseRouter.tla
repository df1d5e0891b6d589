----------------------- MODULE MCTenantDatabaseRouter -----------------------
(* TLC instance of TenantDatabaseRouter.                                   *)
EXTENDS TenantDatabaseRouter, TLC

Symmetry ==
    Permutations(Tenants) \cup Permutations(Threads) \cup Permutations(Places)
=============================================================================
