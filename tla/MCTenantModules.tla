-------------------------- MODULE MCTenantModules --------------------------
(* TLC instance of TenantModules: a core module and a chain of three above *)
(* it, the last of which needs the first only indirectly.                  *)
EXTENDS TenantModules, TLC

MCKeys == {"platform", "stock", "sales", "till"}
MCCore == {"platform"}
MCDependsOn == [k \in MCKeys |->
    CASE k = "stock" -> {"platform"}
      [] k = "sales" -> {"stock"}
      [] k = "till" -> {"sales"}
      [] OTHER -> {}]

Symmetry == Permutations(Sessions)
=============================================================================
