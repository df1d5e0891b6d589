-------------------------- MODULE ModuleEnablement --------------------------
(***************************************************************************)
(* What module administration promises (ADR-0009): enabling and disabling  *)
(* happen one at a time, each decided on the state it changes.             *)
(***************************************************************************)
EXTENDS ModuleCatalog

CONSTANT Tenants

VARIABLE enabled    \* the modules each tenant has

Init == enabled = [t \in Tenants |-> Core]

\* With or without its dependencies, a module is never enabled alone.
Enable(t, k) ==
    enabled' = [enabled EXCEPT ![t] = @ \cup {k} \cup Dependencies(k)]

Disable(t, k) ==
    /\ k \notin Core
    /\ Dependents(k) \cap enabled[t] = {}
    /\ enabled' = [enabled EXCEPT ![t] = @ \ {k}]

Next == \E t \in Tenants, k \in Keys : Enable(t, k) \/ Disable(t, k)

Spec == Init /\ [][Next]_enabled
=============================================================================
