--------------------------- MODULE ModuleCatalog ---------------------------
(***************************************************************************)
(* The installed modules and their dependency graph, as ModuleCatalog      *)
(* (core/modules.py) presents them once its constructor has accepted them. *)
(* CatalogBuild shows that the constructor and the worklist of the source  *)
(* compute what is defined here.                                           *)
(***************************************************************************)

CONSTANTS
    Keys,        \* keys of the installed modules
    Core,        \* the modules that are always on
    DependsOn    \* the direct dependencies of each module (depends_on)

\* What _validate_dependencies has checked of every manifest.
ASSUME CatalogAssumption ==
    /\ Core \subseteq Keys
    /\ DependsOn \in [Keys -> SUBSET Keys]
    /\ \A k \in Core : DependsOn[k] \subseteq Core

\* A set of modules that lacks no dependency of its members.
Closed(S) == \A k \in S : DependsOn[k] \subseteq S

\* The transitive dependencies: the members of every closed set that holds
\* the direct ones.
Dependencies(k) ==
    {d \in Keys : \A S \in SUBSET Keys :
                      DependsOn[k] \subseteq S /\ Closed(S) => d \in S}

Dependents(k) == {j \in Keys : k \in Dependencies(j)}
=============================================================================
