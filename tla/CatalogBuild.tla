---------------------------- MODULE CatalogBuild ----------------------------
(***************************************************************************)
(* How ModuleCatalog (core/modules.py) accepts or refuses a list of        *)
(* manifests, orders the modules and answers dependency queries: the       *)
(* constructor's checks, the rounds of _topological_order and the worklist *)
(* of dependencies, for every graph over a small set of keys.              *)
(***************************************************************************)
EXTENDS SortedLists, SequencesExt

CONSTANTS
    Keys,       \* module keys; numbers, for their alphabetical order
    Unknown     \* a key that no manifest declares

ASSUME KeysAssumption ==
    /\ Keys \subseteq Nat \ {0}
    /\ IsFiniteSet(Keys)
    /\ Unknown \notin Keys

VARIABLES
    duplicate,  \* two manifests have the same key
    dependsOn,  \* depends_on of each manifest
    core,       \* the manifests with core=True
    pc,         \* "validate", "sort", "ready", "search" or "rejected"
    remaining,  \* _topological_order: modules left, with the dependencies
                \* not ordered yet
    order,      \* self._order
    query,      \* argument of the dependencies call
    needed,     \* its set of dependencies found so far
    stack,      \* its worklist
    answer      \* its last result

graph == <<duplicate, dependsOn, core>>
search == <<query, needed, stack>>
vars == <<duplicate, dependsOn, core, pc, remaining, order, query, needed,
          stack, answer>>

NoKey == 0

Init ==
    /\ duplicate \in BOOLEAN
    /\ dependsOn \in [Keys -> SUBSET (Keys \cup {Unknown})]
    /\ core \in SUBSET Keys
    /\ pc = "validate"
    /\ remaining = dependsOn
    /\ order = <<>>
    /\ query = NoKey
    /\ needed = {}
    /\ stack = {}
    /\ answer = <<>>

TypeOK ==
    /\ duplicate \in BOOLEAN
    /\ dependsOn \in [Keys -> SUBSET (Keys \cup {Unknown})]
    /\ core \in SUBSET Keys
    /\ pc \in {"validate", "sort", "ready", "search", "rejected"}
    /\ DOMAIN remaining \in SUBSET Keys
    /\ order \in Seq(Keys) /\ Len(order) <= Cardinality(Keys)
    /\ query \in Keys \cup {NoKey}
    /\ needed \in SUBSET Keys
    /\ stack \in SUBSET Keys
    /\ answer \in Seq(Keys)

----------------------------------------------------------------------------
\* The members of S that are ordered, in the order of the catalogue.
InOrder(S) ==
    LET at == Ascending({i \in DOMAIN order : order[i] \in S})
    IN  [n \in DOMAIN at |-> order[at[n]]]

\* _validate_dependencies of one manifest.
ValidManifest(k) ==
    /\ dependsOn[k] \subseteq Keys
    /\ k \in core => dependsOn[k] \subseteq core

Validate ==
    /\ pc = "validate"
    /\ pc' = IF ~duplicate /\ \A k \in Keys : ValidManifest(k)
             THEN "sort" ELSE "rejected"
    /\ UNCHANGED <<graph, remaining, order, search, answer>>

\* Fault: a module that depends on itself counts as ready.
SortRoundSelf ==
    LET ready == {k \in DOMAIN remaining : remaining[k] \subseteq {k}}
    IN  /\ pc = "sort"
        /\ ready # {}
        /\ order' = order \o Ascending(ready)
        /\ remaining' = [k \in DOMAIN remaining \ ready |->
                            remaining[k] \ ready]
        /\ UNCHANGED <<graph, pc, search, answer>>

\* Fault: each round goes in front of the earlier ones.
SortRoundReversed ==
    LET ready == {k \in DOMAIN remaining : remaining[k] = {}}
    IN  /\ pc = "sort"
        /\ ready # {}
        /\ order' = Ascending(ready) \o order
        /\ remaining' = [k \in DOMAIN remaining \ ready |->
                            remaining[k] \ ready]
        /\ UNCHANGED <<graph, pc, search, answer>>

\* One round of the while loop: everything without open dependencies, in
\* alphabetical order.
SortRound ==
    LET ready == {k \in DOMAIN remaining : remaining[k] = {}}
    IN  /\ pc = "sort"
        /\ ready # {}
        /\ order' = order \o Ascending(ready)
        /\ remaining' = [k \in DOMAIN remaining \ ready |->
                            remaining[k] \ ready]
        /\ UNCHANGED <<graph, pc, search, answer>>

\* Fault: cycles are looked for in the first round only.
CycleAtFirst ==
    /\ pc = "sort"
    /\ DOMAIN remaining = Keys
    /\ \A k \in DOMAIN remaining : remaining[k] # {}
    /\ pc' = "rejected"
    /\ UNCHANGED <<graph, remaining, order, search, answer>>

Cycle ==
    /\ pc = "sort"
    /\ DOMAIN remaining # {}
    /\ \A k \in DOMAIN remaining : remaining[k] # {}
    /\ pc' = "rejected"
    /\ UNCHANGED <<graph, remaining, order, search, answer>>

Sorted ==
    /\ pc = "sort"
    /\ DOMAIN remaining = {}
    /\ pc' = "ready"
    /\ UNCHANGED <<graph, remaining, order, search, answer>>

\* dependencies(k): the worklist holds the keys of the source's stack; which
\* of them is popped next does not matter to the result.
Query(k) ==
    /\ pc = "ready"
    /\ pc' = "search"
    /\ query' = k
    /\ needed' = {}
    /\ stack' = dependsOn[k]
    /\ UNCHANGED <<graph, remaining, order, answer>>

\* Fault: the dependencies of a dependency are not pushed.
PopDirect ==
    /\ pc = "search"
    /\ \E d \in stack :
          /\ needed' = needed \cup {d}
          /\ stack' = stack \ {d}
    /\ UNCHANGED <<graph, pc, remaining, order, query, answer>>

Pop ==
    /\ pc = "search"
    /\ \E d \in stack :
          /\ needed' = needed \cup {d}
          /\ stack' = (stack \ {d})
                         \cup (IF d \in needed THEN {} ELSE dependsOn[d])
    /\ UNCHANGED <<graph, pc, remaining, order, query, answer>>

Answer ==
    /\ pc = "search"
    /\ stack = {}
    /\ pc' = "ready"
    /\ answer' = InOrder(needed)
    /\ UNCHANGED <<graph, remaining, order, search>>

Construct == Validate \/ SortRound \/ Cycle \/ Sorted

Next == Construct \/ (\E k \in Keys : Query(k)) \/ Pop \/ Answer

Spec == Init /\ [][Next]_vars

\* The constructor and a query run to their end once started.
FairSpec == Spec /\ WF_vars(Construct) /\ WF_vars(Pop \/ Answer)

----------------------------------------------------------------------------
(* Properties.  Catalog holds the definitions everything else relies on.   *)

Catalog == INSTANCE ModuleCatalog WITH Core <- core, DependsOn <- dependsOn

Acyclic == \A k \in Keys : k \notin Catalog!Dependencies(k)

Sound == /\ ~duplicate
         /\ \A k \in Keys : Unknown \notin dependsOn[k]
         /\ ~\E k \in core : dependsOn[k] \ core # {}
         /\ Acyclic

\* The catalogue is accepted exactly when its graph is sound: every known
\* cycle, also of a module with itself, is found, and no good graph refused.
AcceptsExactlySound ==
    /\ pc \in {"ready", "search"} => Sound
    /\ pc = "rejected" => ~Sound

\* The enable order holds every module once, each after its dependencies.
OrderIsTopological ==
    pc \in {"ready", "search"} =>
        /\ Len(order) = Cardinality(Keys) /\ ToSet(order) = Keys
        /\ \A i \in 1..Len(order) :
              dependsOn[order[i]] \subseteq ToSet(SubSeq(order, 1, i - 1))

\* The worklist finds the transitive dependencies, no more and no less, and
\* the answer lists them in an order in which they can be enabled.
AnswerIsExact ==
    pc = "ready" /\ query # NoKey =>
        /\ ToSet(answer) = Catalog!Dependencies(query)
        /\ Len(answer) = Cardinality(ToSet(answer))
        /\ \A i \in 1..Len(answer) :
              dependsOn[answer[i]] \subseteq ToSet(SubSeq(answer, 1, i - 1))

\* The constructor ends, and so does every query.
Terminates ==
    /\ <>(pc \in {"ready", "search", "rejected"})
    /\ pc = "search" ~> pc = "ready"
=============================================================================
