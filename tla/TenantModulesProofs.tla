------------------------ MODULE TenantModulesProofs ------------------------
(***************************************************************************)
(* Module enablement is dependency-closed and serialisable for every       *)
(* accepted catalogue and any number of tenants and sessions.              *)
(***************************************************************************)
EXTENDS TenantModules, TLAPS

----------------------------------------------------------------------------
(* The catalogue.                                                          *)

\* Direct dependencies are dependencies, and the set is closed.
LEMMA DependenciesClosed ==
    ASSUME NEW k \in Keys
    PROVE  /\ DependsOn[k] \subseteq Dependencies(k)
           /\ Closed(Dependencies(k))
           /\ Dependencies(k) \subseteq Keys
<1>1. DependsOn[k] \subseteq Dependencies(k)
  BY CatalogAssumption DEF Dependencies
<1>2. ASSUME NEW d \in Dependencies(k), NEW x \in DependsOn[d]
      PROVE  x \in Dependencies(k)
  <2>1. x \in Keys
    BY CatalogAssumption DEF Dependencies
  <2>2. ASSUME NEW S \in SUBSET Keys, DependsOn[k] \subseteq S, Closed(S)
        PROVE  x \in S
    BY <2>2 DEF Dependencies, Closed
  <2> QED BY <2>1, <2>2 DEF Dependencies
<1>3. Closed(Dependencies(k))
  BY <1>2 DEF Closed
<1> QED BY <1>1, <1>3 DEF Dependencies

\* Enabling a module with all of its dependencies keeps a set closed.
LEMMA EnableKeepsClosed ==
    ASSUME NEW k \in Keys, NEW S \in SUBSET Keys, Closed(S)
    PROVE  Closed(S \cup {k} \cup Dependencies(k))
BY DependenciesClosed DEF Closed

\* So does disabling a module none of whose dependents is enabled.
LEMMA DisableKeepsClosed ==
    ASSUME NEW k \in Keys, NEW S \in SUBSET Keys, Closed(S),
           Dependents(k) \cap S = {}
    PROVE  Closed(S \ {k})
<1> SUFFICES ASSUME NEW j \in S \ {k}, k \in DependsOn[j] PROVE FALSE
  BY DEF Closed
<1>1. j \in Dependents(k)
  BY DependenciesClosed DEF Dependents
<1> QED BY <1>1

\* Core modules depend on core modules only.
LEMMA CoreIsClosed == Closed(Core)
BY CatalogAssumption DEF Closed

----------------------------------------------------------------------------
(* The inductive invariant.                                                *)

\* A session between its lock and its end holds the lock alone, and what it
\* has read is still true.
SessionInv ==
    \A s \in Sessions :
        /\ pc[s] # "idle" =>
              /\ change[s] \in Changes
              /\ ~(change[s].kind = "disable" /\ change[s].key \in Core)
        /\ \A t \in Tenants :
              s \in lock[t] <=> /\ pc[s] \in {"locked", "decide"}
                                /\ change[s].tenant = t
        /\ pc[s] = "decide" => current[s] = Enabled(change[s].tenant)

Exclusive ==
    \A t \in Tenants : \A r, s \in lock[t] : r = s

IInv == /\ TypeOK
        /\ SessionInv
        /\ Exclusive
        /\ DependencyClosed
        /\ CoreHasNoRow

\* A tenant without rows has the core modules.
LEMMA InitInv == Init => IInv
<1> SUFFICES ASSUME Init PROVE IInv
  OBVIOUS
<1>1. \A t \in Tenants : Enabled(t) = Core
  BY DEF Init, Enabled
<1> QED BY <1>1, CoreIsClosed, CatalogAssumption
        DEF Init, IInv, TypeOK, SessionInv, Exclusive, DependencyClosed,
            CoreHasNoRow

\* Steps that leave the rows alone leave what is enabled alone.
LEMMA SameRows ==
    ASSUME rows' = rows
    PROVE  /\ \A t : Enabled(t)' = Enabled(t)
           /\ DependencyClosed => DependencyClosed'
           /\ CoreHasNoRow => CoreHasNoRow'
BY DEF Enabled, DependencyClosed, CoreHasNoRow

\* A call that arrives reads and locks nothing yet.
LEMMA CallInv ==
    ASSUME IInv, NEW s \in Sessions, NEW ch \in Changes, Call(s, ch)
    PROVE  IInv'
<1>1. TypeOK'
  BY DEF IInv, TypeOK, Call
<1>2. SessionInv'
  BY SameRows DEF IInv, TypeOK, SessionInv, Call
<1> QED BY <1>1, <1>2, SameRows DEF IInv, Call, Exclusive

\* A session gets the row lock only when nobody has it.
LEMMA LockInv ==
    ASSUME IInv, NEW s \in Sessions, Lock(s)
    PROVE  IInv'
<1>1. change[s] \in Changes /\ change[s].tenant \in Tenants
  BY DEF IInv, SessionInv, Lock, Changes
<1>2. TypeOK'
  BY <1>1 DEF IInv, TypeOK, Lock
<1>3. SessionInv'
  BY <1>1, SameRows DEF IInv, TypeOK, SessionInv, Lock
<1>4. Exclusive'
  BY <1>1 DEF IInv, TypeOK, Exclusive, Lock
<1> QED BY <1>2, <1>3, <1>4, SameRows DEF IInv, Lock

\* What is read under the lock is what is enabled.
LEMMA ReadEnabledInv ==
    ASSUME IInv, NEW s \in Sessions, ReadEnabled(s)
    PROVE  IInv'
<1>1. TypeOK'
  BY CatalogAssumption DEF IInv, TypeOK, ReadEnabled, Enabled
<1>2. SessionInv'
  BY SameRows DEF IInv, TypeOK, SessionInv, ReadEnabled
<1> QED BY <1>1, <1>2, SameRows DEF IInv, ReadEnabled, Exclusive

\* Ending a session frees its lock and nothing else.
LEMMA EndSessionInv ==
    ASSUME IInv, NEW s \in Sessions, EndSession(s)
    PROVE  /\ lock' \in [Tenants -> SUBSET Sessions]
           /\ pc' \in [Sessions -> {"idle", "waiting", "locked", "decide"}]
           /\ change' \in [Sessions -> Changes \cup {NoChange}]
           /\ current' \in [Sessions -> SUBSET Keys]
           /\ Exclusive'
           /\ pc'[s] = "idle" /\ \A t \in Tenants : s \notin lock'[t]
           /\ \A r \in Sessions \ {s} :
                 /\ pc'[r] = pc[r] /\ change'[r] = change[r]
                 /\ current'[r] = current[r]
                 /\ \A t \in Tenants : r \in lock'[t] <=> r \in lock[t]
BY DEF IInv, TypeOK, EndSession, Exclusive

\* A rejected or aborted change leaves the rows as they were.
LEMMA RollbackInv ==
    ASSUME IInv, NEW s \in Sessions, EndSession(s), rows' = rows
    PROVE  IInv'
<1>1. TypeOK'
  BY EndSessionInv DEF IInv, TypeOK
<1>2. SessionInv'
  BY EndSessionInv, SameRows DEF IInv, SessionInv
<1> QED BY <1>1, <1>2, EndSessionInv, SameRows DEF IInv

\* The rows a session reads stay as read by any other session's commit: the
\* other one changes another tenant, for a tenant's lock is exclusive.
LEMMA CommitSession ==
    ASSUME IInv, NEW s \in Sessions, pc[s] = "decide", EndSession(s),
           \A t \in Tenants \ {change[s].tenant} : rows'[t] = rows[t]
    PROVE  SessionInv'
<1>1. \A t \in Tenants \ {change[s].tenant} : Enabled(t)' = Enabled(t)
  BY DEF Enabled
<1> SUFFICES ASSUME NEW r \in Sessions
             PROVE (/\ pc[r] # "idle" =>
                          /\ change[r] \in Changes
                          /\ ~(change[r].kind = "disable"
                                 /\ change[r].key \in Core)
                    /\ \A t \in Tenants :
                          r \in lock[t]
                              <=> /\ pc[r] \in {"locked", "decide"}
                                  /\ change[r].tenant = t
                    /\ pc[r] = "decide" =>
                          current[r] = Enabled(change[r].tenant))'
  BY DEF SessionInv
<1>2. CASE r = s
  BY <1>2, EndSessionInv
<1>3. CASE r # s
  <2>1. ASSUME pc[r] = "decide"
        PROVE  change[r].tenant \in Tenants \ {change[s].tenant}
    <3>1. /\ r \in lock[change[r].tenant] /\ change[r].tenant \in Tenants
          /\ s \in lock[change[s].tenant] /\ change[s].tenant \in Tenants
      BY <2>1 DEF IInv, SessionInv, Changes
    <3> QED BY <1>3, <3>1 DEF IInv, Exclusive
  <2> QED BY <1>1, <1>3, <2>1, EndSessionInv DEF IInv, SessionInv
<1> QED BY <1>2, <1>3

\* What the two commits do to the enabled modules.
LEMMA EnableEffect ==
    ASSUME IInv, NEW s \in Sessions, CommitEnable(s),
           NEW t, t = change[s].tenant, NEW k, k = change[s].key
    PROVE  /\ t \in Tenants /\ k \in Keys
           /\ Enabled(t)' = Enabled(t) \cup {k} \cup Dependencies(k)
           /\ \A u \in Tenants \ {t} : rows'[u] = rows[u]
           /\ rows' \in [Tenants -> [Keys -> {"absent", "on", "off"}]]
           /\ \A c \in Core : rows'[t][c] = rows[t][c]
<1> DEFINE N == Missing(s) \cup ({k} \ current[s])
<1>1. t \in Tenants /\ k \in Keys
  BY DEF IInv, SessionInv, CommitEnable, Changes
<1>2. current[s] = Enabled(t)
  BY DEF IInv, SessionInv, CommitEnable
<1>3. N = ({k} \cup Dependencies(k)) \ Enabled(t)
  BY <1>2 DEF Missing
<1>4. N \subseteq Keys /\ N \cap Enabled(t) = {}
  BY <1>1, <1>3, DependenciesClosed
<1>5. rows' = [rows EXCEPT ![t] = [x \in Keys |-> IF x \in N THEN "on"
                                                   ELSE rows[t][x]]]
  BY DEF CommitEnable, Upsert
<1> HIDE DEF N
<1>6. /\ rows'[t] = [x \in Keys |-> IF x \in N THEN "on" ELSE rows[t][x]]
      /\ \A u \in Tenants \ {t} : rows'[u] = rows[u]
      /\ rows' \in [Tenants -> [Keys -> {"absent", "on", "off"}]]
  BY <1>1, <1>5 DEF IInv, TypeOK
<1>7. Enabled(t)' = Core \cup {x \in Keys : rows'[t][x] = "on"}
  BY DEF Enabled
<1>8. \A x \in Keys : rows'[t][x] = "on" <=> x \in N \/ rows[t][x] = "on"
  BY <1>6
<1>9. Enabled(t)' = Enabled(t) \cup N
  BY <1>4, <1>7, <1>8 DEF Enabled
<1>10. Enabled(t)' = Enabled(t) \cup {k} \cup Dependencies(k)
  BY <1>3, <1>9
<1>11. \A c \in Core : rows'[t][c] = rows[t][c]
  BY <1>4, <1>6, CatalogAssumption DEF Enabled
<1> QED BY <1>1, <1>6, <1>10, <1>11

\* A committed disable removes the module alone, and nothing needs it.
LEMMA DisableEffect ==
    ASSUME IInv, NEW s \in Sessions, CommitDisable(s),
           NEW t, t = change[s].tenant, NEW k, k = change[s].key
    PROVE  /\ t \in Tenants /\ k \in Keys \ Core
           /\ Dependents(k) \cap Enabled(t) = {}
           /\ Enabled(t)' = Enabled(t) \ {k}
           /\ \A u \in Tenants \ {t} : rows'[u] = rows[u]
           /\ rows' \in [Tenants -> [Keys -> {"absent", "on", "off"}]]
           /\ \A c \in Core : rows'[t][c] = rows[t][c]
<1> DEFINE N == {k} \cap current[s]
<1>1. t \in Tenants /\ k \in Keys \ Core
  BY DEF IInv, SessionInv, CommitDisable, Changes
<1>2. current[s] = Enabled(t)
  BY DEF IInv, SessionInv, CommitDisable
<1>3. rows' = [rows EXCEPT ![t] = [x \in Keys |-> IF x \in N THEN "off"
                                                   ELSE rows[t][x]]]
  BY DEF CommitDisable, Upsert
<1>4. N = {k} \cap Enabled(t)
  BY <1>2
<1> HIDE DEF N
<1>5. /\ rows'[t] = [x \in Keys |-> IF x \in N THEN "off" ELSE rows[t][x]]
      /\ \A u \in Tenants \ {t} : rows'[u] = rows[u]
      /\ rows' \in [Tenants -> [Keys -> {"absent", "on", "off"}]]
  BY <1>1, <1>3 DEF IInv, TypeOK
<1>6. Enabled(t)' = Core \cup {x \in Keys : rows'[t][x] = "on"}
  BY DEF Enabled
<1>7. \A x \in Keys : rows'[t][x] = "on" <=> x \notin N /\ rows[t][x] = "on"
  BY <1>5
<1>8. Enabled(t)' = Enabled(t) \ {k}
  BY <1>1, <1>4, <1>6, <1>7 DEF Enabled
<1>9. \A c \in Core : rows'[t][c] = rows[t][c]
  BY <1>1, <1>4, <1>5, CatalogAssumption
<1>10. Dependents(k) \cap Enabled(t) = {}
  BY <1>2 DEF CommitDisable, Blocking
<1> QED BY <1>1, <1>5, <1>8, <1>9, <1>10

\* A commit keeps the tenant's modules closed and the other sessions'
\* readings true.
LEMMA CommitInv ==
    ASSUME IInv, NEW s \in Sessions, CommitEnable(s) \/ CommitDisable(s)
    PROVE  IInv'
<1>1. EndSession(s) /\ pc[s] = "decide"
  BY DEF CommitEnable, CommitDisable
<1> PICK t : t = change[s].tenant
  OBVIOUS
<1> PICK k : k = change[s].key
  OBVIOUS
<1>2. /\ t \in Tenants
      /\ Closed(Enabled(t))'
      /\ \A u \in Tenants \ {t} : rows'[u] = rows[u]
      /\ rows' \in [Tenants -> [Keys -> {"absent", "on", "off"}]]
      /\ \A c \in Core : rows'[t][c] = rows[t][c]
  <2>1. \A u \in Tenants : Enabled(u) \in SUBSET Keys /\ Closed(Enabled(u))
    BY CatalogAssumption DEF Enabled, IInv, DependencyClosed
  <2>2. CASE CommitEnable(s)
    <3>1. /\ t \in Tenants /\ k \in Keys
          /\ Enabled(t)' = Enabled(t) \cup {k} \cup Dependencies(k)
          /\ \A u \in Tenants \ {t} : rows'[u] = rows[u]
          /\ rows' \in [Tenants -> [Keys -> {"absent", "on", "off"}]]
          /\ \A c \in Core : rows'[t][c] = rows[t][c]
      BY <2>2, EnableEffect
    <3>2. Closed(Enabled(t) \cup {k} \cup Dependencies(k))
      BY <2>1, <3>1, EnableKeepsClosed
    <3> QED BY <3>1, <3>2 DEF Closed
  <2>3. CASE CommitDisable(s)
    <3>1. /\ t \in Tenants /\ k \in Keys \ Core
          /\ Dependents(k) \cap Enabled(t) = {}
          /\ Enabled(t)' = Enabled(t) \ {k}
          /\ \A u \in Tenants \ {t} : rows'[u] = rows[u]
          /\ rows' \in [Tenants -> [Keys -> {"absent", "on", "off"}]]
          /\ \A c \in Core : rows'[t][c] = rows[t][c]
      BY <2>3, DisableEffect
    <3>2. Closed(Enabled(t) \ {k})
      BY <2>1, <3>1, DisableKeepsClosed
    <3> QED BY <3>1, <3>2 DEF Closed
  <2> QED BY <2>2, <2>3
<1>3. TypeOK'
  BY <1>1, <1>2, EndSessionInv DEF TypeOK
<1>4. SessionInv'
  BY <1>1, <1>2, CommitSession
<1>5. DependencyClosed'
  BY <1>2 DEF IInv, DependencyClosed, Closed, Enabled
<1>6. CoreHasNoRow'
  BY <1>2 DEF IInv, CoreHasNoRow
<1> QED BY <1>1, <1>3, <1>4, <1>5, <1>6, EndSessionInv DEF IInv

\* Every step keeps the invariant.
LEMMA NextInv == IInv /\ [Next]_vars => IInv'
<1> SUFFICES ASSUME IInv, [Next]_vars PROVE IInv'
  OBVIOUS
<1>1. CASE UNCHANGED vars
  BY <1>1, SameRows DEF vars, IInv, TypeOK, SessionInv, Exclusive
<1>2. ASSUME NEW s \in Sessions, Reject(s) \/ Abort(s) PROVE IInv'
  BY <1>2, RollbackInv DEF Reject, Abort
<1> QED BY <1>1, <1>2, CallInv, LockInv, ReadEnabledInv, CommitInv DEF Next

----------------------------------------------------------------------------
(* The theorems.                                                           *)

\* The inductive invariant holds in every reachable state.
THEOREM InvariantHolds == Spec => []IInv
BY InitInv, NextInv, PTL DEF Spec

\* Type correctness.
THEOREM TypeCorrect == Spec => []TypeOK
<1>1. IInv => TypeOK
  BY DEF IInv
<1> QED BY <1>1, InvariantHolds, PTL

\* No tenant ever has a module enabled with a dependency off, for every
\* accepted catalogue.
THEOREM AlwaysClosed == Spec => []DependencyClosed
<1>1. IInv => DependencyClosed
  BY DEF IInv
<1> QED BY <1>1, InvariantHolds, PTL

\* No row ever names a core module.
THEOREM CoreStaysOn == Spec => []CoreHasNoRow
<1>1. IInv => CoreHasNoRow
  BY DEF IInv
<1> QED BY <1>1, InvariantHolds, PTL

\* The locked read-decide-upsert transactions implement atomic changes.
THEOREM ChangesAreAtomic == Spec => AtomicSpec
<1> DEFINE on == [t \in Tenants |-> Enabled(t)]
<1>1. Init => Atomic!Init
  BY DEF Init, Atomic!Init, Enabled
<1>2. IInv /\ [Next]_vars => [Atomic!Next]_on
  <2> SUFFICES ASSUME IInv, [Next]_vars PROVE Atomic!Next \/ on' = on
    OBVIOUS
  <2>1. ASSUME rows' = rows PROVE on' = on
    BY <2>1, SameRows
  <2>2. ASSUME NEW s \in Sessions, CommitEnable(s) PROVE Atomic!Next
    <3> PICK t : t = change[s].tenant
      OBVIOUS
    <3> PICK k : k = change[s].key
      OBVIOUS
    <3>1. /\ t \in Tenants /\ k \in Keys
          /\ Enabled(t)' = Enabled(t) \cup {k} \cup Dependencies(k)
          /\ \A u \in Tenants \ {t} : Enabled(u)' = Enabled(u)
      BY <2>2, EnableEffect DEF Enabled
    <3>2. on' = [on EXCEPT ![t] = @ \cup {k} \cup Dependencies(k)]
      BY <3>1
    <3>3. Atomic!Enable(t, k)
      BY <3>2 DEF Atomic!Enable, Atomic!Dependencies, Dependencies,
                  Atomic!Closed, Closed
    <3> QED BY <3>1, <3>3 DEF Atomic!Next
  <2>3. ASSUME NEW s \in Sessions, CommitDisable(s) PROVE Atomic!Next
    <3> PICK t : t = change[s].tenant
      OBVIOUS
    <3> PICK k : k = change[s].key
      OBVIOUS
    <3>1. /\ t \in Tenants /\ k \in Keys \ Core
          /\ Dependents(k) \cap Enabled(t) = {}
          /\ Enabled(t)' = Enabled(t) \ {k}
          /\ \A u \in Tenants \ {t} : Enabled(u)' = Enabled(u)
      BY <2>3, DisableEffect DEF Enabled
    <3>2. on' = [on EXCEPT ![t] = @ \ {k}]
      BY <3>1
    <3>3. Atomic!Disable(t, k)
      BY <3>1, <3>2 DEF Atomic!Disable, Atomic!Dependents, Dependents,
            Atomic!Dependencies, Dependencies, Atomic!Closed, Closed
    <3> QED BY <3>1, <3>3 DEF Atomic!Next
  <2> QED BY <2>1, <2>2, <2>3 DEF Next, vars, Call, Lock, ReadEnabled,
                                  Reject, Abort
<1> QED BY <1>1, <1>2, InvariantHolds, PTL DEF Spec, AtomicSpec, Atomic!Spec
=============================================================================
