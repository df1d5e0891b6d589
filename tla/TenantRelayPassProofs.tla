----------------------- MODULE TenantRelayPassProofs -----------------------
(***************************************************************************)
(* A pass over the tenant databases serves every tenant that can be        *)
(* served, for every set of tenants, every batch size and any number of    *)
(* faults during the pass.                                                 *)
(***************************************************************************)
EXTENDS TenantRelayPass, TLAPS

\* A tenant the pass still owes a visit is either visited or in the rest of
\* the loop, and is reachable at this moment.
Owed ==
    /\ expected \subseteq reachable
    /\ running => expected \subseteq visited \cup left

\* A backlog is part of what was produced.
Produced == \A t \in Tenants : backlog[t] <= produced

IInv == TypeOK /\ Produced /\ Owed

USE TenantsAssumption, BatchSizeAssumption, BoundsAssumption

----------------------------------------------------------------------------
(* One lemma per group of actions.                                         *)

\* No pass is running and nothing was produced.
LEMMA InitInv == Init => IInv
<1> SUFFICES ASSUME Init PROVE IInv
  OBVIOUS
<1>1. backlog \in [Tenants -> 0..MaxEvents] /\ Produced
  BY DEF Init, Produced
<1>2. /\ listed \subseteq Tenants /\ reachable \subseteq Tenants
      /\ total \in Nat /\ produced \in 0..MaxEvents
      /\ faults \in 0..MaxFaults
  BY DEF Init
<1> QED BY <1>1, <1>2 DEF Init, IInv, TypeOK, Owed

\* A new event does not concern the pass.
LEMMA ProduceInv ==
    ASSUME IInv, NEW t \in Tenants, Produce(t)
    PROVE  IInv'
<1>1. produced' = produced + 1 /\ produced' \in 0..MaxEvents
      /\ backlog' = [backlog EXCEPT ![t] = backlog[t] + 1]
  BY DEF Produce, IInv, TypeOK
<1>2. \A u \in Tenants : /\ backlog'[u] \in Nat
                         /\ backlog'[u] <= produced'
  BY <1>1 DEF IInv, TypeOK, Produced
<1>3. backlog' \in [Tenants -> 0..MaxEvents] /\ Produced'
  BY <1>1, <1>2 DEF IInv, TypeOK, Produced
<1> QED BY <1>1, <1>3 DEF Produce, passVars, IInv, TypeOK, Owed

\* A tenant that becomes unreachable is no longer expected.
LEMMA FaultInv ==
    ASSUME IInv, NEW t \in Tenants, ChangeStatus(t) \/ ChangeReach(t)
    PROVE  IInv'
<1>1. faults' \in 0..MaxFaults
  BY DEF ChangeStatus, ChangeReach, Fault, IInv, TypeOK
<1>2. CASE ChangeStatus(t)
  BY <1>1, <1>2 DEF ChangeStatus, passVars, IInv, TypeOK, Produced, Owed
<1>3. CASE ChangeReach(t)
  <2>1. reachable' \subseteq Tenants /\ expected' = expected \cap reachable'
    BY <1>3 DEF ChangeReach, IInv, TypeOK
  <2> QED BY <1>1, <1>3, <2>1
          DEF ChangeReach, IInv, TypeOK, Produced, Owed
<1> QED BY <1>2, <1>3

\* A pass that gets no list owes nobody a visit.
LEMMA ListFailsInv == IInv /\ ListFails => IInv'
BY DEF ListFails, Fault, passVars, IInv, TypeOK, Produced, Owed

\* The pass starts with everything it owes in its list.
LEMMA RunPassInv == IInv /\ RunPass => IInv'
BY DEF RunPass, IInv, TypeOK, Produced, Owed

\* A visit moves one tenant from the list to the visited ones.
LEMMA RunOnceInv ==
    ASSUME IInv, NEW t \in Tenants, RunOnce(t)
    PROVE  IInv'
<1> DEFINE n == IF backlog[t] < BatchSize THEN backlog[t] ELSE BatchSize
<1>1. n \in Nat /\ n <= backlog[t] /\ backlog[t] \in 0..MaxEvents
  BY DEF IInv, TypeOK
<1>2. /\ backlog' = [backlog EXCEPT ![t] = backlog[t] - n]
      /\ total' = total + n
      /\ visited' = visited \cup {t}
      /\ left' = left \ {t}
      /\ UNCHANGED <<listed, reachable, running, expected, produced, faults>>
  BY DEF RunOnce
<1> HIDE DEF n
<1>3. \A u \in Tenants : backlog'[u] \in 0..MaxEvents
                         /\ backlog'[u] <= produced
  <2> SUFFICES ASSUME NEW u \in Tenants
               PROVE  backlog'[u] \in 0..MaxEvents /\ backlog'[u] <= produced
    OBVIOUS
  <2>1. /\ backlog[u] \in 0..MaxEvents /\ backlog[u] <= produced
        /\ produced \in 0..MaxEvents
    BY DEF IInv, TypeOK, Produced
  <2>2. backlog'[u] = IF u = t THEN backlog[t] - n ELSE backlog[u]
    BY <1>2 DEF IInv, TypeOK
  <2> QED BY <1>1, <2>1, <2>2
<1>4. backlog' \in [Tenants -> 0..MaxEvents] /\ Produced'
  BY <1>2, <1>3 DEF IInv, TypeOK, Produced
<1>5. total' \in Nat
  BY <1>1, <1>2 DEF IInv, TypeOK
<1> QED BY <1>2, <1>4, <1>5 DEF IInv, TypeOK, Owed

\* A tenant that is skipped is not expected: it is unreachable now.
LEMMA IsolateInv ==
    ASSUME IInv, NEW t \in Tenants, Isolate(t)
    PROVE  IInv'
<1>1. /\ left' = left \ {t} /\ t \notin expected
      /\ UNCHANGED <<backlog, listed, reachable, running, total, expected,
                     visited, produced, faults>>
  BY DEF Isolate, IInv, Owed
<1> QED BY <1>1 DEF IInv, TypeOK, Produced, Owed

\* After the pass nothing is owed.
LEMMA EndPassInv == IInv /\ EndPass => IInv'
BY DEF EndPass, IInv, TypeOK, Produced, Owed

----------------------------------------------------------------------------
(* The theorems.                                                           *)

\* The inductive invariant holds in every reachable state.
THEOREM InvariantHolds == Spec => []IInv
<1>1. IInv /\ UNCHANGED vars => IInv'
  BY DEF vars, IInv, TypeOK, Produced, Owed
<1>2. IInv /\ [Next]_vars => IInv'
  BY <1>1, ProduceInv, FaultInv, ListFailsInv, RunPassInv, RunOnceInv,
     IsolateInv, EndPassInv DEF Next, Relay
<1> QED BY <1>2, InitInv, PTL DEF Spec

\* Every variable keeps its type; in particular no backlog becomes negative
\* or larger than what was produced.
THEOREM TypeCorrect == Spec => []TypeOK
<1>1. IInv => TypeOK
  BY DEF IInv
<1> QED BY <1>1, InvariantHolds, PTL

\* However many tenants fail in a pass, every tenant that was listed at its
\* start and stayed reachable is visited before it ends.
THEOREM PassServesAll == Spec => PassServesReachable
<1>1. IInv /\ EndPass => expected \subseteq visited
  BY DEF IInv, Owed, EndPass
<1>2. IInv /\ [Next]_vars => [EndPass => expected \subseteq visited]_vars
  BY <1>1
<1> QED BY <1>2, InvariantHolds, PTL DEF Spec, PassServesReachable
=============================================================================
