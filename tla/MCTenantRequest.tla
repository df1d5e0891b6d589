-------------------------- MODULE MCTenantRequest --------------------------
(* TLC instance of TenantRequest: three kinds of behaviours, each bounded  *)
(* so that what it is about happens.                                       *)
EXTENDS TenantRequest, TLC

CONSTANT
    PairChanges    \* changes of the registry two requests meet

ASSUME PairChangesAssumption == PairChanges \in 0..MaxChanges

\* In time to the end of the clock, where it rests with the realm.
Lasting == [shape |-> "good", key |-> 1, issued |-> 0, expires |-> MaxNow]
NoToken == [shape |-> "none", key |-> 1, issued |-> 0, expires |-> MaxNow]

RealmRests == now = MaxNow /\ realmChanges = 0

\* One request of any kind; the others come without a token.
Alone ==
    /\ RealmRests
    /\ changes = MaxChanges
    /\ \E r \in Requests :
          /\ token = [q \in Requests |-> IF q = r THEN Lasting ELSE NoToken]
          /\ route \in [Requests -> Routes]
          /\ malformed \in [Requests -> {"nothing", "header", "query"}]
          /\ header \in [Requests -> Tenants \cup {NoTenant}]
          /\ \A q \in Requests \ {r} :
                route[q] = "contexts" /\ malformed[q] = "nothing"
                    /\ header[q] = NoTenant

\* Requests that reach the tenants side by side.
Pair ==
    /\ RealmRests
    /\ changes = PairChanges
    /\ token = [r \in Requests |-> Lasting]
    /\ route \in [Requests -> Routes \ {"contexts"}]
    /\ malformed = [r \in Requests |-> "nothing"]
    /\ header \in [Requests -> Tenants \cup {NoTenant}]

\* Tokens of every kind while the realm and the clock move.
Realms ==
    /\ now = 0
    /\ realmChanges = MaxRealmChanges
    /\ changes = 0
    /\ token \in [Requests -> Presentable]
    /\ route = [r \in Requests |-> "contexts"]
    /\ malformed = [r \in Requests |-> "nothing"]
    /\ header = [r \in Requests |-> NoTenant]
    /\ provisioned = TRUE
    /\ membership = [k \in Kinds |-> [t \in Tenants |-> "none"]]
    /\ enabled = {}

MCInit == (Alone \/ Pair \/ Realms) /\ Init

MCSpec == MCInit /\ [][Next]_vars

Symmetry == Permutations(Tenants) \cup Permutations(Requests)
=============================================================================
