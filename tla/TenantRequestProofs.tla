------------------------ MODULE TenantRequestProofs ------------------------
(***************************************************************************)
(* Safety of TenantRequest, and with it of TokenVerifier, for every number *)
(* of requests, tenants, keys and changes: each answer is right for some   *)
(* instant of its request.                                                 *)
(***************************************************************************)
EXTENDS TenantRequest, FiniteSetTheorems, TLAPS

\* The client holds only keys the realm has published at some time.
KeysArePublished == keySet \subseteq EverPublished /\ resolved \subseteq EverPublished

\* What the token still needs at each step, and that whatever stands in its
\* way while it is verified has been noted.
Verified(r) ==
    /\ pc[r] \in Verifying => Hindrance(r) \subseteq hindrances[r]
    /\ pc[r] = "decode" => token[r].key \in EverPublished
    /\ pc[r] \in Running \cup (Answers \ {"unauthenticated", "internalError"})
         => Authentic(r)
    /\ pc[r] = "unauthenticated" /\ token[r].shape = "good"
         => hindrances[r] \ {"broken"} # {}

\* The answers that come after the choice of a tenant.
Chosen == {"guard", "database", "page", "served", "moduleDisabled",
           "unavailable"}

\* A running request knows the registry of this instant; what it read before
\* was so at an earlier instant of it.
Witness(r) ==
    /\ pc[r] \in Running => Entitled \in snaps[r] /\ Witnessed \subseteq witnessed[r]
    /\ pc[r] = "choose" => found[r] \in snaps[r]
    /\ pc[r] \in Chosen \/ (pc[r] = "invalid" /\ malformed[r] = "query") =>
         /\ tenant[r] \in Tenants
         /\ \E S \in snaps[r] : tenant[r] \in S
         /\ header[r] = tenant[r] \/ {tenant[r]} \in snaps[r]
    /\ pc[r] \in {"database", "page", "served"} /\ route[r] = "module"
         => <<"on", tenant[r]>> \in witnessed[r]

\* RefusedForCause, request by request.
Excused(r) ==
    /\ pc[r] = "denied"
         => \E S \in snaps[r] : IF header[r] = NoTenant
                                THEN S = {}
                                ELSE header[r] \notin S
    /\ pc[r] = "selectTenant"
         => header[r] = NoTenant /\ \E S \in snaps[r] : Cardinality(S) > 1
    /\ pc[r] = "identityUnknown" => <<"unknown", NoTenant>> \in witnessed[r]
    /\ pc[r] = "moduleDisabled" => <<"off", tenant[r]>> \in witnessed[r]
    /\ pc[r] = "unavailable" => <<"unready", tenant[r]>> \in witnessed[r]
    /\ pc[r] = "internalError"
         => \/ "broken" \in hindrances[r]
            \/ <<"registry", NoTenant>> \in witnessed[r]
            \/ \E fact \in {"misplaced", "failing"} :
                  <<fact, tenant[r]>> \in witnessed[r]

IInv ==
    /\ TypeOK
    /\ KeysArePublished
    /\ \A r \in Requests : Verified(r) /\ Witness(r) /\ Excused(r)

USE VerifierAssumption, NoTenantAssumption, RoutesAssumption,
    MaxChangesAssumption

----------------------------------------------------------------------------
(* Labels, and what Witnessed says.                                        *)

\* The answers of core/errors.py and the handlers of app.py.
LEMMA AnswersAre ==
    Answers = {"listed", "served", "selectTenant", "unauthenticated",
               "identityUnknown", "denied", "moduleDisabled", "invalid",
               "internalError", "unavailable"}
BY DEF Answers, Status

\* What a running request can witness, instance by instance.
LEMMA WitnessedIs ==
    /\ \A t \in enabled : <<"on", t>> \in Witnessed
    /\ \A t \in Tenants \ enabled : <<"off", t>> \in Witnessed
    /\ \A t \in Tenants \ ready : <<"unready", t>> \in Witnessed
    /\ \A t \in Tenants \ placed : <<"misplaced", t>> \in Witnessed
    /\ \A t \in failing : <<"failing", t>> \in Witnessed
    /\ registryFails => <<"registry", NoTenant>> \in Witnessed
    /\ ~provisioned => <<"unknown", NoTenant>> \in Witnessed
BY DEF Witnessed

\* Types of the registry suffice for the types of what can be witnessed.
RegistryOK ==
    /\ active \subseteq Tenants
    /\ enabled \subseteq Tenants
    /\ ready \subseteq Tenants
    /\ placed \subseteq Tenants
    /\ registryFails \in BOOLEAN
    /\ failing \subseteq Tenants

LEMMA ObserveType ==
    ASSUME TypeOK, Observe, RegistryOK'
    PROVE  /\ snaps' \in [Requests -> SUBSET SUBSET Tenants]
           /\ witnessed' \in
                 [Requests -> SUBSET (Facts \X (Tenants \cup {NoTenant}))]
<1>1. Entitled' \in SUBSET Tenants
  BY DEF RegistryOK, Entitled
<1>2. Witnessed' \in SUBSET (Facts \X (Tenants \cup {NoTenant}))
  BY DEF RegistryOK, Witnessed, Facts
<1> QED BY <1>1, <1>2 DEF TypeOK, Observe

----------------------------------------------------------------------------
(* Type correctness.                                                       *)

Labels == VerifierLabels \cup Running \cup Answers

LEMMA InitType == Init => TypeOK
<1> SUFFICES ASSUME Init PROVE TypeOK
  OBVIOUS
<1>1. /\ newest \in Keys /\ oldest \in 1..newest /\ now \in 0..MaxNow
      /\ endpoint \in EndpointStates /\ realmChanges \in 0..MaxRealmChanges
      /\ keySet \subseteq Keys /\ resolved \subseteq Keys
      /\ hindrances \in [Requests -> SUBSET Hindrances]
  BY DEF Init, Keys, EndpointStates
<1>2. token \in [Requests -> Tokens]
  BY DEF Init, Presentable
<1>3. pc \in [Requests -> Labels]
  BY DEF Init, Labels, VerifierLabels
<1>4. /\ provisioned \in BOOLEAN /\ RegistryOK
      /\ membership \in [Kinds -> [Tenants -> Statuses]]
      /\ cached \subseteq Tenants /\ changes \in 0..MaxChanges
  <2>1. RegistryOK
    BY DEF Init, RegistryOK
  <2>2. /\ provisioned \in BOOLEAN
        /\ membership \in [Kinds -> [Tenants -> Statuses]]
        /\ cached \subseteq Tenants /\ changes \in 0..MaxChanges
    BY DEF Init
  <2> QED BY <2>1, <2>2
<1>5. /\ route \in [Requests -> Routes]
      /\ malformed \in [Requests -> {"nothing", "header", "query"}]
      /\ header \in [Requests -> Tenants \cup {NoTenant}]
      /\ found \in [Requests -> SUBSET Tenants]
      /\ tenant \in [Requests -> Tenants \cup {NoTenant}]
      /\ snaps \in [Requests -> SUBSET SUBSET Tenants]
      /\ witnessed \in
            [Requests -> SUBSET (Facts \X (Tenants \cup {NoTenant}))]
  BY DEF Init, RequestForms
<1> QED BY <1>1, <1>2, <1>3, <1>4, <1>5
        DEF TypeOK, VerifierTypeOK, RegistryOK, Labels

\* A change of the registry or its servers.
LEMMA AdministerType ==
    ASSUME TypeOK, Administer
    PROVE  TypeOK'
<1>1. /\ UNCHANGED <<verifier, pc, request>>
      /\ changes' \in 0..MaxChanges
      /\ Observe
  BY DEF Administer, TypeOK
<1> DEFINE Typed ==
        /\ provisioned \in BOOLEAN
        /\ RegistryOK
        /\ cached \subseteq Tenants
        /\ membership \in [Kinds -> [Tenants -> Statuses]]
<1>2. Typed'
  <2>0. Typed
    BY DEF TypeOK, RegistryOK
  <2>1. CASE ProvisionIdentity
    BY <2>0, <2>1 DEF RegistryOK, ProvisionIdentity
  <2>2. CASE FailOrRecover
    BY <2>0, <2>2 DEF RegistryOK, FailOrRecover, Toggled
  <2>3. ASSUME NEW t \in Tenants,
               \/ SetTenantStatus(t) \/ SetModule(t)
               \/ SetDatabaseStatus(t) \/ SetServer(t)
        PROVE  Typed'
    BY <2>0, <2>3
       DEF RegistryOK, SetTenantStatus, SetModule, SetDatabaseStatus, SetServer,
           Toggled
  <2>4. ASSUME NEW t \in Tenants, Evict(t)
        PROVE  Typed'
    BY <2>0, <2>4 DEF RegistryOK, Evict, registry
  <2>5. ASSUME NEW t \in Tenants, NEW status \in {"active", "suspended"},
               SetMembership(t, status)
        PROVE  Typed'
    <3>1. membership' \in [Kinds -> [Tenants -> Statuses]]
      BY <2>0, <2>5 DEF SetMembership, Kinds, Statuses
    <3> QED BY <2>0, <2>5, <3>1 DEF RegistryOK, SetMembership
  <2> QED BY <2>1, <2>2, <2>3, <2>4, <2>5 DEF Administer
<1>3. /\ snaps' \in [Requests -> SUBSET SUBSET Tenants]
      /\ witnessed' \in
            [Requests -> SUBSET (Facts \X (Tenants \cup {NoTenant}))]
  BY <1>1, <1>2, ObserveType
<1> QED BY <1>1, <1>2, <1>3
        DEF TypeOK, VerifierTypeOK, RegistryOK, verifier, realmVars, clientVars,
            request

\* The history of what stands in the way of a token.
LEMMA NotedType ==
    ASSUME TypeOK, NoteHindrances
    PROVE  hindrances' \in [Requests -> SUBSET Hindrances]
BY DEF TypeOK, VerifierTypeOK, NoteHindrances, Hindrance

\* A change of the realm, its endpoint, the client's cache or the clock.
LEMMA RealmMovesType ==
    ASSUME TypeOK, RealmMoves
    PROVE  TypeOK'
<1>1. /\ UNCHANGED <<registry, cached, changes, request, snaps, witnessed>>
      /\ UNCHANGED <<token, pc, resolved>>
      /\ NoteHindrances
  BY DEF RealmMoves, Realm, RealmChange, Tick, clientVars
<1>2. hindrances' \in [Requests -> SUBSET Hindrances]
  BY <1>1, NotedType
<1>3. /\ newest' \in Keys /\ oldest' \in 1..newest' /\ endpoint' \in EndpointStates
      /\ now' \in 0..MaxNow /\ realmChanges' \in 0..MaxRealmChanges
      /\ keySet' \subseteq Keys
  <2>1. CASE RealmChange
    <3>1. realmChanges' \in 0..MaxRealmChanges /\ now' = now
      BY <2>1 DEF TypeOK, VerifierTypeOK, RealmChange
    <3>2. CASE Rotate
      BY <3>1, <3>2 DEF TypeOK, VerifierTypeOK, Rotate, Keys
    <3>3. CASE Retire
      BY <3>1, <3>3 DEF TypeOK, VerifierTypeOK, Retire, Keys
    <3>4. CASE ComeAndGo
      BY <3>1, <3>4 DEF TypeOK, VerifierTypeOK, ComeAndGo
    <3>5. CASE Lapse
      BY <3>1, <3>5 DEF TypeOK, VerifierTypeOK, Lapse
    <3> QED BY <2>1, <3>2, <3>3, <3>4, <3>5 DEF RealmChange
  <2>2. CASE Tick
    BY <2>2 DEF TypeOK, VerifierTypeOK, Tick, clientVars
  <2> QED BY <2>1, <2>2 DEF RealmMoves, Realm
<1> QED BY <1>1, <1>2, <1>3 DEF TypeOK, VerifierTypeOK, registry, request

\* Published keys are keys, and have been published.
LEMMA PublishedIsEver ==
    ASSUME TypeOK
    PROVE  Published \subseteq EverPublished /\ EverPublished \subseteq Keys
BY DEF TypeOK, VerifierTypeOK, Published, EverPublished, Keys

\* Where a step of the verification takes a request.
LEMMA VerifyMoves ==
    ASSUME TypeOK, NEW r \in Requests, Verify(r)
    PROVE  /\ pc[r] \in {"new"} \cup Verifying
           /\ pc' = [pc EXCEPT ![r] = pc'[r]]
           /\ pc'[r] \in {"verified", "unauthenticated", "internalError"}
                           \cup Verifying
<1>1. pc \in [Requests -> Labels]
  BY DEF TypeOK, Labels
<1>2. CASE Present(r)
  BY <1>1, <1>2 DEF Present, VerifyGoto, Verifying
<1>3. CASE Lookup(r)
  BY <1>1, <1>3 DEF Lookup, VerifyGoto, Verifying
<1>4. CASE Fetch(r, "load", "refresh") \/ Fetch(r, "refresh", "unauthenticated")
  BY <1>1, <1>4 DEF Fetch, VerifyGoto, Verifying
<1>5. CASE FetchFails(r)
  BY <1>1, <1>5 DEF FetchFails, VerifyGoto, Verifying, Asking
<1>6. CASE Decode(r)
  BY <1>1, <1>6 DEF Decode, VerifyGoto, Verifying
<1> QED BY <1>2, <1>3, <1>4, <1>5, <1>6 DEF Verify

\* A step of the verification of a token.
LEMMA AuthenticateType ==
    ASSUME TypeOK, NEW r \in Requests, Authenticate(r)
    PROVE  TypeOK'
<1>1. /\ UNCHANGED <<registry, cached, changes, request>>
      /\ UNCHANGED <<realmVars, token>>
      /\ Verify(r) /\ NoteHindrances /\ Observe
  BY DEF Authenticate, Verify
<1>2. hindrances' \in [Requests -> SUBSET Hindrances]
  BY <1>1, NotedType
<1>3. pc' \in [Requests -> Labels]
  BY <1>1, VerifyMoves DEF TypeOK, Labels, VerifierLabels, Verifying
<1>4. keySet' \subseteq Keys /\ resolved' \subseteq Keys
  BY <1>1, PublishedIsEver
     DEF TypeOK, VerifierTypeOK, Verify, Present, Lookup, Fetch, FetchFails,
         Decode, clientVars
<1>5. /\ snaps' \in [Requests -> SUBSET SUBSET Tenants]
      /\ witnessed' \in
            [Requests -> SUBSET (Facts \X (Tenants \cup {NoTenant}))]
  <2>1. RegistryOK'
    BY <1>1 DEF TypeOK, RegistryOK, registry
  <2> QED BY <1>1, <2>1, ObserveType
<1> QED BY <1>1, <1>2, <1>3, <1>4, <1>5
        DEF TypeOK, VerifierTypeOK, registry, request, realmVars, Labels

\* Where a step of the context, the guard, the router or the service takes a
\* request: from one running label to another, or to an answer.
LEMMA HandleMoves ==
    ASSUME TypeOK, NEW r \in Requests, Handle(r)
    PROVE  /\ pc[r] \in Running
           /\ pc' = [pc EXCEPT ![r] = pc'[r]]
           /\ pc'[r] \in Running \cup (Answers \ {"unauthenticated"})
<1>1. pc \in [Requests -> Labels]
  BY DEF TypeOK, Labels
<1>2. CASE Crash(r) \/ Reject(r)
  BY <1>1, <1>2, AnswersAre DEF Crash, Reject, Goto, Running
<1>3. CASE FindIdentity(r) \/ ActiveMemberships(r)
  BY <1>1, <1>3, AnswersAre
     DEF FindIdentity, ActiveMemberships, AsksRegistry, Goto, Running
<1>4. CASE Choose(r)
  BY <1>1, <1>4, AnswersAre DEF Choose, Goto, Running
<1>5. CASE Guard(r) \/ ForTenant(r) \/ ListPage(r)
  BY <1>1, <1>5, AnswersAre
     DEF Guard, ForTenant, OpenPool, ListPage, AsksRegistry, Goto, Running
<1> QED BY <1>2, <1>3, <1>4, <1>5 DEF Handle

\* The tenants that may be chosen are among the memberships found.
LEMMA EligibleWasFound ==
    ASSUME NEW r \in Requests
    PROVE  Eligible(r) \subseteq found[r]
BY DEF Eligible

\* A step of the context, the guard, the router or the service.
LEMMA HandleType ==
    ASSUME TypeOK, NEW r \in Requests, Handle(r)
    PROVE  TypeOK'
<1>1. /\ UNCHANGED <<verifier, registry, changes, route, malformed, header>>
      /\ Observe
  BY DEF Handle
<1>2. pc' \in [Requests -> Labels]
  BY HandleMoves DEF TypeOK, Labels
<1>3. /\ found' \in [Requests -> SUBSET Tenants]
      /\ tenant' \in [Requests -> Tenants \cup {NoTenant}]
      /\ cached' \subseteq Tenants
  <2>1. CASE Crash(r) \/ Reject(r) \/ FindIdentity(r) \/ Guard(r) \/ ListPage(r)
    BY <2>1 DEF TypeOK, Crash, Reject, FindIdentity, Guard, ListPage
  <2>2. CASE ActiveMemberships(r)
    BY <2>2 DEF TypeOK, ActiveMemberships, ActiveStaffTenants
  <2>3. CASE Choose(r)
    <3>1. Eligible(r) \subseteq Tenants
      BY EligibleWasFound DEF TypeOK
    <3> QED BY <2>3, <3>1 DEF TypeOK, Choose
  <2>4. CASE ForTenant(r)
    BY <2>4 DEF TypeOK, ForTenant, OpenPool
  <2> QED BY <2>1, <2>2, <2>3, <2>4 DEF Handle
<1>4. /\ snaps' \in [Requests -> SUBSET SUBSET Tenants]
      /\ witnessed' \in
            [Requests -> SUBSET (Facts \X (Tenants \cup {NoTenant}))]
  <2>1. RegistryOK'
    BY <1>1 DEF TypeOK, RegistryOK, registry
  <2> QED BY <1>1, <2>1, ObserveType
<1> QED BY <1>1, <1>2, <1>3, <1>4
        DEF TypeOK, VerifierTypeOK, registry, verifier, realmVars, clientVars,
            Labels

LEMMA NextType == TypeOK /\ [Next]_vars => TypeOK'
<1> SUFFICES ASSUME TypeOK, [Next]_vars PROVE TypeOK'
  OBVIOUS
<1>1. CASE UNCHANGED vars
  BY <1>1 DEF TypeOK, VerifierTypeOK, vars, verifier, registry, request,
              realmVars, clientVars
<1> QED BY <1>1, AdministerType, RealmMovesType, AuthenticateType, HandleType
        DEF Next

\* Every variable of TenantRequest and TokenVerifier keeps its type.
THEOREM TypeCorrect == Spec => []TypeOK
BY InitType, NextType, PTL DEF Spec

----------------------------------------------------------------------------
(* The verification of tokens.                                             *)

\* No request is verified as it starts.
LEMMA InitVerified ==
    ASSUME Init
    PROVE  KeysArePublished /\ \A r \in Requests : Verified(r)
BY AnswersAre
   DEF Init, KeysArePublished, EverPublished, Verified, Verifying, Running

\* What stands in the way of a request that is being verified is noted, and
\* nothing noted is forgotten.
LEMMA NotedIs ==
    ASSUME TypeOK, NoteHindrances, NEW r \in Requests
    PROVE  /\ hindrances[r] \subseteq hindrances'[r]
           /\ pc'[r] \in Verifying => Hindrance(r)' \subseteq hindrances'[r]
<1>1. hindrances'[r] = IF pc'[r] \in Verifying
                       THEN hindrances[r] \cup Hindrance(r)'
                       ELSE hindrances[r]
  BY DEF NoteHindrances
<1> QED BY <1>1

\* A request whose label and token stay remains verified, whatever else the
\* realm and the other requests do.
LEMMA OthersStayVerified ==
    ASSUME TypeOK, NoteHindrances, NEW r \in Requests, Verified(r),
           pc'[r] = pc[r], token'[r] = token[r],
           EverPublished \subseteq EverPublished'
    PROVE  Verified(r)'
BY NotedIs DEF Verified, Authentic, Verifying

\* A change of the realm takes no key out of those it ever published.
LEMMA RealmVerified ==
    ASSUME TypeOK, KeysArePublished, \A r \in Requests : Verified(r), RealmMoves
    PROVE  KeysArePublished' /\ \A r \in Requests : Verified(r)'
<1>1. UNCHANGED <<token, pc, resolved>> /\ NoteHindrances
  BY DEF RealmMoves, Realm, RealmChange, Tick, clientVars
<1>2. EverPublished \subseteq EverPublished'
  <2>1. newest' \in {newest, newest + 1}
    BY DEF RealmMoves, Realm, RealmChange, Rotate, Retire, ComeAndGo, Lapse, Tick
  <2> QED BY <2>1 DEF EverPublished, TypeOK, VerifierTypeOK, Keys
<1>3. keySet' \subseteq keySet
  BY DEF RealmMoves, Realm, RealmChange, Rotate, Retire, ComeAndGo, Lapse, Tick,
         clientVars
<1>4. ASSUME NEW r \in Requests
      PROVE  Verified(r)'
  <2>1. Verified(r) /\ pc'[r] = pc[r] /\ token'[r] = token[r]
    BY <1>1
  <2> QED BY <1>1, <1>2, <2>1, OthersStayVerified
<1> QED BY <1>1, <1>2, <1>3, <1>4 DEF KeysArePublished

\* The registry has no say in the verification.
LEMMA AdministerVerified ==
    ASSUME TypeOK, KeysArePublished, \A r \in Requests : Verified(r),
           UNCHANGED <<verifier, pc>>
    PROVE  KeysArePublished' /\ \A r \in Requests : Verified(r)'
BY DEF verifier, realmVars, clientVars, KeysArePublished, EverPublished,
       Verified, Hindrance, Published, InTime, Authentic

\* Past its verification a request stays past it.
LEMMA HandleVerified ==
    ASSUME TypeOK, KeysArePublished, \A q \in Requests : Verified(q),
           NEW r \in Requests, Handle(r)
    PROVE  KeysArePublished' /\ \A q \in Requests : Verified(q)'
<1>1. UNCHANGED verifier
  BY DEF Handle
<1>2. KeysArePublished'
  BY <1>1 DEF verifier, realmVars, clientVars, KeysArePublished, EverPublished
<1>3. ASSUME NEW q \in Requests, q # r
      PROVE  Verified(q)'
  <2>1. pc'[q] = pc[q]
    BY <1>3, HandleMoves DEF TypeOK
  <2>2. Verified(q)
    OBVIOUS
  <2> QED BY <1>1, <2>1, <2>2
          DEF verifier, realmVars, clientVars, EverPublished, Verified,
              Hindrance, Published, InTime, Authentic
<1>4. Verified(r)'
  <2>1. Authentic(r)
    BY HandleMoves DEF Verified
  <2>2. Authentic(r)'
    BY <1>1, <2>1 DEF verifier, realmVars, Authentic, EverPublished
  <2>3. pc'[r] \notin Verifying \cup {"unauthenticated"}
    BY HandleMoves, AnswersAre DEF Verifying, Running
  <2> QED BY <2>2, <2>3 DEF Verified, Verifying
<1> QED BY <1>2, <1>3, <1>4

\* A token is accepted only with a key the realm published, and a good one
\* is refused only because of something that has been noted.
LEMMA AuthenticateVerified ==
    ASSUME TypeOK, KeysArePublished, \A q \in Requests : Verified(q),
           NEW r \in Requests, Authenticate(r)
    PROVE  KeysArePublished' /\ \A q \in Requests : Verified(q)'
<1>1. /\ Verify(r) /\ NoteHindrances
      /\ UNCHANGED <<realmVars, token>>
  BY DEF Authenticate, Verify
<1>2. EverPublished' = EverPublished
  BY <1>1 DEF realmVars, EverPublished
<1>3. KeysArePublished'
  BY <1>1, <1>2, PublishedIsEver
     DEF KeysArePublished, Verify, Present, Lookup, Fetch, FetchFails, Decode,
         clientVars
<1>4. ASSUME NEW q \in Requests, q # r
      PROVE  Verified(q)'
  <2>1. pc'[q] = pc[q]
    BY <1>1, <1>4, VerifyMoves DEF TypeOK
  <2>2. Verified(q) /\ token'[q] = token[q]
    BY <1>1
  <2> QED BY <1>1, <1>2, <2>1, <2>2, OthersStayVerified
<1>5. Verified(r)'
  <2>1. /\ Verified(r) /\ token' = token
        /\ pc[r] \in {"new"} \cup Verifying
        /\ pc'[r] \in {"verified", "unauthenticated", "internalError"}
                        \cup Verifying
        /\ pc \in [Requests -> Labels]
    BY <1>1, VerifyMoves DEF TypeOK, Labels
  <2>2. pc'[r] = "decode" => token[r].key \in EverPublished
    <3>1. CASE Present(r) \/ FetchFails(r) \/ Decode(r)
      BY <2>1, <3>1 DEF Present, FetchFails, Decode, VerifyGoto
    <3>2. CASE Lookup(r)
      BY <2>1, <3>2 DEF Lookup, VerifyGoto, KeysArePublished
    <3>3. CASE Fetch(r, "load", "refresh") \/ Fetch(r, "refresh", "unauthenticated")
      BY <2>1, <3>3, PublishedIsEver DEF Fetch, VerifyGoto
    <3> QED BY <1>1, <3>1, <3>2, <3>3 DEF Verify
  <2>3. pc'[r] = "verified" => Authentic(r)
    <3>1. CASE Decode(r)
      BY <2>1, <3>1 DEF Decode, VerifyGoto, Verified, Authentic
    <3>2. CASE Present(r) \/ Lookup(r) \/ FetchFails(r)
      BY <2>1, <3>2 DEF Present, Lookup, FetchFails, VerifyGoto
    <3>3. CASE Fetch(r, "load", "refresh") \/ Fetch(r, "refresh", "unauthenticated")
      BY <2>1, <3>3 DEF Fetch, VerifyGoto
    <3> QED BY <1>1, <3>1, <3>2, <3>3 DEF Verify
  <2>4. pc'[r] = "unauthenticated" /\ token[r].shape = "good"
          => Hindrance(r) \ {"broken"} # {} /\ pc[r] \in Verifying
    <3>1. CASE Present(r)
      BY <2>1, <3>1 DEF Present, VerifyGoto
    <3>2. CASE Lookup(r)
      BY <2>1, <3>2 DEF Lookup, VerifyGoto
    <3>3. CASE Fetch(r, "load", "refresh") \/ Fetch(r, "refresh", "unauthenticated")
      <4>1. pc'[r] = "unauthenticated" => token[r].key \notin Published
        BY <2>1, <3>3 DEF Fetch, VerifyGoto
      <4>2. token[r].key \notin Published => "key" \in Hindrance(r)
        BY DEF Hindrance, Hindrances
      <4> QED BY <3>3, <4>1, <4>2 DEF Fetch, VerifyGoto, Verifying
    <3>4. CASE FetchFails(r)
      <4>1. pc[r] \in Asking
            /\ (pc'[r] = "unauthenticated" => endpoint = "down")
        BY <2>1, <3>4 DEF FetchFails, VerifyGoto, Asking, Verifying
      <4>2. endpoint = "down" /\ pc[r] \in Asking => "realm" \in Hindrance(r)
        BY DEF Hindrance, Hindrances
      <4> QED BY <4>1, <4>2 DEF Verifying, Asking
    <3>5. CASE Decode(r)
      <4>1. pc[r] = "decode"
            /\ (pc'[r] = "unauthenticated" /\ token[r].shape = "good"
                  => ~InTime(token[r]))
        BY <2>1, <3>5 DEF Decode, VerifyGoto
      <4>2. ~InTime(token[r]) => "clock" \in Hindrance(r)
        BY DEF Hindrance, Hindrances
      <4> QED BY <4>1, <4>2 DEF Verifying
    <3> QED BY <1>1, <3>1, <3>2, <3>3, <3>4, <3>5 DEF Verify
  <2>5. Authentic(r)' = Authentic(r)
    BY <1>2, <2>1 DEF Authentic
  <2>6. pc'[r] \in Running \cup (Answers \ {"unauthenticated", "internalError"})
          => pc'[r] = "verified"
    BY <2>1, AnswersAre DEF Verifying, Running
  <2>7. pc'[r] \in Verifying => Hindrance(r)' \subseteq hindrances'[r]
    BY <1>1, NotedIs
  <2>8. hindrances[r] \subseteq hindrances'[r]
    BY <1>1, NotedIs
  <2>9. pc[r] \in Verifying => Hindrance(r) \subseteq hindrances[r]
    BY <2>1 DEF Verified
  <2>10. pc'[r] = "unauthenticated" /\ token'[r].shape = "good"
           => hindrances'[r] \ {"broken"} # {}
    BY <2>1, <2>4, <2>8, <2>9
  <2> QED BY <1>2, <2>1, <2>2, <2>3, <2>5, <2>6, <2>7, <2>10 DEF Verified
<1> QED BY <1>3, <1>4, <1>5

----------------------------------------------------------------------------
(* The answers and the instants they are right for.                        *)

LEMMA InitWitness ==
    ASSUME Init
    PROVE  \A r \in Requests : Witness(r) /\ Excused(r)
<1> SUFFICES ASSUME NEW r \in Requests PROVE Witness(r) /\ Excused(r)
  OBVIOUS
<1>1. pc[r] = "new"
  BY DEF Init
<1> QED BY <1>1 DEF Witness, Excused, Running, Chosen

\* What a request witnessed it keeps, and while it runs it witnesses the
\* registry as each step leaves it.
LEMMA ObserveIs ==
    ASSUME Observe, NEW r \in Requests
    PROVE  /\ snaps[r] \subseteq snaps'[r]
           /\ witnessed[r] \subseteq witnessed'[r]
           /\ pc'[r] \in Running
                => Entitled' \in snaps'[r] /\ Witnessed' \subseteq witnessed'[r]
<1>1. snaps'[r] = IF pc'[r] \in Running THEN snaps[r] \cup {Entitled'}
                                        ELSE snaps[r]
  BY DEF Observe
<1>2. witnessed'[r] = IF pc'[r] \in Running THEN witnessed[r] \cup Witnessed'
                                            ELSE witnessed[r]
  BY DEF Observe
<1> QED BY <1>1, <1>2

\* A request that does not move keeps the reasons for what it did, whatever
\* the administrator and the other requests do.
LEMMA OthersStayWitnessed ==
    ASSUME Observe, NEW r \in Requests, Witness(r), Excused(r),
           hindrances[r] \subseteq hindrances'[r],
           pc'[r] = pc[r], found'[r] = found[r], tenant'[r] = tenant[r],
           UNCHANGED <<route, malformed, header>>
    PROVE  Witness(r)' /\ Excused(r)'
<1>1. /\ snaps[r] \subseteq snaps'[r]
      /\ witnessed[r] \subseteq witnessed'[r]
      /\ pc'[r] \in Running
           => Entitled' \in snaps'[r] /\ Witnessed' \subseteq witnessed'[r]
  BY ObserveIs
<1>2. Witness(r)'
  BY <1>1 DEF Witness
<1>3. Excused(r)'
  BY <1>1 DEF Excused
<1> QED BY <1>2, <1>3

LEMMA AdministerWitness ==
    ASSUME \A r \in Requests : Witness(r) /\ Excused(r), Administer
    PROVE  \A r \in Requests : Witness(r)' /\ Excused(r)'
<1>1. UNCHANGED <<hindrances, pc, request>> /\ Observe
  BY DEF Administer, verifier
<1>2. ASSUME NEW r \in Requests
      PROVE  Witness(r)' /\ Excused(r)'
  <2>1. /\ Witness(r) /\ Excused(r)
        /\ hindrances[r] \subseteq hindrances'[r]
        /\ pc'[r] = pc[r] /\ found'[r] = found[r] /\ tenant'[r] = tenant[r]
        /\ UNCHANGED <<route, malformed, header>>
    BY <1>1 DEF request
  <2> QED BY <1>1, <2>1, OthersStayWitnessed
<1> QED BY <1>2

\* The realm has no say in the answers past the verification.
LEMMA RealmWitness ==
    ASSUME \A r \in Requests : Witness(r) /\ Excused(r),
           \A r \in Requests : hindrances[r] \subseteq hindrances'[r],
           UNCHANGED <<registry, pc, request, snaps, witnessed>>
    PROVE  \A r \in Requests : Witness(r)' /\ Excused(r)'
<1>1. /\ UNCHANGED <<registry, pc, found, tenant, route, malformed, header>>
      /\ UNCHANGED <<snaps, witnessed>>
  BY DEF request
<1>2. Entitled' = Entitled /\ Witnessed' = Witnessed
  BY <1>1 DEF registry, Entitled, Witnessed
<1>3. ASSUME NEW r \in Requests
      PROVE  Witness(r)' /\ Excused(r)'
  <2>1. Witness(r)'
    BY <1>1, <1>2 DEF Witness
  <2>2. "broken" \in hindrances[r] => "broken" \in hindrances'[r]
    OBVIOUS
  <2>3. Excused(r)'
    BY <1>1, <2>2 DEF Excused
  <2> QED BY <2>1, <2>3
<1> QED BY <1>3

\* Verification ends in 500 only at an endpoint that answers with no JSON.
LEMMA BrokenIsNoted ==
    ASSUME TypeOK, NEW r \in Requests, Verified(r), Verify(r),
           pc'[r] = "internalError"
    PROVE  "broken" \in hindrances'[r]
<1>1. pc \in [Requests -> Labels] /\ NoteHindrances
  BY DEF TypeOK, Labels, Verify
<1>2. FetchFails(r)
  BY <1>1 DEF Verify, Present, Lookup, Fetch, Decode, VerifyGoto
<1>3. endpoint = "broken" /\ pc[r] \in Asking
  BY <1>1, <1>2 DEF FetchFails, VerifyGoto
<1>4. "broken" \in Hindrance(r)
  BY <1>3 DEF Hindrance, Hindrances
<1>5. Hindrance(r) \subseteq hindrances[r]
  BY <1>3 DEF Verified, Verifying, Asking
<1> QED BY <1>1, <1>4, <1>5, NotedIs

LEMMA AuthenticateWitness ==
    ASSUME TypeOK, \A q \in Requests : Witness(q) /\ Excused(q),
           NEW r \in Requests, Verified(r), Authenticate(r)
    PROVE  \A q \in Requests : Witness(q)' /\ Excused(q)'
<1>1. UNCHANGED request /\ Verify(r) /\ NoteHindrances /\ Observe
  BY DEF Authenticate, Verify
<1>2. ASSUME NEW q \in Requests, q # r
      PROVE  Witness(q)' /\ Excused(q)'
  <2>1. /\ Witness(q) /\ Excused(q)
        /\ pc'[q] = pc[q] /\ found'[q] = found[q] /\ tenant'[q] = tenant[q]
        /\ UNCHANGED <<route, malformed, header>>
    BY <1>1, <1>2, VerifyMoves DEF TypeOK, request
  <2> QED BY <1>1, <2>1, NotedIs, OthersStayWitnessed
<1>3. Witness(r)' /\ Excused(r)'
  <2>1. pc'[r] \in {"verified", "unauthenticated", "internalError"} \cup Verifying
    BY <1>1, VerifyMoves
  <2>2. pc'[r] \in Running
          => Entitled' \in snaps'[r] /\ Witnessed' \subseteq witnessed'[r]
    BY <1>1, ObserveIs
  <2>3. pc'[r] = "internalError" => "broken" \in hindrances'[r]
    BY <1>1, BrokenIsNoted
  <2> QED BY <2>1, <2>2, <2>3 DEF Witness, Excused, Verifying, Running, Chosen
<1> QED BY <1>2, <1>3

\* A set of tenants that is neither empty nor a singleton has several.
LEMMA Several ==
    ASSUME NEW S \in SUBSET Tenants, S # {}, \A t \in S : S # {t}
    PROVE  Cardinality(S) > 1
<1>1. IsFiniteSet(S)
  BY TenantsAssumption, FS_Subset
<1>2. Cardinality(S) \in Nat
  BY <1>1, FS_CardinalityType
<1>3. Cardinality(S) # 0
  BY <1>1, FS_EmptySet
<1>4. Cardinality(S) # 1
  BY <1>1, FS_Singleton
<1> QED BY <1>2, <1>3, <1>4

\* The memberships read in one statement are the entitlements of that
\* instant.
LEMMA ReadIsEntitled ==
    ASSUME active \subseteq Tenants
    PROVE  ActiveStaffTenants = Entitled
BY DEF ActiveStaffTenants, Entitled

\* A request's own step answers, or goes on, with what it witnessed.
LEMMA OwnStepWitness ==
    ASSUME TypeOK, NEW r \in Requests, Witness(r), Handle(r)
    PROVE  Witness(r)' /\ Excused(r)'
<1>1. /\ UNCHANGED <<registry, route, malformed, header>>
      /\ Observe
      /\ pc \in [Requests -> Labels]
      /\ pc[r] \in Running
      /\ active \subseteq Tenants
  BY HandleMoves DEF Handle, TypeOK, Labels, registry
<1>2. /\ snaps[r] \subseteq snaps'[r]
      /\ witnessed[r] \subseteq witnessed'[r]
      /\ pc'[r] \in Running
           => Entitled' \in snaps'[r] /\ Witnessed' \subseteq witnessed'[r]
  BY <1>1, ObserveIs
<1>3. Entitled \in snaps'[r] /\ Witnessed \subseteq witnessed'[r]
  BY <1>1, <1>2 DEF Witness
<1>4. CASE Crash(r)
  <2>1. /\ pc'[r] = "internalError" /\ tenant' = tenant
        /\ registryFails \/ tenant[r] \in failing
    BY <1>1, <1>4 DEF Crash, Goto
  <2>2. \/ <<"registry", NoTenant>> \in witnessed'[r]
        \/ <<"failing", tenant'[r]>> \in witnessed'[r]
    BY <1>3, <2>1, WitnessedIs
  <2> QED BY <2>1, <2>2 DEF Witness, Excused, Running, Chosen
<1>5. CASE Reject(r)
  <2>1. /\ pc'[r] = "invalid"
        /\ malformed[r] = "query" => pc[r] = "page"
        /\ tenant' = tenant
    BY <1>1, <1>5 DEF Reject, Goto
  <2>2. malformed[r] = "query" =>
          /\ tenant[r] \in Tenants
          /\ \E S \in snaps[r] : tenant[r] \in S
          /\ header[r] = tenant[r] \/ {tenant[r]} \in snaps[r]
    BY <2>1 DEF Witness, Chosen
  <2>3. malformed'[r] = "query" =>
          /\ tenant'[r] \in Tenants
          /\ \E S \in snaps'[r] : tenant'[r] \in S
          /\ header'[r] = tenant'[r] \/ {tenant'[r]} \in snaps'[r]
    BY <1>1, <1>2, <2>1, <2>2
  <2> QED BY <2>1, <2>3 DEF Witness, Excused, Running, Chosen
<1>6. CASE FindIdentity(r)
  <2>1. \/ pc'[r] = "memberships"
        \/ pc'[r] = "identityUnknown" /\ ~provisioned
    BY <1>1, <1>6 DEF FindIdentity, Goto
  <2>2. pc'[r] = "identityUnknown" => <<"unknown", NoTenant>> \in witnessed'[r]
    BY <1>3, <2>1, WitnessedIs
  <2> QED BY <1>2, <2>1, <2>2 DEF Witness, Excused, Running, Chosen
<1>7. CASE ActiveMemberships(r)
  <2>1. pc'[r] \in {"listed", "choose"} /\ found'[r] = Entitled
    BY <1>1, <1>7, ReadIsEntitled DEF ActiveMemberships, Goto, TypeOK
  <2> QED BY <1>2, <1>3, <2>1 DEF Witness, Excused, Running, Chosen
<1>8. CASE Choose(r)
  <2>1. /\ pc[r] = "choose" /\ found[r] \in snaps'[r]
        /\ found[r] \in SUBSET Tenants
        /\ header[r] \in Tenants \cup {NoTenant}
    BY <1>2, <1>8 DEF Choose, Witness, TypeOK
  <2>2. CASE Eligible(r) # {}
    <3>1. /\ pc'[r] \in {"guard", "database"}
          /\ pc'[r] = "database" => route[r] # "module"
          /\ tenant'[r] \in Eligible(r)
      BY <1>1, <1>8, <2>2 DEF Choose, Goto, TypeOK
    <3>2. /\ tenant'[r] \in found[r]
          /\ header[r] = tenant'[r] \/ {tenant'[r]} = found[r]
      BY <3>1 DEF Eligible
    <3>3. /\ tenant'[r] \in Tenants
          /\ \E S \in snaps'[r] : tenant'[r] \in S
          /\ header'[r] = tenant'[r] \/ {tenant'[r]} \in snaps'[r]
      BY <1>1, <2>1, <3>2
    <3> QED BY <1>1, <1>2, <3>1, <3>3 DEF Witness, Excused, Running, Chosen
  <2>3. CASE Eligible(r) = {}
    <3>1. pc'[r] = IF header[r] = NoTenant /\ found[r] # {}
                   THEN "selectTenant" ELSE "denied"
      BY <1>1, <1>8, <2>3 DEF Choose, Goto
    <3>2. CASE header[r] = NoTenant /\ found[r] # {}
      <4>1. \A t \in found[r] : found[r] # {t}
        BY <2>3, <3>2 DEF Eligible
      <4>2. Cardinality(found[r]) > 1
        BY <2>1, <3>2, <4>1, Several
      <4>3. \E S \in snaps'[r] : Cardinality(S) > 1
        BY <2>1, <4>2
      <4>4. pc'[r] = "selectTenant" /\ header'[r] = NoTenant
        BY <1>1, <3>1, <3>2
      <4> QED BY <4>3, <4>4 DEF Witness, Excused, Running, Chosen
    <3>3. CASE ~(header[r] = NoTenant /\ found[r] # {})
      <4>1. IF header'[r] = NoTenant THEN found[r] = {}
                                     ELSE header'[r] \notin found[r]
        BY <1>1, <2>3, <3>3 DEF Eligible
      <4>2. \E S \in snaps'[r] : IF header'[r] = NoTenant
                                 THEN S = {}
                                 ELSE header'[r] \notin S
        BY <2>1, <4>1
      <4>3. pc'[r] = "denied"
        BY <3>1, <3>3
      <4> QED BY <4>2, <4>3 DEF Witness, Excused, Running, Chosen
    <3> QED BY <3>2, <3>3
  <2> QED BY <2>2, <2>3
<1>9. ASSUME pc[r] \in {"guard", "database", "page"}, tenant' = tenant
      PROVE  /\ tenant[r] \in Tenants
             /\ tenant'[r] \in Tenants
             /\ \E S \in snaps'[r] : tenant'[r] \in S
             /\ header'[r] = tenant'[r] \/ {tenant'[r]} \in snaps'[r]
  BY <1>1, <1>2, <1>9 DEF Witness, Chosen
<1>10. CASE Guard(r)
  <2>1. /\ pc[r] = "guard" /\ tenant' = tenant
        /\ \/ pc'[r] = "database" /\ tenant[r] \in enabled
           \/ pc'[r] = "moduleDisabled" /\ tenant[r] \notin enabled
    BY <1>1, <1>10 DEF Guard, AsksRegistry, Goto
  <2>2. /\ tenant[r] \in Tenants
        /\ tenant'[r] \in Tenants
        /\ \E S \in snaps'[r] : tenant'[r] \in S
        /\ header'[r] = tenant'[r] \/ {tenant'[r]} \in snaps'[r]
    BY <1>9, <2>1
  <2>3. /\ pc'[r] = "database" => <<"on", tenant'[r]>> \in witnessed'[r]
        /\ pc'[r] = "moduleDisabled" => <<"off", tenant'[r]>> \in witnessed'[r]
    BY <1>3, <2>1, <2>2, WitnessedIs
  <2> QED BY <1>2, <2>1, <2>2, <2>3 DEF Witness, Excused, Running, Chosen
<1>11. CASE ForTenant(r)
  <2>1. /\ pc[r] = "database" /\ tenant' = tenant
        /\ \/ pc'[r] = "page"
           \/ pc'[r] = "unavailable" /\ tenant[r] \notin ready
           \/ pc'[r] = "internalError" /\ tenant[r] \notin placed
    BY <1>1, <1>11 DEF ForTenant, OpenPool, Goto
  <2>2. /\ tenant[r] \in Tenants
        /\ tenant'[r] \in Tenants
        /\ \E S \in snaps'[r] : tenant'[r] \in S
        /\ header'[r] = tenant'[r] \/ {tenant'[r]} \in snaps'[r]
    BY <1>9, <2>1
  <2>3. /\ pc'[r] = "unavailable" => <<"unready", tenant'[r]>> \in witnessed'[r]
        /\ pc'[r] = "internalError"
             => <<"misplaced", tenant'[r]>> \in witnessed'[r]
    BY <1>3, <2>1, <2>2, WitnessedIs
  <2>4. route'[r] = "module" => <<"on", tenant'[r]>> \in witnessed'[r]
    BY <1>1, <1>2, <2>1 DEF Witness
  <2> QED BY <1>2, <2>1, <2>2, <2>3, <2>4 DEF Witness, Excused, Running, Chosen
<1>12. CASE ListPage(r)
  <2>1. pc[r] = "page" /\ tenant' = tenant /\ pc'[r] = "served"
    BY <1>1, <1>12 DEF ListPage, Goto
  <2>2. /\ tenant'[r] \in Tenants
        /\ \E S \in snaps'[r] : tenant'[r] \in S
        /\ header'[r] = tenant'[r] \/ {tenant'[r]} \in snaps'[r]
    BY <1>9, <2>1
  <2>3. route'[r] = "module" => <<"on", tenant'[r]>> \in witnessed'[r]
    BY <1>1, <1>2, <2>1 DEF Witness
  <2> QED BY <2>1, <2>2, <2>3 DEF Witness, Excused, Running, Chosen
<1> QED BY <1>4, <1>5, <1>6, <1>7, <1>8, <1>10, <1>11, <1>12 DEF Handle

LEMMA HandleWitness ==
    ASSUME TypeOK, \A q \in Requests : Witness(q) /\ Excused(q),
           NEW r \in Requests, Handle(r)
    PROVE  \A q \in Requests : Witness(q)' /\ Excused(q)'
<1>1. UNCHANGED <<hindrances, route, malformed, header>> /\ Observe
  BY DEF Handle, verifier
<1>2. ASSUME NEW q \in Requests, q # r
      PROVE  Witness(q)' /\ Excused(q)'
  <2>1. found'[q] = found[q] /\ tenant'[q] = tenant[q]
    BY <1>2 DEF TypeOK, Handle, Crash, Reject, FindIdentity,
                ActiveMemberships, Choose, Guard, ForTenant, OpenPool, ListPage
  <2>2. Witness(q) /\ Excused(q) /\ pc'[q] = pc[q]
    BY <1>2, HandleMoves DEF TypeOK
  <2> QED BY <1>1, <2>1, <2>2, OthersStayWitnessed
<1>3. Witness(r)' /\ Excused(r)'
  BY OwnStepWitness
<1> QED BY <1>2, <1>3

----------------------------------------------------------------------------
(* The invariant and what it implies.                                      *)

LEMMA InitInv == Init => IInv
BY InitType, InitVerified, InitWitness DEF IInv

LEMMA NextInv == IInv /\ [Next]_vars => IInv'
<1> SUFFICES ASSUME IInv, [Next]_vars PROVE IInv'
  OBVIOUS
<1>1. /\ TypeOK /\ KeysArePublished
      /\ \A r \in Requests : Verified(r)
      /\ \A r \in Requests : Witness(r) /\ Excused(r)
  BY DEF IInv
<1>2. TypeOK'
  BY <1>1, NextType
<1>3. CASE UNCHANGED vars
  <2>1. UNCHANGED <<verifier, pc>>
    BY <1>3 DEF vars
  <2>2. UNCHANGED <<registry, pc, request, snaps, witnessed>>
    BY <1>3 DEF vars
  <2>3. KeysArePublished' /\ \A r \in Requests : Verified(r)'
    BY <1>1, <2>1, AdministerVerified
  <2>4. \A r \in Requests : Witness(r)' /\ Excused(r)'
    BY <1>1, <2>1, <2>2, RealmWitness DEF verifier
  <2> QED BY <1>2, <2>3, <2>4 DEF IInv
<1>4. CASE Administer
  <2>1. UNCHANGED <<verifier, pc>>
    BY <1>4 DEF Administer
  <2>2. KeysArePublished' /\ \A r \in Requests : Verified(r)'
    BY <1>1, <2>1, AdministerVerified
  <2>3. \A r \in Requests : Witness(r)' /\ Excused(r)'
    BY <1>1, <1>4, AdministerWitness
  <2> QED BY <1>2, <2>2, <2>3 DEF IInv
<1>5. CASE RealmMoves
  <2>1. UNCHANGED <<registry, pc, request, snaps, witnessed>>
    BY <1>5 DEF RealmMoves, Realm, RealmChange, Tick
  <2>2. KeysArePublished' /\ \A r \in Requests : Verified(r)'
    BY <1>1, <1>5, RealmVerified
  <2>3. \A r \in Requests : hindrances[r] \subseteq hindrances'[r]
    BY <1>1, <1>5, NotedIs DEF RealmMoves, Realm, RealmChange, Tick
  <2>4. \A r \in Requests : Witness(r)' /\ Excused(r)'
    BY <1>1, <2>1, <2>3, RealmWitness
  <2> QED BY <1>2, <2>2, <2>4 DEF IInv
<1>6. ASSUME NEW r \in Requests, Authenticate(r)
      PROVE  IInv'
  BY <1>1, <1>2, <1>6, AuthenticateVerified, AuthenticateWitness DEF IInv
<1>7. ASSUME NEW r \in Requests, Handle(r)
      PROVE  IInv'
  BY <1>1, <1>2, <1>7, HandleVerified, HandleWitness DEF IInv
<1> QED BY <1>3, <1>4, <1>5, <1>6, <1>7 DEF Next

\* The inductive invariant: what each request read, chose or was refused for
\* was so at an instant it witnessed.
THEOREM InvariantHolds == Spec => []IInv
BY InitInv, NextInv, PTL DEF Spec

\* Tenant data is served, and a query about it judged, only to requests with
\* an authentic token whose identity was entitled to that tenant at some
\* instant of the request.
THEOREM ServedOnlyEntitled == Spec => []ServedWasEntitled
<1>1. IInv => ServedWasEntitled
  BY DEF IInv, Verified, Witness, Chosen, ServedWasEntitled
<1> QED BY <1>1, InvariantHolds, PTL

\* An identity with several tenants is never given one it did not name.
THEOREM ChoiceIsTheCallers == Spec => []NoSilentChoice
<1>1. IInv => NoSilentChoice
  BY DEF IInv, Witness, Chosen, NoSilentChoice
<1> QED BY <1>1, InvariantHolds, PTL

\* A guarded controller answers only for a tenant that had its module on.
THEOREM GuardHolds == Spec => []ServedModuleWasOn
<1>1. IInv => ServedModuleWasOn
  BY DEF IInv, Witness, ServedModuleWasOn
<1> QED BY <1>1, InvariantHolds, PTL

\* Each refusal has its reason at an instant of the request, and each server
\* error is of the signing keys, the registry or this very tenant.
THEOREM RefusalsHaveCause == Spec => []RefusedForCause
<1>1. IInv => RefusedForCause
  BY DEF IInv, Excused, RefusedForCause
<1> QED BY <1>1, InvariantHolds, PTL

\* Key rotation needs no restart: a good token is refused only for a key not
\* published, a realm that cannot be asked, or the clock.
THEOREM TokenRefusalsHaveCause == Spec => []TokenRefusedForCause
<1>1. IInv => TokenRefusedForCause
  BY DEF IInv, Verified, TokenRefusedForCause
<1> QED BY <1>1, InvariantHolds, PTL
=============================================================================
