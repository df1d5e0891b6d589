--------------------------- MODULE TokenVerifier ---------------------------
(***************************************************************************)
(* Verifying the bearer token of a request (core/deps.py,                  *)
(* core/security.py) while the identity provider rotates its signing keys, *)
(* its JWKS endpoint comes and goes and the clock runs.                    *)
(*                                                                         *)
(* The threads of a process share one PyJWKClient.  It is external: it     *)
(* keeps the JWK set it fetched last for a while, fetches again for an     *)
(* unknown "kid", and with cache_keys keeps every key it handed out (the   *)
(* 16 latest; fewer here).  Its errors are PyJWTErrors, but for those of a *)
(* body that is no JSON.                                                   *)
(***************************************************************************)
EXTENDS Naturals

CONSTANTS
    Requests,
    Flaws,            \* what may be wrong with the token of a request
    MaxKeys,          \* bound on the signing keys of the realm
    Leeway,           \* leeway_seconds
    MaxNow,           \* bound on the clock
    MaxRealmChanges   \* bound on the changes of the realm

\* A token may be missing or no JWT, its algorithm not allowed, its signature
\* not by the key its "kid" names, or a required claim, the issuer or the
\* audience not as it should be.
ASSUME VerifierAssumption ==
    /\ Flaws \subseteq {"none", "algorithm", "forged", "claims"}
    /\ MaxKeys \in Nat \ {0}
    /\ Leeway \in Nat
    /\ MaxNow \in Nat
    /\ MaxRealmChanges \in Nat

VARIABLES
    oldest, newest,   \* the realm publishes the keys oldest..newest
    endpoint,         \* what the JWKS endpoint does
    now,
    realmChanges,     \* number of changes of the realm still to come
    keySet,           \* keys of the cached JWK set; {}: none, or lapsed
    resolved,         \* keys the client handed out
    token,            \* the bearer token of each request
    pc,               \* where each request is, or its answer
    hindrances        \* history: what stood in the way of a good token

realmVars == <<oldest, newest, endpoint, now, realmChanges>>
clientVars == <<keySet, resolved>>

Keys == 1..MaxKeys
Published == oldest..newest
EverPublished == 1..newest

\* It answers, cannot be reached (or refuses), or answers with no JSON.
EndpointStates == {"answers", "down", "broken"}

Shapes == Flaws \cup {"good"}

Tokens == [shape : Shapes, key : Keys, issued : 0..MaxNow, expires : 0..MaxNow]

\* The tokens worth telling apart: one flaw at a time.
Presentable ==
    {t \in Tokens :
        /\ t.shape = "good" => t.issued < t.expires \/ {t.issued, t.expires} = {MaxNow}
        /\ t.shape # "good" => t.issued = 0 /\ t.expires = MaxNow
        /\ t.shape \in {"none", "algorithm"} => t.key = 1}

Verifying == {"lookup", "load", "refresh", "decode"}
VerifierLabels ==
    {"new", "verified", "unauthenticated", "internalError"} \cup Verifying

Hindrances == {"key", "realm", "broken", "clock"}

VerifierTypeOK ==
    /\ newest \in Keys
    /\ oldest \in 1..newest
    /\ endpoint \in EndpointStates
    /\ now \in 0..MaxNow
    /\ realmChanges \in 0..MaxRealmChanges
    /\ keySet \subseteq Keys
    /\ resolved \subseteq Keys
    /\ token \in [Requests -> Tokens]
    /\ hindrances \in [Requests -> SUBSET Hindrances]

\* PyJWT: "exp" must be later, and "iat" must not be.
InTime(t) == t.expires + Leeway > now /\ t.issued <= now + Leeway

\* A request that missed the key in the caches asks the realm, although
\* another thread may have resolved the key meanwhile.
Asking == {"load", "refresh"}

Hindrance(r) ==
    {h \in Hindrances :
        \/ h = "key" /\ token[r].key \notin Published
        \/ /\ <<h, endpoint>> \in {<<"realm", "down">>, <<"broken", "broken">>}
           /\ pc[r] \in Asking \/ token[r].key \notin resolved
        \/ h = "clock" /\ ~InTime(token[r])}

NoteHindrances ==
    hindrances' = [r \in Requests |->
                      IF pc'[r] \in Verifying
                      THEN hindrances[r] \cup Hindrance(r)'
                      ELSE hindrances[r]]

----------------------------------------------------------------------------
(* The identity provider and the clock.                                    *)

Rotate ==
    /\ newest < MaxKeys
    /\ newest' = newest + 1
    /\ UNCHANGED <<oldest, endpoint, keySet>>

Retire ==
    /\ oldest < newest
    /\ oldest' = oldest + 1
    /\ UNCHANGED <<newest, endpoint, keySet>>

ComeAndGo ==
    /\ endpoint' \in EndpointStates \ {endpoint}
    /\ UNCHANGED <<oldest, newest, keySet>>

\* The lifespan of the cached JWK set is over.
Lapse ==
    /\ keySet # {}
    /\ keySet' = {}
    /\ UNCHANGED <<oldest, newest, endpoint>>

RealmChange ==
    /\ realmChanges > 0
    /\ realmChanges' = realmChanges - 1
    /\ Rotate \/ Retire \/ ComeAndGo \/ Lapse
    /\ UNCHANGED <<now, resolved, token, pc>>
    /\ NoteHindrances

Tick ==
    /\ now < MaxNow
    /\ now' = now + 1
    /\ UNCHANGED <<oldest, newest, endpoint, realmChanges, clientVars, token,
                   pc>>
    /\ NoteHindrances

----------------------------------------------------------------------------
(* current_token and verify.  Every PyJWTError becomes 401.                *)

VerifyGoto(r, from, to) == pc[r] = from /\ pc' = [pc EXCEPT ![r] = to]

\* No credentials, or get_unverified_header and the allowed algorithms.
Present(r) ==
    /\ VerifyGoto(r, "new", IF token[r].shape \in {"none", "algorithm"}
                            THEN "unauthenticated" ELSE "lookup")
    /\ UNCHANGED clientVars

\* Fault: an unknown "kid" is refused without another fetch.
LookupOnce(r) ==
    LET known == token[r].key \in resolved \cup keySet
    IN  /\ VerifyGoto(r, "lookup", CASE known -> "decode"
                                     [] ~known /\ keySet = {} -> "load"
                                     [] OTHER -> "unauthenticated")
        /\ resolved' = resolved \cup (keySet \cap {token[r].key})
        /\ UNCHANGED keySet

\* JwksKeyResolver: get_signing_key_from_jwt, as far as it goes by itself.
Lookup(r) ==
    LET known == token[r].key \in resolved \cup keySet
    IN  /\ VerifyGoto(r, "lookup", CASE known -> "decode"
                                     [] ~known /\ keySet = {} -> "load"
                                     [] OTHER -> "refresh")
        /\ resolved' = resolved \cup (keySet \cap {token[r].key})
        /\ UNCHANGED keySet

\* The JWK set is fetched because there is none, or again for this "kid".
Fetch(r, from, otherwise) ==
    LET key == token[r].key
    IN  /\ endpoint = "answers"
        /\ keySet' = Published
        /\ resolved' = resolved \cup (Published \cap {key})
        /\ VerifyGoto(r, from, IF key \in Published THEN "decode"
                                                    ELSE otherwise)

\* Fault: only the errors of the token itself become 401.
FetchFailsEscapes(r) ==
    /\ pc[r] \in Asking
    /\ endpoint # "answers"
    /\ VerifyGoto(r, pc[r], "internalError")
    /\ keySet' \in {keySet, {}}
    /\ UNCHANGED resolved

\* PyJWKClientConnectionError; or the error of a body that is no JSON, which
\* is no PyJWTError and left to the handler of last resort.  Whether the set
\* of before stays cached is the library's choice.
FetchFails(r) ==
    /\ pc[r] \in Asking
    /\ \/ endpoint = "down" /\ VerifyGoto(r, pc[r], "unauthenticated")
       \/ endpoint = "broken" /\ VerifyGoto(r, pc[r], "internalError")
    /\ keySet' \in {keySet, {}}
    /\ UNCHANGED resolved

Decode(r) ==
    /\ VerifyGoto(r, "decode",
                  IF token[r].shape = "good" /\ InTime(token[r])
                  THEN "verified" ELSE "unauthenticated")
    /\ UNCHANGED clientVars

Verify(r) ==
    /\ \/ Present(r) \/ Lookup(r)
       \/ Fetch(r, "load", "refresh") \/ Fetch(r, "refresh", "unauthenticated")
       \/ FetchFails(r) \/ Decode(r)
    /\ UNCHANGED <<realmVars, token>>
    /\ NoteHindrances

Realm == RealmChange \/ Tick

----------------------------------------------------------------------------
(* Properties.                                                             *)

\* "Signing-key rotation needs no restart": a good token is refused only if,
\* while it was verified, its key was not published, or the key was new to
\* this process and the realm could not be asked, or it was not in time.
\* What the caches hold, rightly or no longer, is never the reason, nor is an
\* endpoint whose answer cannot be read: that is an error of the server.
TokenRefusedForCause ==
    \A r \in Requests :
        pc[r] = "unauthenticated" /\ token[r].shape = "good"
            => hindrances[r] \ {"broken"} # {}

\* Whoever passes carries a good token signed with a key of the realm.
Authentic(r) ==
    /\ token[r].shape = "good"
    /\ token[r].key \in EverPublished
=============================================================================
