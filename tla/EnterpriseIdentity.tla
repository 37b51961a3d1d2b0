------------------------- MODULE EnterpriseIdentity -------------------------
(***************************************************************************)
(* Credentials of the enterprise edition (enterprise/auth.py): API keys of *)
(* EnterpriseApiKeyManager, OIDC tokens checked by TokenValidator, and the *)
(* signed assertions of ServiceToServiceAuth.  Hashes and signatures are   *)
(* perfect: a secret is its key's, a signature covers exactly the fields   *)
(* it was made for.  Time runs in half seconds, since expiry dates are cut *)
(* to whole seconds.                                                       *)
(***************************************************************************)
EXTENDS Integers

CONSTANTS
    KeyId, Environment, LiveEnvironment, Service,
    Lifetime,       \* ttl_seconds of keys; 0 is taken for "no expiry"
    AssertionTtl,   \* ttl_seconds of service assertions
    ClockSkew,      \* clock_skew_seconds
    Never,          \* no expiry
    MaxHalves       \* bound on the clock

ASSUME IdentityAssumption ==
    /\ LiveEnvironment \subseteq Environment
    /\ Lifetime \subseteq Nat /\ AssertionTtl \in Nat
    /\ ClockSkew \in Nat /\ MaxHalves \in Nat
    /\ Never \notin Int

VARIABLES
    keys,           \* _keys
    assertions,     \* the service tokens handed out
    accepted,       \* what was accepted last, and when
    halves          \* the clock

identityVars == <<keys, assertions, accepted, halves>>

Seconds == halves \div 2

NoKey == [revoked |-> FALSE]
NothingAccepted == [by |-> "nothing"]

IdentityInit ==
    /\ keys = [k \in KeyId |-> NoKey]
    /\ assertions = {}
    /\ accepted = NothingAccepted
    /\ halves = 0

-----------------------------------------------------------------------------

MutantExpiresAt(ttl) == IF ttl = 0 THEN Never ELSE Seconds + ttl + 1

(* int(time.time() + ttl_seconds) if ttl_seconds else None                 *)
ExpiresAt(ttl) == IF ttl = 0 THEN Never ELSE (halves + 2 * ttl) \div 2

GenerateApiKey(k, environment, ttl) ==
    /\ keys[k] = NoKey
    /\ keys' = [keys EXCEPT ![k] =
            [environment |-> environment, made |-> halves, ttl |-> ttl,
             expires |-> ExpiresAt(ttl), revoked |-> FALSE]]
    /\ UNCHANGED <<assertions, accepted, halves>>

(* revoke_key: there is no lock, but nothing else replaces a record.       *)
RevokeKey(k) ==
    /\ keys[k] # NoKey
    /\ keys' = [keys EXCEPT ![k].revoked = TRUE]
    /\ UNCHANGED <<assertions, accepted, halves>>

(* "rv_live_" goes with production and "rv_test_" with the rest; a key of  *)
(* the right form and secret but another prefix is not a key.              *)
PrefixFits(prefix, record) == (prefix = "live") = (record.environment \in LiveEnvironment)

KeyExpired(record) == record.expires # Never /\ Seconds > record.expires

(* verify_api_key returns the record.                                      *)
VerifyApiKey(k, prefix) ==
    /\ keys[k] # NoKey
    /\ ~keys[k].revoked
    /\ PrefixFits(prefix, keys[k])
    /\ ~KeyExpired(keys[k])
    /\ accepted' = [by |-> "key", key |-> k, prefix |-> prefix, at |-> halves]
    /\ UNCHANGED <<keys, assertions, halves>>

-----------------------------------------------------------------------------
(* create_service_token                                                    *)
CreateServiceToken(s) ==
    /\ assertions' = assertions \cup
            {[service |-> s, issued |-> Seconds, expires |-> Seconds + AssertionTtl]}
    /\ UNCHANGED <<keys, accepted, halves>>

(* verify_service_token: the signature fits the fields presented exactly   *)
(* when they are those of a token handed out; a field that is 0 counts as  *)
(* missing.                                                                *)
VerifyServiceToken(s, issued, expires) ==
    /\ issued # 0 /\ expires # 0
    /\ Seconds <= expires
    /\ [service |-> s, issued |-> issued, expires |-> expires] \in assertions
    /\ accepted' = [by |-> "service", service |-> s, expires |-> expires, at |-> halves]
    /\ UNCHANGED <<keys, assertions, halves>>

(* validate_token: exp, nbf (Never: the claim is missing), iss and aud.    *)
ValidateToken(exp, nbf, issuerFits, audienceFits) ==
    /\ exp # Never => Seconds - ClockSkew <= exp
    /\ nbf # Never => Seconds + ClockSkew >= nbf
    /\ issuerFits /\ audienceFits
    /\ accepted' = [by |-> "oidc", exp |-> exp, nbf |-> nbf, at |-> halves]
    /\ UNCHANGED <<keys, assertions, halves>>

PassHalf ==
    /\ halves < MaxHalves
    /\ halves' = halves + 1
    /\ UNCHANGED <<keys, assertions, accepted>>

Instant == 0..(MaxHalves \div 2 + AssertionTtl)

IdentityNext ==
    \/ \E k \in KeyId :
        \/ \E e \in Environment, ttl \in Lifetime : GenerateApiKey(k, e, ttl)
        \/ RevokeKey(k)
        \/ \E prefix \in {"live", "test"} : VerifyApiKey(k, prefix)
    \/ \E s \in Service : CreateServiceToken(s)
    \/ \E s \in Service, issued, expires \in Instant : VerifyServiceToken(s, issued, expires)
    \/ \E exp, nbf \in Instant \cup {Never}, issuer, audience \in BOOLEAN :
            ValidateToken(exp, nbf, issuer, audience)
    \/ PassHalf

IdentitySpec == IdentityInit /\ [][IdentityNext]_identityVars

-----------------------------------------------------------------------------
(* Whole seconds cost no one time and give less than a second: a key that  *)
(* has a lifetime is accepted only in that lifetime and the second that    *)
(* follows it, and expires no earlier; a service assertion is accepted     *)
(* only for the service and expiry it was signed for, and not a second     *)
(* longer than its lifetime after it was issued.                           *)
CredentialsLiveTheirTtl ==
    /\ \A k \in KeyId : keys[k] # NoKey /\ keys[k].ttl # 0 =>
            /\ KeyExpired(keys[k]) => halves > keys[k].made + 2 * keys[k].ttl
            /\ halves >= keys[k].made + 2 * (keys[k].ttl + 1) => KeyExpired(keys[k])
    /\ accepted.by = "service" =>
            \E t \in assertions :
                /\ t.service = accepted.service /\ t.expires = accepted.expires
                /\ accepted.at < 2 * (t.issued + AssertionTtl + 1)
=============================================================================
