----------------------------- MODULE ApiGateway -----------------------------
(***************************************************************************)
(* What a request meets before its endpoint (api/middleware.py,            *)
(* api/auth.py): the rate limiter, which the outermost middleware asks and *)
(* which runs to its end within one turn of the event loop, and then the   *)
(* provider that is configured at that moment, which makes the context     *)
(* whose permissions the endpoint requires.                                *)
(***************************************************************************)
EXTENDS Integers, Sequences, FiniteSets, FiniteSetsExt

CONSTANTS
    Client,         \* client keys of the limiter
    ApiKey, NoApiKey,
    Token, NoToken, \* bearer tokens, as the records of their claims
    AuthProvider,   \* configurations: sequences of providers, one or a composite
    Needed,         \* permissions that endpoints require
    KeyRoles,       \* roles an API key may be registered with
    MaxRequests, Window,
    MaxInstant      \* bound on the clock

ASSUME GatewayAssumption ==
    /\ MaxRequests \in Nat \ {0} /\ Window \in Nat \ {0} /\ MaxInstant \in Nat
    /\ NoApiKey \notin ApiKey /\ NoToken \notin Token

ASSUME ProviderAssumption == \A p \in AuthProvider :
    /\ p \in Seq({p[i] : i \in DOMAIN p})
    /\ \A i \in DOMAIN p : p[i].kind \in {"anonymous", "api key", "oidc"}

VARIABLES
    instant,        \* time.time()
    windows,        \* InMemoryRateLimiter._windows
    admittedAt,     \* when requests of each client were admitted
    told,           \* the last refusal of each client and its Retry-After
    inside,         \* clients whose admitted request has not been answered
    provider,       \* _global_auth_provider
    apiKeys,        \* ApiKeyAuthProvider.api_keys
    answer          \* the last request that passed the limiter, and its answer

gatewayVars == <<instant, windows, admittedAt, told, inside, provider, apiKeys, answer>>
limiterVars == <<windows, admittedAt, told>>

Untold == [at |-> -1, wait |-> 0]
Unanswered == [status |-> 0]

GatewayInit ==
    /\ instant = 0
    /\ windows = [c \in Client |-> <<>>]
    /\ admittedAt = [c \in Client |-> <<>>]
    /\ told = [c \in Client |-> Untold]
    /\ inside = {}
    /\ provider = <<[kind |-> "anonymous", allow_all |-> TRUE]>>
    /\ apiKeys = [k \in {} |-> {}]
    /\ answer = Unanswered

-----------------------------------------------------------------------------
MutantPruned(window) ==
    LET recent == {i \in DOMAIN window : window[i] > instant - Window}
    IN  IF recent = {} THEN <<>> ELSE SubSeq(window, Min(recent), Len(window))

(* Timestamps are popped from the left until one is not older than the     *)
(* window.                                                                 *)
Pruned(window) ==
    LET recent == {i \in DOMAIN window : window[i] >= instant - Window}
    IN  IF recent = {} THEN <<>> ELSE SubSeq(window, Min(recent), Len(window))

MutantRetryAfter(window) == window[1] + Window - instant

(* The Retry-After header: the seconds until the oldest timestamp is as    *)
(* old as the window, rounded down, and one more.                          *)
RetryAfter(window) == window[1] + Window - instant + 1

(* RateLimitMiddleware: is_allowed, and 429 if it is not.                  *)
Arrive(c) ==
    LET window == Pruned(windows[c]) IN
    /\ c \notin inside
    /\ \/ /\ Len(window) < MaxRequests
          /\ windows' = [windows EXCEPT ![c] = Append(window, instant)]
          /\ admittedAt' = [admittedAt EXCEPT ![c] = Append(@, instant)]
          /\ inside' = inside \cup {c}
          /\ UNCHANGED told
       \/ /\ Len(window) >= MaxRequests
          /\ windows' = [windows EXCEPT ![c] = window]
          /\ told' = [told EXCEPT ![c] = [at |-> instant, wait |-> RetryAfter(window)]]
          /\ UNCHANGED <<admittedAt, inside>>
    /\ UNCHANGED <<instant, provider, apiKeys, answer>>

-----------------------------------------------------------------------------
Read == {"health:read", "events:read", "decisions:read", "agents:read", "policies:read",
         "approvals:read"}
Operate == Read \cup {"events:write", "decisions:evaluate", "approvals:write", "audit:read"}

(* DEFAULT_ROLE_PERMISSIONS; a role that is not known grants nothing.      *)
GrantedTo(role) ==
    CASE role = "admin" -> {"*"}
      [] role \in {"operator", "guest"} -> Operate
      [] role = "auditor" -> Read \cup {"audit:read"}
      [] role = "agent" -> {"health:read", "events:write", "decisions:evaluate"}
      [] role = "viewer" -> Read
      [] OTHER -> {}

GrantedToAny(roles) == UNION {GrantedTo(role) : role \in roles}

HasPermission(context, permission) == {permission, "*"} \cap context.permissions # {}

ContextOf(authenticated, permissions) ==
    [refused |-> FALSE, authenticated |-> authenticated, permissions |-> permissions]
Unauthorized401 == [refused |-> TRUE, authenticated |-> FALSE, permissions |-> {}]

Anonymous(all) ==
    ContextOf(FALSE, IF all THEN Operate \cup {"*"} ELSE GrantedTo("guest"))

(* No credential of the provider's kind: a guest, if that is allowed.      *)
WithoutCredential(p) == IF p.allow_anonymous THEN Anonymous(FALSE) ELSE Unauthorized401

(* ApiKeyAuthProvider.register_key                                         *)
RegisterKey(k, roles) ==
    /\ apiKeys' = [key \in DOMAIN apiKeys \cup {k} |->
            IF key = k THEN GrantedToAny(IF roles = {} THEN {"operator"} ELSE roles)
            ELSE apiKeys[key]]
    /\ UNCHANGED <<instant, limiterVars, inside, provider, answer>>

AuthenticateKey(p, r) ==
    IF r.key = NoApiKey THEN WithoutCredential(p)
    ELSE IF r.key \in DOMAIN apiKeys THEN ContextOf(TRUE, apiKeys[r.key])
    ELSE Unauthorized401

(* Expiry, issuer and audience, each if the token or the provider has one. *)
TokenAccepted(p, token) ==
    /\ token.exp >= instant
    /\ p.issuer \in {"any", token.iss}
    /\ p.audience \in token.aud \cup {"any"}

RolesIn(token) == token.roles \cup token.realmRoles \cup token.clientRoles

AuthenticateToken(p, r) ==
    IF r.token = NoToken THEN WithoutCredential(p)
    ELSE IF ~TokenAccepted(p, r.token) THEN Unauthorized401
    ELSE ContextOf(TRUE, r.token.scopes \cup
            GrantedToAny(IF RolesIn(r.token) = {} THEN {"viewer"} ELSE RolesIn(r.token)))

AuthenticateBy(p, r) ==
    CASE p.kind = "anonymous" -> Anonymous(p.allow_all)
      [] p.kind = "api key" -> AuthenticateKey(p, r)
      [] p.kind = "oidc" -> AuthenticateToken(p, r)

MutantAuthenticateAll(r) ==
    LET contexts == {AuthenticateBy(provider[i], r) : i \in DOMAIN provider}
        accepted == {c \in contexts : ~c.refused}
    IN  IF accepted # {} THEN CHOOSE c \in accepted : TRUE ELSE Unauthorized401

(* CompositeAuthProvider: the first that authenticates, then the first     *)
(* AnonymousAuthProvider; a guest that another admits does not count.      *)
AuthenticateAll(r) ==
    LET context(i) == AuthenticateBy(provider[i], r)
        certain == {i \in DOMAIN provider : context(i).authenticated}
        open == {i \in DOMAIN provider : provider[i].kind = "anonymous"}
    IN  CASE certain # {} -> context(Min(certain))
          [] certain = {} /\ open # {} -> context(Min(open))
          [] OTHER -> Unauthorized401

(* get_current_auth                                                        *)
CurrentAuth(r) == IF Len(provider) = 1 THEN AuthenticateBy(provider[1], r) ELSE AuthenticateAll(r)

(* set_auth_provider                                                       *)
SetAuthProvider(p) ==
    /\ provider' = p
    /\ UNCHANGED <<instant, limiterVars, inside, apiKeys, answer>>

(* require_permission decides about the endpoint; what the endpoint itself *)
(* answers or raises is turned into a status by the error handlers.        *)
StatusOf(context, r) ==
    IF context.refused THEN 401
    ELSE IF ~HasPermission(context, r.needs) THEN 403
    ELSE 200

Serve(c, r) ==
    /\ c \in inside
    /\ inside' = inside \ {c}
    /\ answer' = [status |-> StatusOf(CurrentAuth(r), r), request |-> r]
    /\ UNCHANGED <<instant, limiterVars, provider, apiKeys>>

PassInstant ==
    /\ instant < MaxInstant
    /\ instant' = instant + 1
    /\ UNCHANGED <<limiterVars, inside, provider, apiKeys, answer>>

ApiRequest ==
    [key : ApiKey \cup {NoApiKey}, token : Token \cup {NoToken}, needs : Needed]

GatewayNext ==
    \/ \E c \in Client : Arrive(c) \/ \E r \in ApiRequest : Serve(c, r)
    \/ \E k \in ApiKey, roles \in KeyRoles : RegisterKey(k, roles)
    \/ \E p \in AuthProvider : SetAuthProvider(p)
    \/ PassInstant

GatewaySpec == GatewayInit /\ [][GatewayNext]_gatewayVars

-----------------------------------------------------------------------------
(* No client is admitted more than max_requests times in any window, the   *)
(* boundaries included.                                                    *)
WindowsAreBounded ==
    \A c \in Client : \A t \in 0..MaxInstant :
        Cardinality({i \in DOMAIN admittedAt[c] : admittedAt[c][i] \in (t - Window)..t})
            <= MaxRequests

(* Who waits as long as Retry-After says and asks for nothing meanwhile is *)
(* admitted.                                                               *)
RetryAfterSuffices ==
    \A c \in Client :
        (/\ told[c] # Untold
         /\ instant >= told[c].at + told[c].wait
         /\ \A i \in DOMAIN admittedAt[c] : admittedAt[c][i] <= told[c].at)
            => Len(Pruned(windows[c])) < MaxRequests

(* An endpoint is entered with a permission that comes from a registered   *)
(* key or an accepted token of the request, or else from a configuration   *)
(* that admits anonymous requests: an AnonymousAuthProvider, or a single   *)
(* provider that allows them.                                              *)
Grants(p, r, permission) ==
    \/ p.kind = "anonymous"
    \/ /\ AuthenticateBy(p, r).authenticated
       /\ HasPermission(AuthenticateBy(p, r), permission)

PermissionsAreGranted ==
    [][inside' \subseteq inside /\ inside' # inside /\ answer'.status = 200 =>
        LET r == answer'.request IN
        \/ \E i \in DOMAIN provider : Grants(provider[i], r, r.needs)
        \/ Len(provider) = 1 /\ provider[1].allow_anonymous]_gatewayVars
=============================================================================
