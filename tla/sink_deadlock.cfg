CONSTANTS
    Request = {r1}
    Creator = {c1}
    Principal = {"agent", "dev", "sec", "org", "root"}
    RolesOf <- MCRolesOf
    Partition = {"prod", "dev"}
    Production = {"prod"}
    Policy <- MCPolicy
    DefaultTimeout = 1
    NoOne = "no one"
    MaxTime = 2
    SetId = {s1, s2}
    Tenant = {t1, t2}
    Unit = {"org"}
    Stage = {"production", "staging"}
    AnyStage = "any"
    KeyId = {k1}
    Environment = {"production", "staging"}
    LiveEnvironment = {"production"}
    Service = {v1}
    Lifetime = {0, 1, 2}
    AssertionTtl = 1
    ClockSkew = 1
    Never = Never
    MaxHalves = 5
    Client = {"c1"}
    ApiKey = {"key1"}
    NoApiKey = "nokey"
    Token <- MCTokens
    NoToken = NoToken
    AuthProvider <- MCProviders
    Needed = {"audit:read", "audit:admin"}
    KeyRoles <- MCKeyRoles
    MaxRequests = 2
    Window = 2
    MaxInstant = 4
    Rule <- MCRule
    PolicyEvent <- MCPolicyEvent
    InitialSet <- MCInitialSet
    Evaluation = {"v1"}
    Edit = {"d1", "d2"}
    MaxRules = 2
    AuditTenant = {"t1", "t2"}
    AuditStage = {"prod", "dev"}
    StageOrder <- MCStageOrder
    Happening <- MCHappening
    Genesis <- MCGenesis
    MaxChained = 4
    Logger = {"l1", "l2"}
    Entry <- MCEntry
    PayloadOf <- MCPayloadOf
    Setup <- MCSetup
    BatchSize = 2
    NoLogger = "nobody"
    NoEntry = "none"
    Call = {"k1", "k2"}
    RecordId = {"x"}
    Dialog = {"s1", "s2"}
    ApiAgent = {"a1", "a2"}
    ToolCall <- MCToolCall
    Keywords <- MCKeywords
    Defaults <- MCDefaults
    TermsOf <- MCTermsOf
    PathLike = {"path"}
    SessionIds = "session ids"
    MaxUses = 3
SPECIFICATION FairSinkSpec
PROPERTIES RecordsAreDispatched
CHECK_DEADLOCK FALSE
