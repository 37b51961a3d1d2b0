CONSTANTS
    RequestId = {r1}
    Operator = {"alice", "bob"}
    Persistent = FALSE
    PersistFaults = {}
    TTL = {0, 1, 2}
    Approvers = {{}, {"bob"}}
    AuditCap = 2
    MaxTime = 4
    Timeout = 2
    TimeoutBehavior = "FAIL_CLOSED"
    Interactive = {TRUE, FALSE}
SPECIFICATION ProviderSpec
CHECK_DEADLOCK FALSE
INVARIANTS FailClosed AuditedOnce
PROPERTIES WaitEnds
