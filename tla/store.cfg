CONSTANTS
    RequestId = {r1, r2}
    Operator = {"alice"}
    Persistent = TRUE
    PersistFaults = {"torn", "crash"}
    TTL = {0, 1}
    Approvers = {{}}
    AuditCap = 1
    MaxTime = 2
SPECIFICATION Spec
INVARIANTS TypeOK RequestsWellFormed TransitionsAudited
PROPERTIES DecisionIsFinal DecidedInTime LifecycleSpec
