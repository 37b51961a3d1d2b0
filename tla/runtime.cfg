CONSTANTS
    Session = {"s1"}
    Thread = {"t1", "t2"}
    State = {"a", "b"}
    Batch <- MCBatch
    Smoothed = TRUE
    RawIncrement <- MCRaw
    Cap = 1
    Upper = 2
    Lower <- MCLower
    Odds <- MCOdds
    Ttl = 0
    MaxClock = 1
    MaxCount = 3
    NoState = "none"
    Event = {"e1", "e2"}
    Trace = {"h1", "h2"}
    Detector = {"d1", "d2"}
    Engine = {1, 2}
    NoList = "none"
    Task = {"k1", "k2"}
    Run = {"r1", "r2"}
    Listener = {"l1"}
    Manager = {"m1"}
    NoRun = "unknown"
    NoManager = "none"
    MaxDepth = 2
    Role = {"coder", "executor"}
    NoRole = "norole"
    Privilege <- MCPrivilege
    Interaction <- MCInteraction
    InitialGraph <- MCInitialGraph
    MaxCallDepth = 2
    MinTransitionCount = 2
    FrequencyThreshold = 50
    MaxObserved = 4
SPECIFICATION Spec
INVARIANTS EvidenceBoundsTheRatio FailSafe SessionsAreIsolated 
PROPERTIES  EventsCarryTheirRun
CHECK_DEADLOCK FALSE
