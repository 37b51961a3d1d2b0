CONSTANTS
    RequestId = {r1, r2}
    Operator = {"alice"}
    Process = {p1, p2}
    Decider = {p1}
    Creator = {p2}
    TTL = {1}
    Crashes = FALSE
    MaxTime = 0
SPECIFICATION Spec
CHECK_DEADLOCK FALSE
INVARIANTS OneVerdict
