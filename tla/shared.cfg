CONSTANTS
    RequestId = {r1, r2}
    Operator = {}
    Process = {p1, p2}
    Decider = {p1}
    Creator = {p1, p2}
    TTL = {1}
    Crashes = TRUE
    MaxTime = 1
SPECIFICATION Spec
INVARIANTS NoMixedVersions DecisionsWereAccepted
